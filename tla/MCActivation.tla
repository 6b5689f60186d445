---------------------------- MODULE MCActivation ----------------------------
(***************************************************************************)
(* Small instances of Activation for TLC.  A configuration picks the sets; *)
(* the functions below give every device and profile its kind.             *)
(***************************************************************************)
EXTENDS Activation, TLC

CONSTANTS eth, wlan, wired, manual, home, off, cafe, homeNet, a1, a2, a3, c1, c2

\* One wired or one wifi device, or one of each
WiredOnly == {eth}
WifiOnly  == {wlan}
Both      == {eth, wlan}

MCKind == [d \in Dev |-> IF d = wlan THEN "wifi" ELSE "ethernet"]

\* home and cafe are wifi profiles (of the same network), the others wired
MCSsidOf == [p \in Profile |-> IF p \in {home, cafe} THEN homeNet ELSE None]

MCMethod == [p \in Profile |-> CASE p = manual -> "manual"
                                 [] p \in {off, cafe} -> "disabled"
                                 [] OTHER -> "auto"]

Symmetry == Permutations(AC) \cup Permutations(Client)
=============================================================================
