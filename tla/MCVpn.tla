------------------------------- MODULE MCVpn -------------------------------
(***************************************************************************)
(* Small instances of Vpn for TLC: two full tunnels, each with a peer.     *)
(***************************************************************************)
EXTENDS Vpn, TLC

CONSTANTS wg0, wg1, h0, h1, a1, a2, a3, c1, c2

BothFull == wg0 :> h0 @@ wg1 :> h1

\* The connections are alike, and so are the tunnels, each with its peer.
Tunnels  == {wg0 :> wg0 @@ wg1 :> wg1 @@ h0 :> h0 @@ h1 :> h1,
             wg0 :> wg1 @@ wg1 :> wg0 @@ h0 :> h1 @@ h1 :> h0}
Symmetry == {p @@ q : p \in Permutations(AC), q \in Tunnels}
=============================================================================
