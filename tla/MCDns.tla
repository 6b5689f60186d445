-------------------------------- MODULE MCDns --------------------------------
(***************************************************************************)
(* Small instances of Dns for TLC.                                         *)
(***************************************************************************)
EXTENDS Dns

CONSTANTS eth, wlan, wg, n1, n2, n3, n4, d1, d2, d3

MCRank  == [i \in Iface |-> CASE i = eth -> 1 [] i = wlan -> 3 [] OTHER -> 2]
MCWidth == [d \in {d1, d2, d3} |-> IF d = d3 THEN 3 ELSE 2]

\* Leases with common servers and a long domain, and a tunnel's entry, which
\* goes before them
MCEntries ==
    {[priority |-> 2, servers |-> <<n1, n2>>, domains |-> <<d1>>],
     [priority |-> 2, servers |-> <<n2, n2, n3>>, domains |-> <<d3, d2>>],
     [priority |-> 2, servers |-> <<n4>>, domains |-> <<>>],
     [priority |-> 1, servers |-> <<n3, n1>>, domains |-> <<d2, d1>>]}
=============================================================================
