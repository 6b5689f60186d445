------------------------------ MODULE MCRadio ------------------------------
(***************************************************************************)
(* Small instances of Radio, and Iwd in it, for TLC.  The budgets turn to  *)
(* the station, to Connects and to the radio one after the other: what     *)
(* they do meets in the restarts of iwd, which each of them has.           *)
(***************************************************************************)
EXTENDS Radio, TLC

CONSTANTS c1, c2, n1, n2, g1, g2

Nothing == [starts |-> 0, moves |-> 0, powers |-> 0, connects |-> 0]
Quiet == [sets |-> 0, switches |-> 0]

Small ==
    {<<[Nothing EXCEPT !.starts = 2, !.moves = 4, !.powers = 1], Quiet>>,
     <<[Nothing EXCEPT !.starts = 2, !.connects = 3], Quiet>>,
     <<[Nothing EXCEPT !.starts = 1, !.powers = 2],
       [sets |-> 2, switches |-> 3]>>}

SmallIwd == {b[1] : b \in Small}

Symmetry ==
    Permutations(Caller) \cup Permutations(Network) \cup Permutations(Setter)
=============================================================================
