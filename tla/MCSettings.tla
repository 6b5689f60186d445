----------------------------- MODULE MCSettings -----------------------------
(***************************************************************************)
(* Small instances of Settings for TLC.                                    *)
(***************************************************************************)
EXTENDS Settings, TLC

CONSTANTS u1, u2, k1, k2, c1, c2, i1, i2, i3, i4

\* Profiles with ids of their own, or with the same id
OwnFile == [u \in Profile |-> IF u = u1 THEN k1 ELSE k2]
OneFile == [u \in Profile |-> k1]

Symmetry == Permutations(Client)
=============================================================================
