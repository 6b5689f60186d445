--------------------------- MODULE MCAccessPoints ---------------------------
(***************************************************************************)
(* Small instances of AccessPoints for TLC.                                *)
(***************************************************************************)
EXTENDS AccessPoints

CONSTANTS loop, r1, f1, h1, h2
=============================================================================
