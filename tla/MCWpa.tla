-------------------------------- MODULE MCWpa --------------------------------
(***************************************************************************)
(* Small instances of Wpa for TLC.                                         *)
(***************************************************************************)
EXTENDS Wpa

CONSTANTS q1, q2, home, cafe
=============================================================================
