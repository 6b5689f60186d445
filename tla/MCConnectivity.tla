--------------------------- MODULE MCConnectivity ---------------------------
(***************************************************************************)
(* Small instances of Connectivity for TLC.                                *)
(***************************************************************************)
EXTENDS Connectivity

CONSTANTS t, p1
=============================================================================
