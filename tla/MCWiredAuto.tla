---------------------------- MODULE MCWiredAuto ----------------------------
(***************************************************************************)
(* Small instances of WiredAuto for TLC.                                   *)
(***************************************************************************)
EXTENDS WiredAuto

CONSTANT e1

=============================================================================
