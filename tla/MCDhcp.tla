------------------------------- MODULE MCDhcp -------------------------------
(***************************************************************************)
(* Small instances of Dhcp for TLC.                                        *)
(***************************************************************************)
EXTENDS Dhcp

CONSTANTS q1, s1, s2, i1

=============================================================================
