---------------------------- MODULE MCSessions ----------------------------
(* Values of the constants of Sessions for TLC. *)
EXTENDS Sessions

CONSTANTS owner, admin
===========================================================================
