---------------------------- MODULE MCEventTable ----------------------------
(* Instance of EventTable for TLC.                                         *)
EXTENDS EventTable
=============================================================================
