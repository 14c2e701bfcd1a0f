--------------------------- MODULE MCRegistration ---------------------------
(* Instance of Registration for TLC.                                       *)
EXTENDS Registration
=============================================================================
