---------------------------- MODULE MCLogThread ----------------------------
(* Instance of LogThread for TLC.                                          *)
EXTENDS LogThread

\* The second day is one hour, here one instant, longer than the others.
MCDayBegins == <<0, 2, 5>>
=============================================================================
