---------------------------- MODULE MCTcpReactor ----------------------------
(* Instance of TcpReactor for TLC.                                         *)
EXTENDS TcpReactor

\* Enough task objects for all sessions that can be outstanding at once.
MCTask == 1 .. 4
=============================================================================
