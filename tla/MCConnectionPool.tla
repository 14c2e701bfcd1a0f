-------------------------- MODULE MCConnectionPool --------------------------
(* Instance of ConnectionPool for TLC.                                     *)
EXTENDS ConnectionPool
=============================================================================
