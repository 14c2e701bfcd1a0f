---------------------------- MODULE MCUdpReactor ----------------------------
(* Instance of UdpReactor for TLC.                                         *)
EXTENDS UdpReactor
=============================================================================
