---------------------------- MODULE UdpRequests -----------------------------
(***************************************************************************)
(* The datagrams that reach the UDP socket of P2ChatServer and the replies *)
(* that the switch of UDPSession::Run may give to each.                    *)
(***************************************************************************)
EXTENDS Naturals, Sequences

CONSTANT Client     \* the addresses requests come from

\* What ReadMessage and the switch tell apart: requests that are answered,
\* logins, codes with an empty case, codes that are refused, and an error
\* reported by recvfrom.
Kind == {"info", "registration", "login", "silent", "bad", "error"}

Datagram == [client : Client, kind : Kind]
Reply == [to : Client, code : {"succeed", "failed"}]

Succeed(c) == <<[to |-> c, code |-> "succeed"]>>
Failed(c) == <<[to |-> c, code |-> "failed"]>>

\* A login whose session id is taken gets no reply.  A registration succeeds
\* whatever the database says.  The FAILED that answers an error of recvfrom
\* goes to an address that was never set, so nobody gets it.
Replies(d) ==
    CASE d.kind \in {"info", "registration"} -> {Succeed(d.client)}
      [] d.kind = "login" -> {Succeed(d.client), << >>}
      [] d.kind = "bad" -> {Failed(d.client)}
      [] d.kind \in {"silent", "error"} -> {<< >>}

=============================================================================
