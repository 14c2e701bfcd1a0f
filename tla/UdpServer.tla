----------------------------- MODULE UdpServer ------------------------------
(***************************************************************************)
(* What the UDP service of P2ChatServer promises its clients: requests are *)
(* taken one at a time, in the order in which they arrived, and each one   *)
(* gets the reply its message code asks for before the next one is taken.  *)
(* UdpReactor shows that the event thread and the pool of task threads     *)
(* keep this promise.                                                      *)
(***************************************************************************)
EXTENDS UdpRequests

CONSTANTS
    None,         \* no request
    MaxArrivals   \* bound: how many datagrams arrive

VARIABLES
    inbox,     \* requests received and not taken
    serving,   \* the request being served, or None
    outbox,    \* the replies sent
    arrivals   \* how many datagrams arrived

serverVars == <<inbox, serving, outbox, arrivals>>

ServerInit ==
    /\ inbox = << >>
    /\ serving = None
    /\ outbox = << >>
    /\ arrivals = 0

Arrive(d) ==
    /\ arrivals < MaxArrivals
    /\ arrivals' = arrivals + 1
    /\ inbox' = Append(inbox, d)
    /\ UNCHANGED <<serving, outbox>>

Take ==
    /\ serving = None
    /\ inbox # << >>
    /\ serving' = Head(inbox)
    /\ inbox' = Tail(inbox)
    /\ UNCHANGED <<outbox, arrivals>>

Answer ==
    /\ serving # None
    /\ \E r \in Replies(serving) : outbox' = outbox \o r
    /\ serving' = None
    /\ UNCHANGED <<inbox, arrivals>>

ServerNext == (\E d \in Datagram : Arrive(d)) \/ Take \/ Answer

ServerSpec == ServerInit /\ [][ServerNext]_serverVars

\* Whatever has arrived is taken and answered.
FairServerSpec == ServerSpec /\ WF_serverVars(Take) /\ WF_serverVars(Answer)

=============================================================================
