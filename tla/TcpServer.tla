----------------------------- MODULE TcpServer ------------------------------
(***************************************************************************)
(* What the TCP service of P2ChatServer promises a peer, connection by     *)
(* connection: it is accepted, reported when it is ready and only then,    *)
(* read by one session at a time until nothing is left to read, closed     *)
(* only after the peer has gone and all it sent is read, and deleted.      *)
(* TcpReactor shows that the event thread, the one-shot notifications and  *)
(* the pool of task threads keep this promise.                             *)
(***************************************************************************)
EXTENDS Naturals

CONSTANTS
    Conn,      \* connections
    MaxSends   \* bound: how often a peer sends

VARIABLES
    turn,     \* who is to act next on each connection
    peer,     \* what each peer did last: "idle", "up", "fin" or "rst"
    unread,   \* connections with data to receive
    sends     \* how often each peer sent

serverVars == <<turn, peer, unread, sends>>

ServerInit ==
    /\ turn = [c \in Conn |-> "nobody"]
    /\ peer = [c \in Conn |-> "idle"]
    /\ unread = {}
    /\ sends = [c \in Conn |-> 0]

(* The peer *)

Moves(c, from, to) ==
    /\ peer[c] = from
    /\ peer' = [peer EXCEPT ![c] = to]
    /\ UNCHANGED <<turn, unread, sends>>

Send(c) ==
    /\ peer[c] = "up" /\ sends[c] < MaxSends
    /\ sends' = [sends EXCEPT ![c] = @ + 1]
    /\ unread' = unread \cup {c}
    /\ UNCHANGED <<turn, peer>>

PeerStep(c) ==
    \/ Moves(c, "idle", "up")
    \/ Send(c)
    \/ Moves(c, "up", "fin")
    \/ c \notin unread /\ Moves(c, "up", "rst")
    \/ c \notin unread /\ turn[c] = "session" /\ Moves(c, "fin", "rst")

(* The service *)

Finished(c) == peer[c] \in {"fin", "rst"} /\ c \notin unread

Passes(c, from, to) ==
    /\ turn[c] = from
    /\ turn' = [turn EXCEPT ![c] = to]
    /\ UNCHANGED <<peer, unread, sends>>

Accept(c) == peer[c] # "idle" /\ Passes(c, "nobody", "winsock")

Report(c) == (c \in unread \/ Finished(c)) /\ Passes(c, "winsock", "event thread")

StartSession(c) == Passes(c, "event thread", "session")

Read(c) ==
    /\ turn[c] = "session" /\ c \in unread
    /\ unread' = unread \ {c}
    /\ UNCHANGED <<turn, peer, sends>>

Rearm(c) == c \notin unread /\ Passes(c, "session", "winsock")

Close(c) == Finished(c) /\ Passes(c, "session", "closed")

Delete(c) == Passes(c, "closed", "deleted")

ServiceStep(c) ==
    \/ Accept(c) \/ Report(c) \/ StartSession(c) \/ Read(c) \/ Rearm(c) \/ Close(c)
    \/ Delete(c)

ServerNext == \E c \in Conn : PeerStep(c) \/ ServiceStep(c)

ServerSpec == ServerInit /\ [][ServerNext]_serverVars

\* Whatever the service has to do on a connection is done: every connection is
\* accepted, and everything a peer sends is read.
FairServerSpec ==
    /\ ServerSpec
    /\ \A c \in Conn : WF_serverVars(ServiceStep(c))

=============================================================================
