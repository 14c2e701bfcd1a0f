----------------------------- MODULE TcpReactor -----------------------------
(***************************************************************************)
(* TCP connections of P2ChatServer: the listener and the event thread      *)
(* (Event.cpp, TCPListenerSocket.cpp), one-shot socket notification        *)
(* (select_waitevent and select_modwatch of p2_util.cpp), the TCPSession   *)
(* tasks, and the deletion of a TCPSocket by the last task of a closed     *)
(* connection.                                                             *)
(*                                                                         *)
(* An event id is given to one TCPSocket only, so the TCPSocket stands for *)
(* its id.  SOCKET handles are reused by Winsock once closed.              *)
(***************************************************************************)
EXTENDS TaskThreadPool, FiniteSets, SequencesExt

CONSTANTS
    Conn,       \* the TCPSocket objects of accepted connections
    Handle,     \* the SOCKET values Winsock hands out
    Listener,   \* the TCPListenerSocket
    AbruptReset, \* may a peer reset while data it sent is still unread?
    MaxSends    \* bound: how often a peer sends

ASSUME TcpAssumption ==
    /\ Task \subseteq Nat
    /\ Listener \notin Conn /\ None \notin Conn
    /\ Listener # None
    /\ Listener \notin Handle /\ None \notin Handle
    /\ Cardinality(Handle) >= Cardinality(Conn)
    /\ AbruptReset \in BOOLEAN
    /\ MaxSends \in Nat

VARIABLES
    (* TCPSocket and Event *)
    object,      \* "unborn", "live" or "freed": the lifetime of the object
    fSocketID,   \* the open handle of each TCPSocket, or None
    fConnClosed, \* the TCPSockets on which SetConnectionClose was called
    fTaskSet,    \* the reference set of each Event
    fEventTable, \* EventThread::fEventTable
    (* Task *)
    fEvent,        \* the Event of each task, None for a task that is not there
    fEventFlags,   \* the event bit each task was signalled with
    fDeleteEvent,  \* the tasks told to delete their event
    (* the event thread *)
    evPc,         \* where it is
    theEvent,     \* the Event it looks up and calls
    newTask,      \* the session ProcessEvent has created
    theBits,      \* the event bit it passes on
    (* Winsock and the peers *)
    msgs,       \* the messages posted to sMsgWindow
    armed,      \* the sockets for which WSAAsyncSelect asks for events
    backlog,    \* connections that wait for accept
    peer,       \* what each peer did last: "idle", "up", "fin" or "rst"
    unread,     \* connections with data to receive
    sends       \* how often each peer sent

eventVars == <<object, fSocketID, fConnClosed, fTaskSet, fEventTable>>
taskVars == <<fEvent, fEventFlags, fDeleteEvent>>
evThreadVars == <<evPc, theEvent, newTask, theBits>>
netVars == <<msgs, armed, backlog, peer, unread, sends>>
vars == <<poolVars, eventVars, taskVars, evThreadVars, netVars>>

-----------------------------------------------------------------------------
(* Winsock: what WSAAsyncSelect promises                                   *)

Message(c, bits) == [id |-> c, handle |-> fSocketID[c], bits |-> bits]

AcceptMessage == [id |-> Listener, handle |-> Listener, bits |-> "accept"]

\* The sockets behind a handle: it may belong to a later connection than the
\* one it was read from.
SocketsOf(h) ==
    IF h = Listener THEN {Listener} ELSE {c \in Conn : fSocketID[c] = h}

\* A close is reported once all received data is read.
CloseIsDue(c) == peer[c] \in {"fin", "rst"} /\ c \notin unread

\* The messages select_modwatch causes at once on a connection with handle h.
DueMessages(c, h) ==
    (IF c \in unread
     THEN <<[id |-> c, handle |-> h, bits |-> "read"]>> ELSE << >>) \o
    (IF CloseIsDue(c)
     THEN <<[id |-> c, handle |-> h, bits |-> "close"]>> ELSE << >>)

\* Event::RequestEvent on a registered event.
RequestEvent(c) ==
    /\ armed' = armed \cup {c}
    /\ msgs' = msgs \o DueMessages(c, fSocketID[c])

\* A message the network causes while the socket is armed.
Notify(c, m) == msgs' = IF c \in armed THEN Append(msgs, m) ELSE msgs

-----------------------------------------------------------------------------
(* The peers                                                               *)

PeerConnects(c) ==
    /\ peer[c] = "idle"
    /\ peer' = [peer EXCEPT ![c] = "up"]
    /\ backlog' = Append(backlog, c)
    /\ IF backlog = << >>
       THEN Notify(Listener, AcceptMessage)
       ELSE UNCHANGED msgs
    /\ UNCHANGED <<poolVars, eventVars, taskVars, evThreadVars, armed, unread,
                   sends>>

PeerSends(c) ==
    /\ peer[c] = "up" /\ sends[c] < MaxSends
    /\ sends' = [sends EXCEPT ![c] = @ + 1]
    /\ unread' = unread \cup {c}
    /\ IF c \in unread THEN UNCHANGED msgs ELSE Notify(c, Message(c, "read"))
    /\ UNCHANGED <<poolVars, eventVars, taskVars, evThreadVars, armed, backlog,
                   peer>>

PeerCloses(c) ==
    /\ peer[c] = "up"
    /\ peer' = [peer EXCEPT ![c] = "fin"]
    /\ IF c \in unread THEN UNCHANGED msgs ELSE Notify(c, Message(c, "close"))
    /\ UNCHANGED <<poolVars, eventVars, taskVars, evThreadVars, armed, backlog,
                   unread, sends>>

\* A reset drops the data that was received and not read.
PeerResets(c) ==
    /\ peer[c] = "up"
    /\ c \in unread => AbruptReset
    /\ peer' = [peer EXCEPT ![c] = "rst"]
    /\ unread' = unread \ {c}
    /\ Notify(c, Message(c, "close"))
    /\ UNCHANGED <<poolVars, eventVars, taskVars, evThreadVars, armed, backlog,
                   sends>>

\* A peer that has closed answers the empty replies of the receive loop with
\* a reset.
PeerRejects(c) ==
    /\ peer[c] = "fin" /\ c \notin unread
    /\ \E t \in TaskThread : pc[t] = "recv" /\ fEvent[theTask[t]] = c
    /\ peer' = [peer EXCEPT ![c] = "rst"]
    /\ UNCHANGED <<poolVars, eventVars, taskVars, evThreadVars, msgs, armed,
                   backlog, unread, sends>>

-----------------------------------------------------------------------------
(* The event thread                                                        *)

\* Mutant: select_waitevent does not switch the socket off.
DisarmNothing(h) == UNCHANGED armed

Disarm(h) == armed' = armed \ SocketsOf(h)

\* select_waitevent takes a message and switches its socket off.
WaitEvent ==
    /\ evPc = "wait"
    /\ msgs # << >>
    /\ msgs' = Tail(msgs)
    /\ Disarm(Head(msgs).handle)
    /\ theEvent' = Head(msgs).id
    /\ theBits' = Head(msgs).bits
    /\ evPc' = "lookup"
    /\ UNCHANGED <<poolVars, eventVars, taskVars, newTask, backlog, peer,
                   unread, sends>>

Registered(e) == e \in fEventTable

\* The look-up under fEventTableMutex; the lock is released before the call.
LookUp ==
    /\ evPc = "lookup"
    /\ IF Registered(theEvent)
       THEN evPc' = "process" /\ UNCHANGED theEvent
       ELSE evPc' = "wait" /\ theEvent' = None
    /\ UNCHANGED <<poolVars, eventVars, taskVars, newTask, theBits, netVars>>

\* Mutant: the listener is not armed again.
AcceptClientOnce(h) ==
    /\ evPc = "process" /\ theEvent = Listener
    /\ backlog # << >>
    /\ \A d \in Conn : fSocketID[d] # h
    /\ LET c == Head(backlog) IN
       /\ object' = [object EXCEPT ![c] = "live"]
       /\ fSocketID' = [fSocketID EXCEPT ![c] = h]
       /\ fEventTable' = fEventTable \cup {c}
       /\ armed' = armed \cup {c}
       /\ msgs' = msgs \o DueMessages(c, h)
    /\ backlog' = Tail(backlog)
    /\ evPc' = "wait"
    /\ theEvent' = None
    /\ UNCHANGED <<poolVars, fConnClosed, fTaskSet, taskVars, newTask, theBits,
                   peer, unread, sends>>

\* TCPListenerSocket::ProcessEvent: accept one connection, register it and
\* arm it, then arm the listener again.
AcceptClient(h) ==
    /\ evPc = "process" /\ theEvent = Listener
    /\ backlog # << >>
    /\ \A d \in Conn : fSocketID[d] # h
    /\ LET c == Head(backlog) IN
       /\ object' = [object EXCEPT ![c] = "live"]
       /\ fSocketID' = [fSocketID EXCEPT ![c] = h]
       /\ fEventTable' = fEventTable \cup {c}
       /\ armed' = armed \cup {c, Listener}
       /\ msgs' = msgs \o DueMessages(c, h) \o
                  (IF Tail(backlog) = << >> THEN << >> ELSE <<AcceptMessage>>)
    /\ backlog' = Tail(backlog)
    /\ evPc' = "wait"
    /\ theEvent' = None
    /\ UNCHANGED <<poolVars, fConnClosed, fTaskSet, taskVars, newTask, theBits,
                   peer, unread, sends>>

\* TCPSocket::ProcessEvent, first half: the constructor of the session enters
\* it in the reference set.
NewSession(k) ==
    /\ evPc = "process" /\ theEvent \in Conn
    /\ fEvent[k] = None
    /\ \A j \in Task : fEvent[j] = None => k <= j
    /\ fEvent' = [fEvent EXCEPT ![k] = theEvent]
    /\ fEventFlags' = [fEventFlags EXCEPT ![k] = theBits]
    /\ fTaskSet' = [fTaskSet EXCEPT ![theEvent] = @ \cup {k}]
    /\ newTask' = k
    /\ evPc' = "signal"
    /\ UNCHANGED <<poolVars, object, fSocketID, fConnClosed, fEventTable,
                   fDeleteEvent, theEvent, theBits, netVars>>

\* TCPSocket::ProcessEvent, second half: Signal.  Once the session is in the
\* queue it may run, and another event of its socket may be posted.
PickThread ==
    /\ evPc = "signal"
    /\ GetThread
    /\ evPc' = "enqueue"
    /\ UNCHANGED <<eventVars, taskVars, theEvent, newTask, theBits, netVars>>

EnQueueSession ==
    /\ evPc = "enqueue"
    /\ EnQueue(newTask)
    /\ evPc' = "name"
    /\ theEvent' = None
    /\ newTask' = None
    /\ UNCHANGED <<eventVars, taskVars, theBits, netVars>>

SignalReturns ==
    /\ evPc = "name"
    /\ ReadTaskName
    /\ evPc' = "wait"
    /\ UNCHANGED <<eventVars, taskVars, theEvent, newTask, theBits, netVars>>

-----------------------------------------------------------------------------
(* TCPSession::Run and the deletion of the session                         *)

EventOf(t) == fEvent[theTask[t]]

StartTask(t) ==
    /\ WaitForTask(t) \/ LockPool(t)
    /\ UNCHANGED <<eventVars, taskVars, evThreadVars, netVars>>

\* Mutant: a closed connection is armed again.
RunCloseRearmed(t) ==
    /\ Goto(t, "run", "delete")
    /\ fEventFlags[theTask[t]] = "close"
    /\ fConnClosed' = fConnClosed \cup {EventOf(t)}
    /\ fDeleteEvent' = fDeleteEvent \cup {theTask[t]}
    /\ RequestEvent(EventOf(t))
    /\ UNCHANGED <<object, fSocketID, fTaskSet, fEventTable, fEvent,
                   fEventFlags, evThreadVars, backlog, peer, unread, sends>>

\* Mutant: the task is not told to delete its event.
RunCloseKept(t) ==
    /\ Goto(t, "run", "delete")
    /\ fEventFlags[theTask[t]] = "close"
    /\ fConnClosed' = fConnClosed \cup {EventOf(t)}
    /\ UNCHANGED <<object, fSocketID, fTaskSet, fEventTable, taskVars,
                   evThreadVars, netVars>>

\* The close branch of Run().
RunClose(t) ==
    /\ Goto(t, "run", "delete")
    /\ fEventFlags[theTask[t]] = "close"
    /\ fConnClosed' = fConnClosed \cup {EventOf(t)}
    /\ fDeleteEvent' = fDeleteEvent \cup {theTask[t]}
    /\ UNCHANGED <<object, fSocketID, fTaskSet, fEventTable, fEvent,
                   fEventFlags, evThreadVars, netVars>>

RunRead(t) ==
    /\ pc[t] = "run"
    /\ fEventFlags[theTask[t]] = "read"
    /\ Goto(t, "run", IF EventOf(t) \in fConnClosed THEN "delete" ELSE "recv")
    /\ UNCHANGED <<eventVars, taskVars, evThreadVars, netVars>>

\* One turn of the receive loop that returns data.
Recv(t) ==
    /\ pc[t] = "recv"
    /\ EventOf(t) \in unread
    /\ unread' = unread \ {EventOf(t)}
    /\ UNCHANGED <<poolVars, eventVars, taskVars, evThreadVars, msgs, armed,
                   backlog, peer, sends>>

\* Mutant: the socket is not armed after the receive loop.
RecvFailsUnarmed(t) ==
    /\ Goto(t, "recv", "delete")
    /\ EventOf(t) \notin unread /\ peer[EventOf(t)] # "fin"
    /\ UNCHANGED <<eventVars, taskVars, evThreadVars, netVars>>

\* Mutant: one recv, whatever is left.
RecvFailsAtOnce(t) ==
    /\ Goto(t, "recv", "delete")
    /\ peer[EventOf(t)] # "fin"
    /\ RequestEvent(EventOf(t))
    /\ UNCHANGED <<eventVars, taskVars, evThreadVars, backlog, peer, unread,
                   sends>>

\* The receive loop ends only when recv fails: nothing to read, or a reset.
\* On a graceful close recv returns 0 and the loop goes on.
RecvFails(t) ==
    /\ Goto(t, "recv", "delete")
    /\ EventOf(t) \notin unread /\ peer[EventOf(t)] # "fin"
    /\ RequestEvent(EventOf(t))
    /\ UNCHANGED <<eventVars, taskVars, evThreadVars, backlog, peer, unread,
                   sends>>

\* The task object is gone.
Forget(k) ==
    /\ fEvent' = [fEvent EXCEPT ![k] = None]
    /\ fEventFlags' = [fEventFlags EXCEPT ![k] = "none"]
    /\ fDeleteEvent' = fDeleteEvent \ {k}

\* The condition of ~Task on which the event is deleted.
IsLastTask(k, refs) == refs = {} /\ k \in fDeleteEvent

\* Mutant: the task does not leave the reference set.
DeleteTaskListed(t) ==
    LET k == theTask[t]
        refs == fTaskSet[EventOf(t)] \ {k}
    IN  /\ pc[t] = "delete"
        /\ IF IsLastTask(k, refs)
           THEN Goto(t, "delete", "close") /\ UNCHANGED taskVars
           ELSE FinishTask(t, "delete") /\ Forget(k)
        /\ UNCHANGED <<eventVars, evThreadVars, netVars>>

\* ~Task: leave the reference set, and go on to delete the event if this was
\* the last task and was told to.
DeleteTask(t) ==
    LET k == theTask[t]
        refs == fTaskSet[EventOf(t)] \ {k}
    IN  /\ pc[t] = "delete"
        /\ fTaskSet' = [fTaskSet EXCEPT ![EventOf(t)] = refs]
        /\ IF IsLastTask(k, refs)
           THEN Goto(t, "delete", "close") /\ UNCHANGED taskVars
           ELSE FinishTask(t, "delete") /\ Forget(k)
        /\ UNCHANGED <<object, fSocketID, fConnClosed, fEventTable,
                       evThreadVars, netVars>>

\* ~TCPSocket closes the handle.
CloseSocket(t) ==
    /\ Goto(t, "close", "unregister")
    /\ fSocketID' = [fSocketID EXCEPT ![EventOf(t)] = None]
    /\ armed' = armed \ {EventOf(t)}
    /\ UNCHANGED <<object, fConnClosed, fTaskSet, fEventTable, taskVars,
                   evThreadVars, msgs, backlog, peer, unread, sends>>

\* ~Event takes the event out of the table; its memory is freed, and the
\* task's with it.
FreeEvent(t) ==
    /\ FinishTask(t, "unregister")
    /\ fEventTable' = fEventTable \ {EventOf(t)}
    /\ object' = [object EXCEPT ![EventOf(t)] = "freed"]
    /\ Forget(theTask[t])
    /\ UNCHANGED <<fSocketID, fConnClosed, fTaskSet, evThreadVars, netVars>>

-----------------------------------------------------------------------------
Init ==
    /\ PoolInit
    /\ object = [c \in Conn |-> "unborn"]
    /\ fSocketID = [c \in Conn |-> None]
    /\ fConnClosed = {}
    /\ fTaskSet = [c \in Conn |-> {}]
    /\ fEventTable = {Listener}
    /\ fEvent = [k \in Task |-> None]
    /\ fEventFlags = [k \in Task |-> "none"]
    /\ fDeleteEvent = {}
    /\ evPc = "wait"
    /\ theEvent = None
    /\ newTask = None
    /\ theBits = "accept"
    /\ msgs = << >>
    /\ armed = {Listener}
    /\ backlog = << >>
    /\ peer = [c \in Conn |-> "idle"]
    /\ unread = {}
    /\ sends = [c \in Conn |-> 0]

Peer(c) ==
    \/ PeerConnects(c) \/ PeerSends(c) \/ PeerCloses(c) \/ PeerResets(c)
    \/ PeerRejects(c)

EventThread ==
    \/ WaitEvent \/ LookUp
    \/ PickThread \/ EnQueueSession \/ SignalReturns
    \/ \E h \in Handle : AcceptClient(h)
    \/ \E k \in Task : NewSession(k)

RunTask(t) ==
    \/ StartTask(t) \/ RunClose(t) \/ RunRead(t) \/ Recv(t) \/ RecvFails(t)
    \/ DeleteTask(t) \/ CloseSocket(t) \/ FreeEvent(t)

Next ==
    \/ \E c \in Conn : Peer(c)
    \/ EventThread
    \/ \E t \in TaskThread : RunTask(t)

\* Threads are scheduled, and a closed peer rejects what it is sent.  Nothing
\* makes a peer connect, send or close.
Fairness ==
    /\ WF_vars(EventThread)
    /\ \A t \in TaskThread : WF_vars(RunTask(t))
    /\ \A c \in Conn : WF_vars(PeerRejects(c))

Spec == Init /\ [][Next]_vars

FairSpec == Spec /\ Fairness

-----------------------------------------------------------------------------
(* Properties                                                              *)

MessageSet ==
    [id : Conn, handle : Handle, bits : {"read", "close"}] \cup {AcceptMessage}

\* Every variable holds a value of its type.
TypeOK ==
    /\ fTaskQueueB \in [TaskThread -> Seq(Task)]
    /\ sTaskThreadPicker \in TaskThread
    /\ sMutex \in TaskThread \cup {None}
    /\ pc \in [TaskThread -> {"wait", "lock", "run", "recv", "delete", "close",
                              "unregister"}]
    /\ theTask \in [TaskThread -> Task \cup {None}]
    /\ object \in [Conn -> {"unborn", "live", "freed"}]
    /\ fSocketID \in [Conn -> Handle \cup {None}]
    /\ fConnClosed \subseteq Conn
    /\ fTaskSet \in [Conn -> SUBSET Task]
    /\ fEventTable \subseteq Conn \cup {Listener}
    /\ fEvent \in [Task -> Conn \cup {None}]
    /\ fEventFlags \in [Task -> {"none", "read", "close"}]
    /\ fDeleteEvent \subseteq Task
    /\ signalled \in Task \cup {None}
    /\ evPc \in {"wait", "lookup", "process", "signal", "enqueue", "name"}
    /\ theEvent \in Conn \cup {Listener, None}
    /\ newTask \in Task \cup {None}
    /\ theBits \in {"accept", "read", "close"}
    /\ msgs \in Seq(MessageSet)
    /\ armed \subseteq Conn \cup {Listener}
    /\ backlog \in Seq(Conn)
    /\ peer \in [Conn -> {"idle", "up", "fin", "rst"}]
    /\ unread \subseteq Conn
    /\ sends \in [Conn -> 0 .. MaxSends]

Exists(k) == fEvent[k] # None

\* A session that has not reached the end of its receive loop: it still has
\* to arm its socket or to close it.
IsPending(k) ==
    /\ Exists(k) /\ k # newTask
    /\ \A t \in TaskThread : theTask[t] = k => pc[t] \in {"lock", "run", "recv"}

\* Who is to act next on a connection: Winsock (the socket is armed), the
\* event thread, or a session.
TurnHolders(c) ==
    (IF c \in armed THEN {<<"winsock", 0>>} ELSE {})
    \cup (IF theEvent = c THEN {<<"event thread", 0>>} ELSE {})
    \cup {<<"session", k>> : k \in {j \in Task : fEvent[j] = c /\ IsPending(j)}}

\* A connection that is not closed is always one party's turn: no two
\* sessions of it read, and none is left that nobody will ever look at.  Once
\* closed it is nobody's turn again.
OneTurn ==
    \A c \in Conn : object[c] = "live" =>
        Cardinality(TurnHolders(c)) = IF c \in fConnClosed THEN 0 ELSE 1

\* The event thread calls, and sessions point to, only live TCPSockets: the
\* deletion by the last task leaves no pointer behind.
NoUseAfterFree ==
    /\ evPc \in {"process", "signal", "enqueue"} /\ theEvent \in Conn =>
           object[theEvent] = "live"
    /\ \A k \in Task : Exists(k) => object[fEvent[k]] = "live"

\* A closed TCPSocket that is not deleted still has a task that will delete
\* it (SetDeleteEventWhenAllRefTasksFinished, TCPSession.cpp:33).
DeletedWhenAllRefTasksFinished ==
    \A c \in fConnClosed : object[c] = "live" => \E k \in Task : fEvent[k] = c

\* A task is in one queue, or with one thread, or new with the event thread,
\* from its construction to its deletion.  Once it is deleted no queue, no
\* thread and no event refers to it: only Signal, which may still have to read
\* its name, outlives it.
OnlySignalOutlivesTask ==
    /\ \A k \in Task :
           Cardinality(PlacesInPool(k)) + (IF newTask = k THEN 1 ELSE 0)
               = IF Exists(k) THEN 1 ELSE 0
    /\ \A c \in Conn : \A k \in fTaskSet[c] : fEvent[k] = c

\* An armed socket is switched off only by the event thread taking a message
\* of that same connection, however handles are reused.
SwitchedOffByOwnMessage ==
    [][\A c \in Conn : c \in armed /\ c \notin armed' =>
            theEvent' = c /\ evPc' = "lookup"]_vars

\* Whose turn it is on a connection, as the peer could put it.
Turn(c) ==
    CASE object[c] = "unborn" -> "nobody"
      [] object[c] = "freed"  -> "deleted"
      [] object[c] = "live"   -> IF c \in fConnClosed THEN "closed"
                                 ELSE IF c \in armed THEN "winsock"
                                 ELSE IF theEvent = c THEN "event thread"
                                 ELSE "session"

Server == INSTANCE TcpServer WITH turn <- [c \in Conn |-> Turn(c)]

\* The event thread and the task threads together serve each connection in the
\* order of TcpServer: reported only when it is ready, read by one session at a
\* time until nothing is left, closed only when the peer has gone and everything
\* it sent is read, then deleted.  With its fairness: every connection is
\* accepted, and everything a peer sends is read.
ServesConnections == Server!FairServerSpec

\* The TCPSocket of a peer that has closed is deleted.
Reclaimed == \A c \in Conn : peer[c] \in {"fin", "rst"} ~> object[c] = "freed"

=============================================================================
