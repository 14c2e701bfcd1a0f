----------------------------- MODULE UdpReactor -----------------------------
(***************************************************************************)
(* The UDP service of P2ChatServer: one UDPSocket whose one-shot FD_READ   *)
(* notifications the event thread turns into UDPSession tasks, the task    *)
(* threads that run them, and RequestEvent, which arms the socket again at *)
(* the end of each Run().                                                  *)
(*                                                                         *)
(* The socket is registered before the first datagram can be read and is   *)
(* never unregistered, so the look-up in fEventTable always finds it.      *)
(***************************************************************************)
EXTENDS TaskThreadPool, UdpRequests

CONSTANT MaxArrivals   \* bound: how many datagrams arrive

ASSUME UdpAssumption ==
    /\ None \notin Datagram
    /\ MaxArrivals \in Nat

VARIABLES
    (* Winsock *)
    inbox,      \* datagrams received and not read
    arrivals,   \* how many datagrams arrived
    armed,      \* WSAAsyncSelect asks for FD_READ
    posted,     \* FD_READ messages posted to sMsgWindow and not taken
    (* the event thread *)
    evPc,       \* where it is
    newTask,    \* the session ProcessEvent has created, or None
    (* the sessions *)
    fTaskSet,   \* the reference set of the UDPSocket
    message,    \* the request each task thread has read, or None
    outbox      \* the replies sent

netVars == <<inbox, arrivals, armed, posted>>
sessionVars == <<fTaskSet, message, outbox>>
vars == <<poolVars, netVars, evPc, newTask, sessionVars>>

-----------------------------------------------------------------------------
(* Winsock                                                                 *)

\* FD_READ is posted for the first datagram after the last one was read.
DatagramArrives(d) ==
    /\ arrivals < MaxArrivals
    /\ arrivals' = arrivals + 1
    /\ inbox' = Append(inbox, d)
    /\ posted' = IF armed /\ inbox = << >> THEN posted + 1 ELSE posted
    /\ UNCHANGED <<poolVars, armed, evPc, newTask, sessionVars>>

\* select_modwatch: FD_READ is posted at once if there is data.
Arm ==
    /\ armed' = TRUE
    /\ posted' = IF inbox = << >> THEN posted ELSE posted + 1
    /\ UNCHANGED <<inbox, arrivals>>

-----------------------------------------------------------------------------
(* The event thread                                                        *)

\* Mutant: select_waitevent does not switch the socket off.
DisarmNothing == UNCHANGED armed

Disarm == armed' = FALSE

\* select_waitevent takes a message and switches the socket off.
WaitEvent ==
    /\ evPc = "wait"
    /\ posted > 0
    /\ posted' = posted - 1
    /\ Disarm
    /\ evPc' = "process"
    /\ UNCHANGED <<poolVars, inbox, arrivals, newTask, sessionVars>>

\* UDPSocket::ProcessEvent, first half: the constructor of the session enters
\* it in the reference set.
NewSession(k) ==
    /\ evPc = "process"
    /\ k \notin fTaskSet
    /\ fTaskSet' = fTaskSet \cup {k}
    /\ newTask' = k
    /\ evPc' = "signal"
    /\ UNCHANGED <<poolVars, netVars, message, outbox>>

\* UDPSocket::ProcessEvent, second half: Signal.  Once the session is in the
\* queue it may run, and arm the socket again.
PickThread ==
    /\ evPc = "signal"
    /\ GetThread
    /\ evPc' = "enqueue"
    /\ UNCHANGED <<netVars, newTask, sessionVars>>

EnQueueSession ==
    /\ evPc = "enqueue"
    /\ EnQueue(newTask)
    /\ newTask' = None
    /\ evPc' = "name"
    /\ UNCHANGED <<netVars, sessionVars>>

SignalReturns ==
    /\ evPc = "name"
    /\ ReadTaskName
    /\ evPc' = "wait"
    /\ UNCHANGED <<netVars, newTask, sessionVars>>

-----------------------------------------------------------------------------
(* UDPSession::Run in a task thread, under the mutex of the pool           *)

StartTask(t) ==
    /\ WaitForTask(t) \/ LockPool(t)
    /\ UNCHANGED <<netVars, evPc, newTask, sessionVars>>

\* RecvFrom on an empty socket fails like an error of recvfrom does.
WouldBlock == [client : Client, kind : {"error"}]

ReadMessage(t) ==
    /\ Goto(t, "run", "answer")
    /\ \E d \in IF inbox = << >> THEN WouldBlock ELSE {Head(inbox)} :
           message' = [message EXCEPT ![t] = d]
    /\ inbox' = IF inbox = << >> THEN inbox ELSE Tail(inbox)
    /\ UNCHANGED <<arrivals, armed, posted, evPc, newTask, fTaskSet, outbox>>

\* The switch of Run(), and the reply to a message that is no request.
SendMessage(t) ==
    /\ Goto(t, "answer", "rearm")
    /\ \E r \in Replies(message[t]) : outbox' = outbox \o r
    /\ message' = [message EXCEPT ![t] = None]
    /\ UNCHANGED <<netVars, evPc, newTask, fTaskSet>>

\* Mutant: the socket is not armed again.
RequestNothing(t) ==
    /\ Goto(t, "rearm", "delete")
    /\ UNCHANGED <<netVars, evPc, newTask, sessionVars>>

\* Event::RequestEvent on a registered event.
RequestEvent(t) ==
    /\ Goto(t, "rearm", "delete")
    /\ Arm
    /\ UNCHANGED <<evPc, newTask, sessionVars>>

\* ~Task leaves the reference set.  A UDPSession never deletes its event.
DeleteTask(t) ==
    /\ FinishTask(t, "delete")
    /\ fTaskSet' = fTaskSet \ {theTask[t]}
    /\ UNCHANGED <<netVars, evPc, newTask, message, outbox>>

-----------------------------------------------------------------------------
Init ==
    /\ PoolInit
    /\ inbox = << >>
    /\ arrivals = 0
    /\ armed = TRUE
    /\ posted = 0
    /\ evPc = "wait"
    /\ newTask = None
    /\ fTaskSet = {}
    /\ message = [t \in TaskThread |-> None]
    /\ outbox = << >>

EventThread ==
    \/ WaitEvent
    \/ \E k \in Task : NewSession(k)
    \/ PickThread \/ EnQueueSession \/ SignalReturns

RunTask(t) ==
    \/ StartTask(t) \/ ReadMessage(t) \/ SendMessage(t) \/ RequestEvent(t)
    \/ DeleteTask(t)

Next ==
    \/ \E d \in Datagram : DatagramArrives(d)
    \/ EventThread
    \/ \E t \in TaskThread : RunTask(t)

Spec == Init /\ [][Next]_vars

\* Threads are scheduled.  Nothing makes a client send.
FairSpec ==
    /\ Spec
    /\ WF_vars(EventThread)
    /\ \A t \in TaskThread : WF_vars(RunTask(t))

-----------------------------------------------------------------------------
(* Properties                                                              *)

PcType == {"wait", "lock", "run", "answer", "rearm", "delete"}

\* Every variable holds a value of its type.
TypeOK ==
    /\ fTaskQueueB \in [TaskThread -> Seq(Task)]
    /\ sTaskThreadPicker \in TaskThread
    /\ sMutex \in TaskThread \cup {None}
    /\ pc \in [TaskThread -> PcType]
    /\ theTask \in [TaskThread -> Task \cup {None}]
    /\ inbox \in Seq(Datagram)
    /\ arrivals \in 0 .. MaxArrivals
    /\ armed \in BOOLEAN
    /\ posted \in Nat
    /\ signalled \in Task \cup {None}
    /\ evPc \in {"wait", "process", "signal", "enqueue", "name"}
    /\ newTask \in Task \cup {None}
    /\ fTaskSet \subseteq Task
    /\ message \in [TaskThread -> Datagram \cup {None}]
    /\ outbox \in Seq(Reply)

\* A thread that still has to arm the socket.
HasSession(t) ==
    fTaskQueueB[t] # << >> \/ pc[t] \in {"lock", "run", "answer", "rearm"}

\* The event thread has a message of the socket, or a session not in a queue.
EventThreadBusy == evPc \in {"process", "signal", "enqueue"}

\* It is always one party's turn: Winsock's (the socket is armed), the event
\* thread's, or that of the one session that is not finished.  The one-shot
\* arming of select_waitevent and RequestEvent never lets two sessions read
\* the socket, and never leaves it unwatched.
OneTurn ==
    /\ armed => ~EventThreadBusy
    /\ armed \/ EventThreadBusy => \A t \in TaskThread : ~HasSession(t)
    /\ \A t, u \in TaskThread : HasSession(t) /\ HasSession(u) => t = u
    /\ \A t \in TaskThread :
           /\ Len(fTaskQueueB[t]) <= 1
           /\ fTaskQueueB[t] # << >> => pc[t] = "wait"
    /\ ~armed /\ ~EventThreadBusy => \E t \in TaskThread : HasSession(t)

\* A session is run only when there is a datagram for it to read: RecvFrom
\* never finds the socket empty, so no FAILED is sent for a datagram that
\* was never received.
ReadIsReady == \A t \in TaskThread : pc[t] = "run" => inbox # << >>

\* The request a client may see the server work on.
Serving == IF sMutex = None THEN None ELSE message[sMutex]

Server == INSTANCE UdpServer WITH serving <- Serving

\* The event thread and the task threads together behave like one server
\* that takes the datagrams in order and answers each of them.
ServesInOrder == Server!FairServerSpec

=============================================================================
