-------------------------- MODULE TcpReactorProofs --------------------------
(***************************************************************************)
(* Theorems about TcpReactor, for any number of task threads, connections, *)
(* handles and data: its types and the place of each task, whatever the    *)
(* peers do; and, as long as no peer resets while data is unread, the one- *)
(* turn discipline of a connection, the end of its TCPSocket, and the      *)
(* refinement of TcpServer.                                                *)
(***************************************************************************)
EXTENDS TcpReactor, FiniteSetTheorems, TLAPS

(* The inductive invariant of the whole model.  That each variable keeps   *)
(* its type needs that a session which arms its socket again still has a   *)
(* handle, so the invariant follows a connection from accept to close.     *)

\* The mutex belongs to the thread between LockPool and FinishTask.
LockHeld ==
    \A t \in TaskThread :
        sMutex = t <=> pc[t] \in {"run", "recv", "delete", "close", "unregister"}

\* A thread has a task except while it waits for one.
HasTask == \A t \in TaskThread : theTask[t] # None <=> pc[t] # "wait"

InQueue(k, t, n) == n \in DOMAIN fTaskQueueB[t] /\ fTaskQueueB[t][n] = k

\* A task is there exactly if it is new, in a queue or with a thread, and it is
\* in one such place.
OnePlace ==
    \A k \in Task :
        /\ \A t, u \in TaskThread : theTask[t] = k /\ theTask[u] = k => t = u
        /\ \A t, u \in TaskThread, n \in Nat : ~(theTask[t] = k /\ InQueue(k, u, n))
        /\ \A t, u \in TaskThread, m, n \in Nat :
               InQueue(k, t, m) /\ InQueue(k, u, n) => t = u /\ m = n
        /\ k = newTask => \A t \in TaskThread, n \in Nat : theTask[t] # k /\ ~InQueue(k, t, n)
        /\ Exists(k) <=> \/ k = newTask
                         \/ \E t \in TaskThread : theTask[t] = k
                         \/ \E t \in TaskThread, n \in Nat : InQueue(k, t, n)

\* What the event thread holds where.
EventThreadHolds ==
    /\ theEvent = None <=> evPc \in {"wait", "name"}
    /\ newTask # None <=> evPc \in {"signal", "enqueue"}
    /\ evPc \in {"signal", "enqueue"} => theEvent \in Conn /\ fEvent[newTask] = theEvent
    /\ theEvent \in Conn => theBits \in {"read", "close"}

\* Who points to a TCPSocket points to one that was made, and it has its handle
\* until it is closed.
Handles ==
    /\ \A c \in Conn : c \in armed => fSocketID[c] # None
    /\ \A c \in Conn : object[c] # "unborn" /\ c \notin fConnClosed => fSocketID[c] # None
    /\ \A c \in Conn : c \in fEventTable => object[c] # "unborn"
    /\ evPc \in {"process", "signal", "enqueue"} /\ theEvent \in Conn => object[theEvent] # "unborn"
    /\ \A k \in Task : Exists(k) => object[fEvent[k]] # "unborn"

\* A task that deletes its event has closed the connection, and a session reads
\* only one that is not closed.
Closing ==
    /\ \A k \in fDeleteEvent : fEvent[k] \in fConnClosed
    /\ \A t \in TaskThread :
          /\ pc[t] \in {"close", "unregister"} => theTask[t] \in fDeleteEvent
          /\ pc[t] = "recv" => EventOf(t) \notin fConnClosed

Mechanics ==
    /\ TypeOK
    /\ LockHeld
    /\ HasTask
    /\ OnePlace
    /\ EventThreadHolds
    /\ Handles
    /\ Closing

-----------------------------------------------------------------------------
\* The null pointer and the listener are none of the objects they are compared
\* with.
LEMMA Distinct ==
    /\ None \notin Task /\ None \notin TaskThread /\ None \notin Conn /\ None \notin Handle
    /\ Listener \notin Conn /\ Listener # None /\ Listener \notin Handle
    /\ NumTaskThreads \in Nat \ {0}
  BY PoolAssumption, TcpAssumption DEF TaskThread

\* The round robin always picks a thread of the pool.
LEMMA NextThreadType ==
    ASSUME sTaskThreadPicker \in TaskThread
    PROVE  NextThread \in TaskThread
  BY PoolAssumption DEF NextThread, TaskThread

\* What the pieces of a task's life have in common: a task with a thread is
\* there, and so is its TCPSocket.
LEMMA TaskOfThread ==
    ASSUME Mechanics, NEW t \in TaskThread, pc[t] # "wait"
    PROVE  /\ theTask[t] \in Task /\ Exists(theTask[t])
           /\ EventOf(t) \in Conn /\ object[EventOf(t)] # "unborn"
<1>1. theTask[t] \in Task
  BY DEF Mechanics, TypeOK, HasTask
<1>2. Exists(theTask[t])
  BY <1>1 DEF Mechanics, OnePlace
<1> QED
  BY <1>1, <1>2 DEF Mechanics, TypeOK, Exists, EventOf, Handles

\* The messages of a connection with a handle.
LEMMA DueMessagesType ==
    ASSUME NEW c \in Conn, NEW h \in Handle
    PROVE  DueMessages(c, h) \in Seq(MessageSet)
<1> DEFINE read == [id |-> c, handle |-> h, bits |-> "read"]
           close == [id |-> c, handle |-> h, bits |-> "close"]
<1>1. read \in MessageSet /\ close \in MessageSet
  BY DEF MessageSet
<1> HIDE DEF read, close
<1>2. /\ <<read>> \in Seq(MessageSet) /\ <<close>> \in Seq(MessageSet)
      /\ << >> \in Seq(MessageSet)
  BY <1>1
<1>3. DueMessages(c, h) = (IF c \in unread THEN <<read>> ELSE << >>)
                          \o (IF CloseIsDue(c) THEN <<close>> ELSE << >>)
  BY DEF DueMessages, read, close
<1> QED
  BY <1>2, <1>3

LEMMA InitMechanics == Init => Mechanics
<1> SUFFICES ASSUME Init PROVE Mechanics
  OBVIOUS
<1>1. TypeOK
  <2>1. 0 \in TaskThread /\ 0 \in 0 .. MaxSends
    BY PoolAssumption, TcpAssumption DEF TaskThread
  <2> QED
    BY <2>1, Distinct DEF Init, PoolInit, TypeOK
<1>2. LockHeld /\ HasTask
  BY Distinct DEF Init, PoolInit, LockHeld, HasTask
<1>3. OnePlace
  <2>1. \A k \in Task, t \in TaskThread : theTask[t] # k /\ \A n : ~InQueue(k, t, n)
    BY Distinct DEF Init, PoolInit, InQueue
  <2>2. newTask \notin Task /\ \A k \in Task : ~Exists(k)
    BY Distinct DEF Init, Exists
  <2> QED
    BY <2>1, <2>2 DEF OnePlace
<1>4. EventThreadHolds /\ Handles /\ Closing
  BY Distinct DEF Init, PoolInit, EventThreadHolds, Handles, Closing, Exists
<1> QED
  BY <1>1, <1>2, <1>3, <1>4 DEF Mechanics

\* The peers touch only the network.
LEMMA PeerMechanics ==
    ASSUME Mechanics, NEW c \in Conn, Peer(c)
    PROVE  Mechanics'
<1>1. UNCHANGED <<poolVars, eventVars, taskVars, evThreadVars, armed>>
  BY DEF Peer, PeerConnects, PeerSends, PeerCloses, PeerResets, PeerRejects
<1>2. \A bits \in {"read", "close"} : c \in armed => Message(c, bits) \in MessageSet
  BY DEF Mechanics, TypeOK, Handles, Message, MessageSet
<1>3. msgs' \in Seq(MessageSet)
  <2>1. msgs \in Seq(MessageSet) /\ AcceptMessage \in MessageSet
    BY DEF Mechanics, TypeOK, MessageSet
  <2>2. \A m \in MessageSet : Append(msgs, m) \in Seq(MessageSet)
    BY <2>1
  <2> QED
    BY <1>2, <2>1, <2>2 DEF Peer, PeerConnects, PeerSends, PeerCloses, PeerResets, PeerRejects, Notify
<1>4. /\ backlog' \in Seq(Conn) /\ peer' \in [Conn -> {"idle", "up", "fin", "rst"}]
      /\ unread' \subseteq Conn /\ sends' \in [Conn -> 0 .. MaxSends]
  <2>1. CASE PeerSends(c)
    <3>1. sends[c] + 1 \in 0 .. MaxSends
      BY <2>1, TcpAssumption DEF PeerSends, Mechanics, TypeOK
    <3> QED
      BY <2>1, <3>1 DEF PeerSends, Mechanics, TypeOK
  <2>2. CASE PeerConnects(c)
    BY <2>2 DEF PeerConnects, Mechanics, TypeOK
  <2>3. CASE PeerCloses(c) \/ PeerResets(c) \/ PeerRejects(c)
    BY <2>3 DEF PeerCloses, PeerResets, PeerRejects, Mechanics, TypeOK
  <2> QED
    BY <2>1, <2>2, <2>3 DEF Peer
<1>5. TypeOK'
  BY <1>1, <1>3, <1>4
  DEF Mechanics, TypeOK, poolVars, eventVars, taskVars, evThreadVars
<1> QED
  BY <1>1, <1>5
  DEF Mechanics, poolVars, eventVars, taskVars, evThreadVars, LockHeld, HasTask, OnePlace, InQueue,
      Exists, EventThreadHolds, Handles, Closing, EventOf

\* The event thread.
LEMMA WaitEventMechanics ==
    ASSUME Mechanics, WaitEvent \/ LookUp
    PROVE  Mechanics'
<1>1. CASE WaitEvent
  <2>1. /\ msgs \in Seq(MessageSet) /\ msgs # << >>
        /\ evPc = "wait" /\ evPc' = "lookup" /\ armed' \subseteq armed
        /\ theEvent' = Head(msgs).id /\ theBits' = Head(msgs).bits /\ msgs' = Tail(msgs)
        /\ UNCHANGED <<poolVars, eventVars, taskVars, newTask, backlog, peer, unread, sends>>
    BY <1>1 DEF WaitEvent, Disarm, Mechanics, TypeOK
  <2>2. Head(msgs) \in MessageSet /\ msgs' \in Seq(MessageSet)
    BY <2>1
  <2>3. /\ theEvent' \in Conn \cup {Listener} /\ theBits' \in {"accept", "read", "close"}
        /\ theEvent' \in Conn => theBits' \in {"read", "close"}
    BY <2>1, <2>2, Distinct DEF MessageSet, AcceptMessage
  <2>4. TypeOK'
    BY <2>1, <2>2, <2>3 DEF Mechanics, TypeOK, poolVars, eventVars, taskVars
  <2>5. EventThreadHolds'
    BY <2>1, <2>3, Distinct DEF Mechanics, EventThreadHolds
  <2>6. Handles'
    BY <2>1 DEF Mechanics, Handles, eventVars, taskVars, Exists
  <2> QED
    BY <2>1, <2>4, <2>5, <2>6
    DEF Mechanics, poolVars, eventVars, taskVars, LockHeld, HasTask, OnePlace, InQueue, Exists,
        Closing, EventOf
<1>2. CASE LookUp
  <2>1. TypeOK'
    BY <1>2 DEF LookUp, Mechanics, TypeOK, poolVars, eventVars, taskVars, netVars
  <2>2. EventThreadHolds'
    BY <1>2, Distinct DEF LookUp, Mechanics, EventThreadHolds
  <2>3. Handles'
    BY <1>2, Distinct DEF LookUp, Registered, Mechanics, Handles, eventVars, taskVars, netVars, Exists
  <2> QED
    BY <1>2, <2>1, <2>2, <2>3
    DEF LookUp, Mechanics, poolVars, eventVars, taskVars, LockHeld, HasTask, OnePlace, InQueue,
        Exists, Closing, EventOf
<1> QED
  BY <1>1, <1>2

LEMMA AcceptClientMechanics ==
    ASSUME Mechanics, NEW h \in Handle, AcceptClient(h)
    PROVE  Mechanics'
<1>1. PICK c \in Conn :
        /\ evPc = "process" /\ theEvent = Listener
        /\ object' = [object EXCEPT ![c] = "live"]
        /\ fSocketID' = [fSocketID EXCEPT ![c] = h]
        /\ fEventTable' = fEventTable \cup {c}
        /\ armed' = armed \cup {c, Listener}
        /\ msgs' = msgs \o DueMessages(c, h) \o
                   (IF Tail(backlog) = << >> THEN << >> ELSE <<AcceptMessage>>)
        /\ backlog' = Tail(backlog) /\ Tail(backlog) \in Seq(Conn)
        /\ evPc' = "wait" /\ theEvent' = None
        /\ UNCHANGED <<poolVars, fConnClosed, fTaskSet, taskVars, newTask, theBits,
                       peer, unread, sends>>
  <2>1. backlog \in Seq(Conn) /\ backlog # << >>
    BY DEF AcceptClient, Mechanics, TypeOK
  <2>2. Head(backlog) \in Conn /\ Tail(backlog) \in Seq(Conn)
    BY <2>1
  <2> QED
    BY <2>2 DEF AcceptClient
<1>2. msgs' \in Seq(MessageSet)
  <2>1. DueMessages(c, h) \in Seq(MessageSet) /\ AcceptMessage \in MessageSet
    BY DueMessagesType DEF MessageSet
  <2>2. <<AcceptMessage>> \in Seq(MessageSet) /\ << >> \in Seq(MessageSet)
    BY <2>1
  <2> QED
    BY <1>1, <2>1, <2>2 DEF Mechanics, TypeOK
<1>3. TypeOK'
  BY <1>1, <1>2 DEF Mechanics, TypeOK, poolVars, taskVars
<1>4. EventThreadHolds'
  BY <1>1, Distinct DEF Mechanics, EventThreadHolds
<1>5. Handles'
  BY <1>1, Distinct DEF Mechanics, TypeOK, Handles, taskVars, Exists
<1>6. UNCHANGED <<poolVars, taskVars, fConnClosed, newTask>>
  BY <1>1
<1> QED
  BY <1>3, <1>4, <1>5, <1>6
  DEF Mechanics, poolVars, taskVars, LockHeld, HasTask, OnePlace, InQueue, Exists, Closing, EventOf

LEMMA NewSessionMechanics ==
    ASSUME Mechanics, NEW k \in Task, NewSession(k)
    PROVE  Mechanics'
<1>1. /\ evPc = "process" /\ theEvent \in Conn /\ fEvent[k] = None
      /\ fEvent' = [fEvent EXCEPT ![k] = theEvent]
      /\ fEventFlags' = [fEventFlags EXCEPT ![k] = theBits]
      /\ fTaskSet' = [fTaskSet EXCEPT ![theEvent] = @ \cup {k}]
      /\ newTask' = k /\ evPc' = "signal"
      /\ UNCHANGED <<poolVars, object, fSocketID, fConnClosed, fEventTable,
                     fDeleteEvent, theEvent, theBits, netVars>>
  BY DEF NewSession
<1>2. newTask = None /\ theBits \in {"read", "close"} /\ ~Exists(k)
  BY <1>1 DEF Mechanics, EventThreadHolds, Exists
<1>3. TypeOK'
  BY <1>1, <1>2 DEF Mechanics, TypeOK, poolVars, netVars
<1>4. /\ \A j \in Task : fEvent'[j] = IF j = k THEN theEvent ELSE fEvent[j]
      /\ \A j \in Task : Exists(j)' <=> Exists(j) \/ j = k
  BY <1>1, Distinct DEF Mechanics, TypeOK, Exists
<1>5. \A t \in TaskThread : theTask[t] # k /\ \A n \in Nat : ~InQueue(k, t, n)
  BY <1>2 DEF Mechanics, OnePlace
<1>6. OnePlace'
  <2>1. /\ theTask' = theTask /\ \A j, t, n : InQueue(j, t, n)' <=> InQueue(j, t, n)
    BY <1>1 DEF poolVars, InQueue
  <2> QED
    BY <1>1, <1>2, <1>4, <1>5, <2>1, Distinct DEF Mechanics, OnePlace
<1>7. EventThreadHolds'
  BY <1>1, <1>2, <1>4, Distinct DEF Mechanics, EventThreadHolds
<1>8. Handles'
  BY <1>1, <1>4, Distinct DEF Mechanics, TypeOK, Handles, netVars, Exists
<1>9. Closing'
  <2>1. \A j \in fDeleteEvent : j # k
    BY <1>1, Distinct DEF Mechanics, TypeOK, Closing
  <2>2. \A t \in TaskThread : pc[t] # "wait" => EventOf(t)' = EventOf(t)
    BY <1>1, <1>4, <1>5, TaskOfThread DEF EventOf, poolVars
  <2> QED
    BY <1>1, <1>4, <2>1, <2>2 DEF Mechanics, TypeOK, Closing, poolVars
<1> QED
  BY <1>1, <1>3, <1>6, <1>7, <1>8, <1>9 DEF Mechanics, LockHeld, HasTask, poolVars

LEMMA PickThreadMechanics ==
    ASSUME Mechanics, PickThread \/ SignalReturns
    PROVE  Mechanics'
<1>1. \/ evPc = "signal" /\ evPc' = "enqueue"
      \/ evPc = "name" /\ evPc' = "wait"
  BY DEF PickThread, SignalReturns
<1>2. UNCHANGED <<fTaskQueueB, sMutex, pc, theTask, eventVars, taskVars, theEvent, newTask, theBits,
                  netVars>>
  BY DEF PickThread, GetThread, SignalReturns, ReadTaskName
<1>3. sTaskThreadPicker' \in TaskThread /\ signalled' \in Task \cup {None}
  BY NextThreadType DEF PickThread, GetThread, SignalReturns, ReadTaskName, Mechanics, TypeOK
<1>4. TypeOK'
  BY <1>1, <1>2, <1>3 DEF Mechanics, TypeOK, eventVars, taskVars, netVars
<1>5. EventThreadHolds'
  BY <1>1, <1>2 DEF Mechanics, EventThreadHolds, taskVars
<1>6. Handles'
  BY <1>1, <1>2 DEF Mechanics, Handles, eventVars, taskVars, netVars, Exists
<1> QED
  BY <1>2, <1>4, <1>5, <1>6
  DEF Mechanics, LockHeld, HasTask, OnePlace, InQueue, Exists, Closing, EventOf, eventVars, taskVars

LEMMA EnQueueMechanics ==
    ASSUME Mechanics, EnQueueSession
    PROVE  Mechanics'
<1> DEFINE u == sTaskThreadPicker
<1>1. newTask \in Task /\ Exists(newTask) /\ u \in TaskThread
  BY Distinct DEF EnQueueSession, Mechanics, TypeOK, EventThreadHolds, OnePlace
<1>2. /\ evPc = "enqueue" /\ evPc' = "name" /\ theEvent' = None /\ newTask' = None
      /\ signalled' = newTask
      /\ fTaskQueueB' = [fTaskQueueB EXCEPT ![u] = Append(@, newTask)]
      /\ UNCHANGED <<sTaskThreadPicker, sMutex, pc, theTask, eventVars, taskVars, theBits, netVars>>
  BY DEF EnQueueSession, EnQueue
<1> HIDE DEF u
<1>3. TypeOK'
  <2>1. \A t \in TaskThread : fTaskQueueB[t] \in Seq(Task)
    BY DEF Mechanics, TypeOK
  <2>2. fTaskQueueB' \in [TaskThread -> Seq(Task)]
    BY <1>1, <1>2, <2>1 DEF Mechanics, TypeOK
  <2> QED
    BY <1>1, <1>2, <2>2 DEF Mechanics, TypeOK, eventVars, taskVars, netVars
<1>4. \A j \in Task, t \in TaskThread, n \in Nat :
        InQueue(j, t, n)' <=> \/ InQueue(j, t, n)
                              \/ j = newTask /\ t = u /\ n = Len(fTaskQueueB[u]) + 1
  <2> TAKE j \in Task, t \in TaskThread, n \in Nat
  <2>1. CASE t # u
    BY <1>2, <2>1 DEF InQueue, Mechanics, TypeOK
  <2>2. CASE t = u
    <3> DEFINE q == fTaskQueueB[u]
    <3>1. q \in Seq(Task) /\ fTaskQueueB'[t] = Append(q, newTask)
      BY <1>1, <1>2, <2>2 DEF Mechanics, TypeOK
    <3> HIDE DEF q
    <3>2. /\ DOMAIN Append(q, newTask) = DOMAIN q \cup {Len(q) + 1}
          /\ Len(q) + 1 \notin DOMAIN q /\ Append(q, newTask)[Len(q) + 1] = newTask
          /\ \A i \in DOMAIN q : Append(q, newTask)[i] = q[i]
      BY <1>1, <3>1
    <3>3. InQueue(j, t, n)' <=> n \in DOMAIN Append(q, newTask) /\ Append(q, newTask)[n] = j
      BY <3>1 DEF InQueue
    <3>4. InQueue(j, t, n) <=> n \in DOMAIN q /\ q[n] = j
      BY <2>2 DEF InQueue, q
    <3> QED
      BY <2>2, <3>2, <3>3, <3>4 DEF q
  <2> QED
    BY <2>1, <2>2
<1>5. OnePlace'
  <2>1. /\ theTask' = theTask /\ newTask' \notin Task
        /\ \A j : Exists(j)' <=> Exists(j)
    BY <1>2, Distinct DEF taskVars, Exists
  <2>2. \A t \in TaskThread, n \in Nat : theTask[t] # newTask /\ ~InQueue(newTask, t, n)
    BY <1>1 DEF Mechanics, OnePlace
  <2>3. Len(fTaskQueueB[u]) + 1 \in Nat
    BY <1>1 DEF Mechanics, TypeOK
  <2> QED
    BY <1>1, <1>4, <2>1, <2>2, <2>3 DEF Mechanics, OnePlace
<1>6. EventThreadHolds'
  BY <1>2, Distinct DEF Mechanics, EventThreadHolds
<1>7. Handles'
  BY <1>2, Distinct DEF Mechanics, Handles, eventVars, taskVars, netVars, Exists
<1> QED
  BY <1>2, <1>3, <1>5, <1>6, <1>7 DEF Mechanics, LockHeld, HasTask, Closing, EventOf, eventVars, taskVars

\* The task threads.
LEMMA WaitForTaskMechanics ==
    ASSUME Mechanics, NEW t \in TaskThread, WaitForTask(t),
           UNCHANGED <<eventVars, taskVars, evThreadVars, netVars>>
    PROVE  Mechanics'
<1> DEFINE q == fTaskQueueB[t]
           k == Head(q)
<1>1. q \in Seq(Task) /\ q # << >> /\ k \in Task /\ Tail(q) \in Seq(Task)
  BY DEF WaitForTask, Mechanics, TypeOK
<1>2. /\ pc[t] = "wait" /\ pc' = [pc EXCEPT ![t] = "lock"]
      /\ theTask' = [theTask EXCEPT ![t] = k] /\ fTaskQueueB' = [fTaskQueueB EXCEPT ![t] = Tail(q)]
      /\ UNCHANGED <<sTaskThreadPicker, sMutex, signalled>>
  BY DEF WaitForTask
<1>3. TypeOK'
  BY <1>1, <1>2 DEF Mechanics, TypeOK, eventVars, taskVars, evThreadVars, netVars
<1>4. LockHeld' /\ HasTask'
  BY <1>1, <1>2, Distinct DEF Mechanics, TypeOK, LockHeld, HasTask
<1>5. \A j \in Task, n \in Nat : InQueue(j, t, n)' <=> n # 0 /\ InQueue(j, t, n + 1)
  <2> TAKE j \in Task, n \in Nat
  <2>1. fTaskQueueB'[t] = Tail(q)
    BY <1>2 DEF Mechanics, TypeOK
  <2>2. n \in DOMAIN Tail(q) <=> n # 0 /\ n + 1 \in DOMAIN q
    BY <1>1
  <2>3. n \in DOMAIN Tail(q) => Tail(q)[n] = q[n + 1]
    BY <1>1
  <2> QED
    BY <2>1, <2>2, <2>3 DEF InQueue
<1>6. \A j, u, n : u # t => (InQueue(j, u, n)' <=> InQueue(j, u, n))
  BY <1>2 DEF InQueue, Mechanics, TypeOK
<1>7. InQueue(k, t, 1)
  BY <1>1 DEF InQueue
<1>8. \A j \in Task, u \in TaskThread : theTask'[u] = j <=> IF u = t THEN j = k ELSE theTask[u] = j
  BY <1>1, <1>2 DEF Mechanics, TypeOK
<1> HIDE DEF q, k
<1>9. OnePlace'
  <2>1. newTask' = newTask /\ \A j : Exists(j)' <=> Exists(j)
    BY DEF taskVars, evThreadVars, Exists
  <2>2. theTask[t] \notin Task
    BY <1>2, Distinct DEF Mechanics, TypeOK, HasTask
  <2> SUFFICES ASSUME NEW j \in Task
               PROVE  /\ \A u, v \in TaskThread : theTask'[u] = j /\ theTask'[v] = j => u = v
                      /\ \A u, v \in TaskThread, n \in Nat : ~(theTask'[u] = j /\ InQueue(j, v, n)')
                      /\ \A u, v \in TaskThread, m, n \in Nat :
                             InQueue(j, u, m)' /\ InQueue(j, v, n)' => u = v /\ m = n
                      /\ j = newTask => \A u \in TaskThread, n \in Nat : theTask'[u] # j /\ ~InQueue(j, u, n)'
                      /\ Exists(j) <=> \/ j = newTask
                                       \/ \E u \in TaskThread : theTask'[u] = j
                                       \/ \E u \in TaskThread, n \in Nat : InQueue(j, u, n)'
    BY <2>1 DEF OnePlace
  <2>3. \A u, v \in TaskThread : theTask'[u] = j /\ theTask'[v] = j => u = v
    BY <1>1, <1>7, <1>8 DEF Mechanics, OnePlace
  <2>4. \A u \in TaskThread, n \in Nat :
          InQueue(j, u, n)' => IF u = t THEN n + 1 \in Nat /\ n + 1 # 1 /\ InQueue(j, t, n + 1)
                               ELSE InQueue(j, u, n)
    BY <1>5, <1>6
  <2>5. \A u, v \in TaskThread, n \in Nat : ~(theTask'[u] = j /\ InQueue(j, v, n)')
    BY <1>1, <1>7, <1>8, <2>4 DEF Mechanics, OnePlace
  <2>6. \A u, v \in TaskThread, m, n \in Nat : InQueue(j, u, m)' /\ InQueue(j, v, n)' => u = v /\ m = n
    <3> TAKE u \in TaskThread, v \in TaskThread, m \in Nat, n \in Nat
    <3> HAVE InQueue(j, u, m)' /\ InQueue(j, v, n)'
    <3>1. u = v
      BY <2>4 DEF Mechanics, OnePlace
    <3>2. CASE u = t
      <4>1. m + 1 = n + 1
        BY <2>4, <3>1, <3>2 DEF Mechanics, OnePlace
      <4> QED
        BY <3>1, <4>1
    <3>3. CASE u # t
      BY <2>4, <3>1, <3>3 DEF Mechanics, OnePlace
    <3> QED
      BY <3>1, <3>2, <3>3
  <2>7. j = newTask => \A u \in TaskThread, n \in Nat : theTask'[u] # j /\ ~InQueue(j, u, n)'
    BY <1>1, <1>7, <1>8, <2>4 DEF Mechanics, OnePlace
  <2>8. ASSUME Exists(j)
        PROVE  \/ j = newTask
               \/ \E u \in TaskThread : theTask'[u] = j
               \/ \E u \in TaskThread, n \in Nat : InQueue(j, u, n)'
    <3>1. CASE j = newTask
      BY <3>1
    <3>2. ASSUME NEW u \in TaskThread, theTask[u] = j PROVE theTask'[u] = j
      BY <1>8, <2>2, <3>2
    <3>3. ASSUME NEW u \in TaskThread, NEW n \in Nat, InQueue(j, u, n)
          PROVE  theTask'[t] = j \/ \E m \in Nat : InQueue(j, u, m)'
      <4>1. CASE u # t
        BY <1>6, <3>3, <4>1
      <4>2. CASE u = t /\ n = 1
        <5>1. j = k
          BY <1>7, <3>3, <4>2 DEF InQueue
        <5> QED
          BY <1>8, <5>1
      <4>3. CASE u = t /\ n # 1
        <5>1. n >= 1
          BY <1>1, <3>3, <4>3 DEF InQueue, q
        <5>2. n - 1 \in Nat /\ n - 1 # 0 /\ (n - 1) + 1 = n
          BY <4>3, <5>1
        <5> QED
          BY <1>5, <3>3, <4>3, <5>2
      <4> QED
        BY <4>1, <4>2, <4>3
    <3> QED
      BY <2>8, <3>1, <3>2, <3>3 DEF Mechanics, OnePlace
  <2>9. ASSUME \/ j = newTask
               \/ \E u \in TaskThread : theTask'[u] = j
               \/ \E u \in TaskThread, n \in Nat : InQueue(j, u, n)'
        PROVE  Exists(j)
    BY <1>1, <1>7, <1>8, <2>4, <2>9 DEF Mechanics, OnePlace
  <2> QED
    BY <2>3, <2>5, <2>6, <2>7, <2>8, <2>9
<1>10. EventThreadHolds' /\ Handles'
  BY DEF Mechanics, EventThreadHolds, Handles, eventVars, taskVars, evThreadVars, netVars, Exists
<1>11. Closing'
  <2>1. \A u \in TaskThread : u # t => EventOf(u)' = EventOf(u) /\ theTask'[u] = theTask[u] /\ pc'[u] = pc[u]
    BY <1>2 DEF Mechanics, TypeOK, EventOf, taskVars
  <2>2. pc'[t] = "lock"
    BY <1>2 DEF Mechanics, TypeOK
  <2> QED
    BY <2>1, <2>2 DEF Mechanics, Closing, eventVars, taskVars
<1> QED
  BY <1>3, <1>4, <1>9, <1>10, <1>11 DEF Mechanics

LEMMA LockPoolMechanics ==
    ASSUME Mechanics, NEW t \in TaskThread, LockPool(t),
           UNCHANGED <<eventVars, taskVars, evThreadVars, netVars>>
    PROVE  Mechanics'
<1>1. /\ pc[t] = "lock" /\ sMutex = None /\ sMutex' = t /\ pc' = [pc EXCEPT ![t] = "run"]
      /\ UNCHANGED <<fTaskQueueB, sTaskThreadPicker, theTask, signalled>>
  BY DEF LockPool
<1>2. TypeOK'
  BY <1>1 DEF Mechanics, TypeOK, eventVars, taskVars, evThreadVars, netVars
<1>3. LockHeld' /\ HasTask'
  BY <1>1, Distinct DEF Mechanics, TypeOK, LockHeld, HasTask
<1>4. Closing'
  BY <1>1 DEF Mechanics, TypeOK, Closing, EventOf, eventVars, taskVars
<1> QED
  BY <1>1, <1>2, <1>3, <1>4
  DEF Mechanics, OnePlace, InQueue, Exists, EventThreadHolds, Handles, eventVars, taskVars,
      evThreadVars, netVars

\* A step of a thread that keeps the mutex and its task.
LEMMA GotoMechanics ==
    ASSUME Mechanics, NEW t \in TaskThread, NEW from, NEW to, Goto(t, from, to),
           from \in {"run", "recv", "delete", "close"},
           to \in {"recv", "delete", "close", "unregister"}
    PROVE  LockHeld' /\ HasTask' /\ pc' \in [TaskThread -> {"wait", "lock", "run", "recv", "delete",
                                                            "close", "unregister"}]
<1>1. /\ pc[t] = from /\ pc' = [pc EXCEPT ![t] = to]
      /\ UNCHANGED <<sMutex, theTask>>
  BY DEF Goto
<1> QED
  BY <1>1 DEF Mechanics, TypeOK, LockHeld, HasTask

\* The steps of Run() and of the deletion that keep the task.
LEMMA RunMechanics ==
    ASSUME Mechanics, NEW t \in TaskThread,
           RunClose(t) \/ RunRead(t) \/ RecvFails(t) \/ CloseSocket(t)
           \/ (DeleteTask(t) /\ Goto(t, "delete", "close") /\ UNCHANGED taskVars
                 /\ theTask[t] \in fDeleteEvent)
    PROVE  Mechanics'
<1>1. pc[t] # "wait"
  BY DEF RunClose, RunRead, RecvFails, CloseSocket, Goto
<1> DEFINE k == theTask[t]
           c == EventOf(t)
<1>2. k \in Task /\ Exists(k) /\ c \in Conn /\ c = fEvent[k] /\ object[c] # "unborn"
  BY <1>1, TaskOfThread DEF EventOf
<1>3. /\ UNCHANGED <<fTaskQueueB, sTaskThreadPicker, sMutex, theTask, signalled>>
      /\ UNCHANGED <<object, fEventTable, fEvent, fEventFlags, evThreadVars, backlog, peer, unread, sends>>
  BY DEF RunClose, RunRead, RecvFails, CloseSocket, DeleteTask, Goto, RequestEvent, eventVars, taskVars, netVars
<1>4. LockHeld' /\ HasTask' /\ pc' \in [TaskThread -> {"wait", "lock", "run", "recv", "delete",
                                                       "close", "unregister"}]
  BY GotoMechanics DEF RunClose, RunRead, RecvFails, CloseSocket, DeleteTask
<1>5. OnePlace' /\ EventThreadHolds'
  BY <1>3 DEF Mechanics, OnePlace, InQueue, Exists, EventThreadHolds, evThreadVars
\* The others do nothing under the mutex.
<1>6. \A u \in TaskThread : u # t => /\ EventOf(u)' = EventOf(u) /\ pc'[u] = pc[u]
                                     /\ pc[u] \notin {"recv", "close", "unregister"}
  <2>1. pc[t] \in {"run", "recv", "delete", "close"} /\ \E to : pc' = [pc EXCEPT ![t] = to]
    BY DEF RunClose, RunRead, RecvFails, CloseSocket, DeleteTask, Goto
  <2>2. \A u \in TaskThread : u # t => pc[u] \notin {"recv", "close", "unregister"}
    BY <2>1 DEF Mechanics, LockHeld
  <2> QED
    BY <1>3, <2>1, <2>2 DEF Mechanics, TypeOK, EventOf
<1>7. EventOf(t)' = c
  BY <1>3 DEF EventOf
<1> HIDE DEF k, c
<1>8. CASE RunClose(t)
  <2>1. /\ fConnClosed' = fConnClosed \cup {c} /\ fDeleteEvent' = fDeleteEvent \cup {k}
        /\ pc'[t] = "delete" /\ UNCHANGED <<fSocketID, fTaskSet, netVars>>
    BY <1>8 DEF RunClose, Goto, k, c, Mechanics, TypeOK
  <2>2. TypeOK'
    BY <1>2, <1>3, <1>4, <2>1 DEF Mechanics, TypeOK, evThreadVars, netVars
  <2>3. Handles'
    BY <1>3, <2>1 DEF Mechanics, Handles, Exists, evThreadVars, netVars
  <2>4. Closing'
    BY <1>2, <1>3, <1>6, <2>1 DEF Mechanics, Closing
  <2> QED
    BY <1>4, <1>5, <2>2, <2>3, <2>4 DEF Mechanics
<1>9. CASE RunRead(t)
  <2>1. /\ pc'[t] = IF c \in fConnClosed THEN "delete" ELSE "recv"
        /\ UNCHANGED <<eventVars, taskVars, netVars>>
    BY <1>9 DEF RunRead, Goto, c, Mechanics, TypeOK
  <2>2. TypeOK'
    BY <1>3, <1>4, <2>1 DEF Mechanics, TypeOK, eventVars, taskVars, evThreadVars, netVars
  <2>3. Handles'
    BY <1>3, <2>1 DEF Mechanics, Handles, Exists, eventVars, taskVars, evThreadVars, netVars
  <2>4. Closing'
    BY <1>3, <1>6, <1>7, <2>1 DEF Mechanics, Closing, eventVars, taskVars
  <2> QED
    BY <1>4, <1>5, <2>2, <2>3, <2>4 DEF Mechanics
<1>10. CASE RecvFails(t)
  <2>1. /\ armed' = armed \cup {c} /\ msgs' = msgs \o DueMessages(c, fSocketID[c])
        /\ pc[t] = "recv" /\ pc'[t] = "delete" /\ UNCHANGED <<eventVars, taskVars>>
    BY <1>10 DEF RecvFails, RequestEvent, Goto, c, Mechanics, TypeOK
  <2>2. c \notin fConnClosed /\ fSocketID[c] \in Handle
    BY <1>2, <2>1 DEF Mechanics, TypeOK, Closing, Handles, c
  <2>3. msgs' \in Seq(MessageSet)
    <3>1. DueMessages(c, fSocketID[c]) \in Seq(MessageSet)
      BY <1>2, <2>2, DueMessagesType
    <3> QED
      BY <2>1, <3>1 DEF Mechanics, TypeOK
  <2>4. TypeOK'
    BY <1>2, <1>3, <1>4, <2>1, <2>3 DEF Mechanics, TypeOK, eventVars, taskVars, evThreadVars
  <2>5. Handles'
    BY <1>3, <2>1, <2>2, Distinct DEF Mechanics, Handles, Exists, eventVars, evThreadVars
  <2>6. Closing'
    BY <1>3, <1>6, <2>1 DEF Mechanics, Closing, eventVars, taskVars
  <2> QED
    BY <1>4, <1>5, <2>4, <2>5, <2>6 DEF Mechanics
<1>11. CASE CloseSocket(t)
  <2>1. /\ fSocketID' = [fSocketID EXCEPT ![c] = None] /\ armed' = armed \ {c}
        /\ pc[t] = "close" /\ pc'[t] = "unregister"
        /\ UNCHANGED <<fConnClosed, fTaskSet, taskVars, msgs>>
    BY <1>11 DEF CloseSocket, Goto, c, Mechanics, TypeOK
  <2>2. c \in fConnClosed /\ k \in fDeleteEvent
    BY <1>2, <2>1 DEF Mechanics, Closing, k
  <2>3. TypeOK'
    BY <1>3, <1>4, <2>1 DEF Mechanics, TypeOK, taskVars, evThreadVars
  <2>4. Handles'
    BY <1>2, <1>3, <2>1, <2>2 DEF Mechanics, TypeOK, Handles, Exists, evThreadVars
  <2>5. Closing'
    BY <1>3, <1>6, <2>1, <2>2 DEF Mechanics, Closing, taskVars, k
  <2> QED
    BY <1>4, <1>5, <2>3, <2>4, <2>5 DEF Mechanics
<1>12. CASE DeleteTask(t) /\ Goto(t, "delete", "close") /\ UNCHANGED taskVars /\ k \in fDeleteEvent
  <2>1. /\ fTaskSet' = [fTaskSet EXCEPT ![c] = fTaskSet[c] \ {k}]
        /\ pc'[t] = "close" /\ UNCHANGED <<fSocketID, fConnClosed, taskVars, netVars>>
    BY <1>12 DEF DeleteTask, Goto, k, c, Mechanics, TypeOK
  <2>2. TypeOK'
    BY <1>2, <1>3, <1>4, <2>1 DEF Mechanics, TypeOK, taskVars, evThreadVars, netVars
  <2>3. Handles'
    BY <1>3, <2>1 DEF Mechanics, Handles, Exists, taskVars, evThreadVars, netVars
  <2>4. Closing'
    BY <1>3, <1>6, <1>12, <2>1 DEF Mechanics, Closing, taskVars, k
  <2> QED
    BY <1>4, <1>5, <2>2, <2>3, <2>4 DEF Mechanics
<1> QED
  BY <1>8, <1>9, <1>10, <1>11, <1>12 DEF k

LEMMA RecvMechanics ==
    ASSUME Mechanics, NEW t \in TaskThread, Recv(t)
    PROVE  Mechanics'
<1>1. unread' \subseteq unread /\ UNCHANGED <<poolVars, eventVars, taskVars, evThreadVars, msgs,
                                              armed, backlog, peer, sends>>
  BY DEF Recv
<1>2. TypeOK'
  BY <1>1 DEF Mechanics, TypeOK, poolVars, eventVars, taskVars, evThreadVars
<1> QED
  BY <1>1, <1>2
  DEF Mechanics, poolVars, eventVars, taskVars, evThreadVars, LockHeld, HasTask, OnePlace, InQueue,
      Exists, EventThreadHolds, Handles, Closing, EventOf

\* The end of a task.
LEMMA FinishMechanics ==
    ASSUME Mechanics, NEW t \in TaskThread,
           \/ DeleteTask(t) /\ FinishTask(t, "delete") /\ Forget(theTask[t])
           \/ FreeEvent(t)
    PROVE  Mechanics'
<1>1. pc[t] \in {"delete", "unregister"}
  BY DEF FreeEvent, FinishTask
<1> DEFINE k == theTask[t]
           c == EventOf(t)
<1>2. k \in Task /\ Exists(k) /\ c \in Conn /\ c = fEvent[k]
  BY <1>1, TaskOfThread DEF EventOf
<1>3. /\ pc' = [pc EXCEPT ![t] = "wait"] /\ theTask' = [theTask EXCEPT ![t] = None] /\ sMutex' = None
      /\ fEvent' = [fEvent EXCEPT ![k] = None] /\ fEventFlags' = [fEventFlags EXCEPT ![k] = "none"]
      /\ fDeleteEvent' = fDeleteEvent \ {k}
      /\ UNCHANGED <<fTaskQueueB, sTaskThreadPicker, signalled, fSocketID, fConnClosed, evThreadVars,
                     netVars>>
  BY DEF DeleteTask, FreeEvent, FinishTask, Forget
<1>4. \/ /\ fTaskSet' = [fTaskSet EXCEPT ![c] = fTaskSet[c] \ {k}]
         /\ UNCHANGED <<object, fEventTable>>
      \/ /\ fEventTable' = fEventTable \ {c} /\ object' = [object EXCEPT ![c] = "freed"]
         /\ UNCHANGED fTaskSet
  BY DEF DeleteTask, FreeEvent
<1> HIDE DEF k, c
<1>5. TypeOK'
  BY <1>2, <1>3, <1>4 DEF Mechanics, TypeOK, evThreadVars, netVars
<1>6. LockHeld' /\ HasTask'
  BY <1>1, <1>3, Distinct DEF Mechanics, TypeOK, LockHeld, HasTask
<1>7. /\ \A u \in TaskThread : theTask'[u] = IF u = t THEN None ELSE theTask[u]
      /\ \A u \in TaskThread : u # t => theTask[u] # k
      /\ \A j \in Task : fEvent'[j] = IF j = k THEN None ELSE fEvent[j]
      /\ \A j \in Task : Exists(j)' <=> Exists(j) /\ j # k
      /\ \A j, u, n : InQueue(j, u, n)' <=> InQueue(j, u, n)
  BY <1>2, <1>3, Distinct DEF Mechanics, TypeOK, OnePlace, Exists, InQueue, k
<1>8. OnePlace'
  <2>1. /\ newTask' = newTask /\ k # newTask
        /\ \A u \in TaskThread, n \in Nat : ~InQueue(k, u, n)
    BY <1>2, <1>3 DEF Mechanics, OnePlace, evThreadVars, k
  <2> SUFFICES ASSUME NEW j \in Task
               PROVE  /\ \A u, v \in TaskThread : theTask'[u] = j /\ theTask'[v] = j => u = v
                      /\ \A u, v \in TaskThread, n \in Nat : ~(theTask'[u] = j /\ InQueue(j, v, n)')
                      /\ \A u, v \in TaskThread, m, n \in Nat :
                             InQueue(j, u, m)' /\ InQueue(j, v, n)' => u = v /\ m = n
                      /\ j = newTask => \A u \in TaskThread, n \in Nat : theTask'[u] # j /\ ~InQueue(j, u, n)'
                      /\ Exists(j)' <=> \/ j = newTask
                                        \/ \E u \in TaskThread : theTask'[u] = j
                                        \/ \E u \in TaskThread, n \in Nat : InQueue(j, u, n)'
    BY <2>1 DEF OnePlace
  <2>2. CASE j = k
    <3>1. \A u \in TaskThread, n \in Nat : theTask'[u] # j /\ ~InQueue(j, u, n)'
      BY <1>7, <2>1, <2>2, Distinct
    <3> QED
      BY <1>7, <2>1, <2>2, <3>1
  <2>3. CASE j # k
    <3>1. \A u \in TaskThread : theTask'[u] = j <=> theTask[u] = j
      BY <1>7, <2>3, Distinct DEF k
    <3> QED
      BY <1>7, <2>3, <3>1 DEF Mechanics, OnePlace
  <2> QED
    BY <2>2, <2>3
<1>9. EventThreadHolds'
  <2>1. newTask # k
    BY <1>2 DEF Mechanics, OnePlace, k
  <2>2. evPc \in {"signal", "enqueue"} => newTask \in Task
    BY DEF Mechanics, TypeOK, EventThreadHolds
  <2> QED
    BY <1>3, <1>7, <2>1, <2>2 DEF Mechanics, EventThreadHolds, evThreadVars
<1>10. Handles'
  <2>1. object[c] # "unborn"
    BY <1>1, TaskOfThread DEF c
  <2>2. \A d \in Conn : (object'[d] = "unborn" <=> object[d] = "unborn")
                       /\ (d \in fEventTable' => d \in fEventTable)
    BY <1>2, <1>4, <2>1 DEF Mechanics, TypeOK
  <2>3. \A j \in Task : Exists(j)' => Exists(j) /\ fEvent'[j] = fEvent[j] /\ fEvent[j] \in Conn
    BY <1>7 DEF Mechanics, TypeOK, Exists
  <2>4. UNCHANGED <<fSocketID, fConnClosed, armed, evPc, theEvent>>
    BY <1>3 DEF evThreadVars, netVars
  <2> QED
    BY <2>2, <2>3, <2>4 DEF Mechanics, Handles
<1>11. Closing'
  <2>1. \A j \in fDeleteEvent' : j \in Task /\ fEvent'[j] = fEvent[j]
    BY <1>3, <1>7 DEF Mechanics, TypeOK
  <2>2. pc'[t] = "wait"
    BY <1>3 DEF Mechanics, TypeOK
  <2>3. \A u \in TaskThread : u # t => pc'[u] = pc[u] /\ pc[u] \notin {"recv", "close", "unregister"}
    BY <1>1, <1>3 DEF Mechanics, TypeOK, LockHeld
  <2> QED
    BY <1>3, <2>1, <2>2, <2>3 DEF Mechanics, Closing
<1> QED
  BY <1>5, <1>6, <1>8, <1>9, <1>10, <1>11 DEF Mechanics

LEMMA NextMechanics == Mechanics /\ [Next]_vars => Mechanics'
<1> SUFFICES ASSUME Mechanics, [Next]_vars PROVE Mechanics'
  OBVIOUS
<1>1. ASSUME NEW c \in Conn, Peer(c) PROVE Mechanics'
  BY <1>1, PeerMechanics
<1>2. CASE EventThread
  BY <1>2, WaitEventMechanics, AcceptClientMechanics, NewSessionMechanics, PickThreadMechanics,
     EnQueueMechanics
  DEF EventThread
<1>3. ASSUME NEW t \in TaskThread, RunTask(t) PROVE Mechanics'
  <2>1. CASE StartTask(t)
    BY <2>1, WaitForTaskMechanics, LockPoolMechanics DEF StartTask
  <2>2. CASE RunClose(t) \/ RunRead(t) \/ RecvFails(t) \/ CloseSocket(t)
    BY <2>2, RunMechanics
  <2>3. CASE Recv(t)
    BY <2>3, RecvMechanics
  <2>4. CASE DeleteTask(t)
    BY <2>4, RunMechanics, FinishMechanics DEF DeleteTask, IsLastTask
  <2>5. CASE FreeEvent(t)
    BY <2>5, FinishMechanics
  <2> QED
    BY <1>3, <2>1, <2>2, <2>3, <2>4, <2>5 DEF RunTask
<1>4. CASE UNCHANGED vars
  BY <1>4
  DEF vars, poolVars, eventVars, taskVars, evThreadVars, netVars, Mechanics, TypeOK, LockHeld,
      HasTask, OnePlace, InQueue, Exists, EventThreadHolds, Handles, Closing, EventOf
<1> QED
  BY <1>1, <1>2, <1>3, <1>4 DEF Next

LEMMA AlwaysMechanics == Spec => []Mechanics
<1> QED
  BY InitMechanics, NextMechanics, PTL DEF Spec

\* Every variable of the TCP service keeps its type: no task thread closes,
\* arms or reads a connection that is not there.
THEOREM TypeCorrect == Spec => []TypeOK
<1>1. Mechanics => TypeOK
  BY DEF Mechanics
<1> QED
  BY <1>1, AlwaysMechanics, PTL

-----------------------------------------------------------------------------
(* A task is in one place.                                                 *)

LEMMA PlacesOfTask ==
    ASSUME Mechanics, NEW k \in Task
    PROVE  /\ \A x \in PlacesInPool(k) : \/ \E t \in TaskThread : theTask[t] = k /\ x = <<t, 0>>
                                         \/ \E t \in TaskThread, n \in Nat : InQueue(k, t, n) /\ x = <<t, n>>
           /\ \A t \in TaskThread : theTask[t] = k => <<t, 0>> \in PlacesInPool(k)
           /\ \A t \in TaskThread, n \in Nat : InQueue(k, t, n) => <<t, n>> \in PlacesInPool(k)
<1>1. \A t \in TaskThread : DOMAIN fTaskQueueB[t] \subseteq Nat
  BY DEF Mechanics, TypeOK
<1>2. ASSUME NEW x \in PlacesInPool(k)
      PROVE  \/ \E t \in TaskThread : theTask[t] = k /\ x = <<t, 0>>
             \/ \E t \in TaskThread, n \in Nat : InQueue(k, t, n) /\ x = <<t, n>>
  BY <1>1 DEF PlacesInPool, InQueue
<1>3. \A t \in TaskThread : theTask[t] = k => <<t, 0>> \in PlacesInPool(k)
  BY DEF PlacesInPool
<1>4. \A t \in TaskThread, n \in Nat : InQueue(k, t, n) => <<t, n>> \in PlacesInPool(k)
  BY DEF PlacesInPool, InQueue
<1> QED
  BY <1>2, <1>3, <1>4

LEMMA OnePlaceCounted ==
    ASSUME Mechanics, NEW k \in Task
    PROVE  Cardinality(PlacesInPool(k)) + (IF newTask = k THEN 1 ELSE 0)
               = IF Exists(k) THEN 1 ELSE 0
<1> DEFINE P == PlacesInPool(k)
<1>1. CASE P = {}
  <2>1. Cardinality(P) = 0
    BY <1>1, FS_EmptySet
  <2>2. Exists(k) <=> k = newTask
    BY <1>1, PlacesOfTask DEF Mechanics, OnePlace
  <2> QED
    BY <2>1, <2>2
<1>2. CASE P # {}
  <2>1. PICK x : x \in P
    BY <1>2
  <2>2. \A y \in P : y = x
    <3> TAKE y \in P
    <3>1. \/ \E t \in TaskThread : theTask[t] = k /\ x = <<t, 0>>
          \/ \E t \in TaskThread, n \in Nat : InQueue(k, t, n) /\ x = <<t, n>>
      BY <2>1, PlacesOfTask
    <3>2. \/ \E t \in TaskThread : theTask[t] = k /\ y = <<t, 0>>
          \/ \E t \in TaskThread, n \in Nat : InQueue(k, t, n) /\ y = <<t, n>>
      BY PlacesOfTask
    <3> QED
      BY <3>1, <3>2 DEF Mechanics, OnePlace
  <2>3. P = {x}
    BY <2>1, <2>2
  <2>4. Cardinality(P) = 1
    BY <2>3, FS_Singleton
  <2>5. Exists(k) /\ k # newTask
    BY <2>1, PlacesOfTask DEF Mechanics, OnePlace
  <2> QED
    BY <2>4, <2>5
<1> QED
  BY <1>1, <1>2

\* What a reference set holds is there, and the task that deletes its event is
\* in none.
InReferenceSet ==
    /\ \A c \in Conn : \A k \in fTaskSet[c] : fEvent[k] = c
    /\ \A t \in TaskThread : pc[t] \in {"close", "unregister"} => theTask[t] \notin fTaskSet[EventOf(t)]

LEMMA NextInReferenceSet ==
    ASSUME Mechanics, InReferenceSet, [Next]_vars
    PROVE  InReferenceSet'
<1>1. CASE UNCHANGED <<pc, theTask, fTaskSet, fEvent>>
  BY <1>1 DEF InReferenceSet, EventOf
<1>2. ASSUME NEW c \in Conn, Peer(c) PROVE InReferenceSet'
  BY <1>1, <1>2 DEF Peer, PeerConnects, PeerSends, PeerCloses, PeerResets, PeerRejects, poolVars,
                    eventVars, taskVars
<1>3. ASSUME NEW k \in Task, NewSession(k) PROVE InReferenceSet'
  <2>1. /\ theEvent \in Conn /\ ~Exists(k)
        /\ fEvent' = [fEvent EXCEPT ![k] = theEvent]
        /\ fTaskSet' = [fTaskSet EXCEPT ![theEvent] = @ \cup {k}]
        /\ UNCHANGED <<pc, theTask>>
    BY <1>3 DEF NewSession, Exists, poolVars
  <2>2. \A c \in Conn : k \notin fTaskSet[c]
    BY <2>1, Distinct DEF InReferenceSet, Exists
  <2>3. \A c \in Conn : \A j \in fTaskSet'[c] : fEvent'[j] = c
    BY <2>1, <2>2 DEF InReferenceSet, Mechanics, TypeOK
  <2>4. ASSUME NEW t \in TaskThread, pc[t] \in {"close", "unregister"}
        PROVE  theTask[t] \notin fTaskSet'[EventOf(t)']
    <3>1. theTask[t] \in Task /\ theTask[t] # k /\ EventOf(t) \in Conn
      BY <2>1, <2>4, TaskOfThread
    <3>2. EventOf(t)' = EventOf(t)
      BY <2>1, <3>1 DEF EventOf, Mechanics, TypeOK
    <3> QED
      BY <2>1, <2>4, <3>1, <3>2 DEF InReferenceSet, Mechanics, TypeOK
  <2> QED
    BY <2>1, <2>3, <2>4 DEF InReferenceSet
<1>4. CASE EventThread /\ \A k \in Task : ~NewSession(k)
  BY <1>1, <1>4 DEF EventThread, WaitEvent, LookUp, AcceptClient, PickThread, GetThread,
                    EnQueueSession, EnQueue, SignalReturns, ReadTaskName, poolVars, eventVars, taskVars
<1>5. ASSUME NEW t \in TaskThread, RunTask(t) PROVE InReferenceSet'
  <2>1. CASE UNCHANGED <<fTaskSet, fEvent>> /\ \A u \in TaskThread :
               pc'[u] \in {"close", "unregister"} =>
                   pc[u] \in {"close", "unregister"} /\ theTask'[u] = theTask[u]
    BY <2>1 DEF InReferenceSet, EventOf
  <2>2. CASE StartTask(t) \/ RunClose(t) \/ RunRead(t) \/ Recv(t) \/ RecvFails(t) \/ CloseSocket(t)
    BY <2>1, <2>2
    DEF StartTask, WaitForTask, LockPool, RunClose, RunRead, Recv, RecvFails, CloseSocket, Goto,
        poolVars, eventVars, taskVars, Mechanics, TypeOK
  <2>3. CASE DeleteTask(t) \/ FreeEvent(t)
    <3> DEFINE k == theTask[t]
               c == EventOf(t)
    <3>1. pc[t] \in {"delete", "unregister"}
      BY <2>3 DEF DeleteTask, Goto, FreeEvent, FinishTask
    <3>2. k \in Task /\ c \in Conn /\ c = fEvent[k]
      BY <3>1, TaskOfThread DEF EventOf
    <3>3. \A d \in Conn : d # c => k \notin fTaskSet[d]
      BY <3>2 DEF InReferenceSet
    <3>4. /\ c \in DOMAIN fTaskSet /\ k \notin fTaskSet'[c]
          /\ \A d \in Conn : fTaskSet'[d] \subseteq fTaskSet[d]
      <4>1. fTaskSet \in [Conn -> SUBSET Task]
        BY DEF Mechanics, TypeOK
      <4>2. CASE DeleteTask(t)
        <5>1. fTaskSet' = [fTaskSet EXCEPT ![c] = fTaskSet[c] \ {k}]
          BY <4>2 DEF DeleteTask
        <5> QED
          BY <3>2, <4>1, <5>1
      <4>3. CASE FreeEvent(t)
        <5>1. fTaskSet' = fTaskSet /\ pc[t] = "unregister"
          BY <4>3 DEF FreeEvent, FinishTask
        <5> QED
          BY <3>2, <4>1, <5>1 DEF InReferenceSet
      <4> QED
        BY <2>3, <4>2, <4>3
    <3>5. \A j \in Task : j # k => fEvent'[j] = fEvent[j]
      BY <2>3 DEF DeleteTask, FreeEvent, Forget, taskVars, Mechanics, TypeOK
    <3>6. \A d \in Conn : \A j \in fTaskSet'[d] : fEvent'[j] = d
      <4> SUFFICES ASSUME NEW d \in Conn, NEW j \in fTaskSet'[d] PROVE fEvent'[j] = d
        OBVIOUS
      <4>1. j \in fTaskSet[d] /\ j # k /\ j \in Task
        BY <3>3, <3>4 DEF Mechanics, TypeOK
      <4> QED
        BY <3>5, <4>1 DEF InReferenceSet
    <3>7. ASSUME NEW u \in TaskThread, pc'[u] \in {"close", "unregister"}
          PROVE  (theTask[u] \notin fTaskSet[EventOf(u)])'
      <4>1. CASE u = t
        <5>1. DeleteTask(t) /\ theTask'[u] = k /\ fEvent'[k] = c
          BY <2>3, <3>7, <4>1 DEF DeleteTask, FreeEvent, FinishTask, Goto, taskVars, EventOf, Mechanics,
                                  TypeOK
        <5> QED
          BY <3>4, <4>1, <5>1 DEF EventOf
      <4>2. CASE u # t
        BY <2>3, <3>1, <3>7, <4>2
        DEF DeleteTask, FreeEvent, FinishTask, Goto, Mechanics, TypeOK, LockHeld
      <4> QED
        BY <4>1, <4>2
    <3> QED
      BY <3>6, <3>7 DEF InReferenceSet
  <2> QED
    BY <1>5, <2>2, <2>3 DEF RunTask
<1>6. CASE UNCHANGED vars
  BY <1>1, <1>6 DEF vars, poolVars, eventVars, taskVars
<1> QED
  BY <1>2, <1>3, <1>4, <1>5, <1>6 DEF Next

\* Whatever the peers do, a task is in one queue, or with one thread, or new with
\* the event thread, from its construction to its deletion, though the thread
\* may run and delete it while Task::Signal is still at work; and once it is
\* deleted no queue, no thread and no reference set holds it (Task::Signal,
\* TaskThread::WaitForTask, TaskThread::Entry, ~Task).
THEOREM AlwaysOnlySignalOutlivesTask == Spec => []OnlySignalOutlivesTask
<1>1. Init => InReferenceSet
  BY DEF Init, PoolInit, InReferenceSet
<1>2. Mechanics /\ InReferenceSet => OnlySignalOutlivesTask
  BY OnePlaceCounted DEF InReferenceSet, OnlySignalOutlivesTask
<1> QED
  BY <1>1, <1>2, AlwaysMechanics, NextInReferenceSet, PTL DEF Spec

-----------------------------------------------------------------------------
(* Graceful peers.  As long as no peer resets while data it sent is        *)
(* unread, there is at most one message of a connection, and only while    *)
(* its socket is armed; so the turn passes from Winsock to the event       *)
(* thread, to one session and back, until a session closes the connection. *)

\* No two open TCPSockets have the same handle.
OneHandle ==
    \A c, d \in Conn : fSocketID[c] # None /\ fSocketID[c] = fSocketID[d] => c = d

IsReady(c) == c \in unread \/ CloseIsDue(c)

\* A message of a connection is the only one, it carries the connection's own
\* handle, and the socket is still armed.
OwnMessages ==
    \A i \in DOMAIN msgs : msgs[i].id \in Conn =>
        /\ msgs[i].id \in armed /\ IsReady(msgs[i].id)
        /\ msgs[i].handle = fSocketID[msgs[i].id]
        /\ \A j \in DOMAIN msgs : msgs[j].id = msgs[i].id => i = j

HasPending(c) == \E k \in Task : fEvent[k] = c /\ IsPending(k)

Open(c) == object[c] = "live" /\ c \notin fConnClosed

\* OneTurn without numbers.
Turns ==
    /\ \A c \in Conn : c \in armed => theEvent # c
    /\ \A c \in Conn : HasPending(c) => c \notin armed /\ theEvent # c
    /\ \A j, k \in Task : IsPending(j) /\ IsPending(k) /\ fEvent[j] = fEvent[k] => j = k
    /\ \A c \in Conn : Open(c) <=> c \in armed \/ theEvent = c \/ HasPending(c)

IsDeleting(t) == pc[t] \in {"close", "unregister"}

\* The reference set holds the tasks of a TCPSocket but the one that deletes
\* it, and that one is the last.
References ==
    /\ \A c \in Conn, k \in Task :
          k \in fTaskSet[c] <=> fEvent[k] = c /\ \A t \in TaskThread : theTask[t] = k => ~IsDeleting(t)
    /\ \A t \in TaskThread : IsDeleting(t) =>
          \A k \in Task : fEvent[k] = EventOf(t) => k = theTask[t]
    /\ \A k \in Task : Exists(k) => object[fEvent[k]] = "live"

\* From the backlog to the event table and out of it again.
Lifetime ==
    /\ \A c \in Conn : c \in fEventTable <=> object[c] = "live"
    /\ \A c \in Conn : peer[c] = "idle" => object[c] = "unborn"
    /\ \A c \in fConnClosed : object[c] # "unborn"
    /\ \A i \in DOMAIN backlog : peer[backlog[i]] # "idle" /\ object[backlog[i]] = "unborn"
    /\ \A i, j \in DOMAIN backlog : backlog[i] = backlog[j] => i = j

Deletes(t, c) ==
    /\ pc[t] \in {"delete", "close", "unregister"}
    /\ theTask[t] \in fDeleteEvent /\ EventOf(t) = c

\* A closed TCPSocket that is not deleted yet has a thread that deletes it.
Deleter == \A c \in fConnClosed : object[c] = "live" => \E t \in TaskThread : Deletes(t, c)

Discipline ==
    OneHandle /\ OwnMessages /\ Turns /\ References /\ Lifetime /\ Deleter

-----------------------------------------------------------------------------
LEMMA InitDiscipline == Init => Discipline
<1> SUFFICES ASSUME Init PROVE Discipline
  OBVIOUS
<1>1. \A k \in Task : ~Exists(k)
  BY DEF Init, Exists
<1>2. \A k \in Task : ~IsPending(k)
  BY <1>1 DEF IsPending
<1>3. OneHandle /\ OwnMessages
  BY DEF Init, OneHandle, OwnMessages
<1>4. Turns
  BY <1>1, <1>2, Distinct DEF Init, Turns, HasPending, Open
<1>5. References
  BY <1>1, Distinct DEF Init, PoolInit, References, IsDeleting, Exists
<1>6. Lifetime /\ Deleter
  BY Distinct DEF Init, Lifetime, Deleter, Deletes
<1> QED
  BY <1>3, <1>4, <1>5, <1>6 DEF Discipline

\* A thread's task is pending until its receive loop is over.
LEMMA TaskPending ==
    ASSUME Mechanics, NEW t \in TaskThread, pc[t] # "wait"
    PROVE  /\ IsPending(theTask[t]) <=> pc[t] \in {"lock", "run", "recv"}
           /\ IsPending(theTask[t]) => HasPending(EventOf(t))
<1>1. theTask[t] \in Task /\ Exists(theTask[t])
  BY TaskOfThread
<1>2. theTask[t] # newTask /\ \A u \in TaskThread : theTask[u] = theTask[t] => u = t
  BY <1>1 DEF Mechanics, OnePlace
<1> QED
  BY <1>1, <1>2 DEF IsPending, HasPending, EventOf

\* A connection with a pending session is open and nobody else's turn.
LEMMA PendingIsOpen ==
    ASSUME Mechanics, Discipline, NEW t \in TaskThread, pc[t] \in {"lock", "run", "recv"}
    PROVE  /\ EventOf(t) \in Conn /\ Open(EventOf(t)) /\ HasPending(EventOf(t))
           /\ EventOf(t) \notin armed /\ theEvent # EventOf(t)
           /\ \A k \in Task : fEvent[k] = EventOf(t) /\ IsPending(k) => k = theTask[t]
<1>1. theTask[t] \in Task /\ EventOf(t) \in Conn /\ IsPending(theTask[t]) /\ HasPending(EventOf(t))
  BY TaskPending, TaskOfThread
<1> QED
  BY <1>1 DEF Discipline, Turns, EventOf

\* Messages are added for one connection that had none.
LEMMA OwnMessagesGrow ==
    ASSUME OwnMessages, NEW c \in Conn, NEW new, msgs \in Seq(MessageSet), new \in Seq(MessageSet),
           msgs' = msgs \o new,
           \A d \in Conn : d \in armed /\ IsReady(d) =>
               d \in armed' /\ IsReady(d)' /\ fSocketID'[d] = fSocketID[d],
           \A i \in DOMAIN new : new[i].id \in Conn =>
               /\ i = 1 /\ new[i].id = c /\ new[i].handle = fSocketID'[c]
               /\ c \in armed' /\ IsReady(c)' /\ ~(c \in armed /\ IsReady(c))
    PROVE  OwnMessages'
<1> DEFINE n == Len(msgs)
<1>1. /\ n \in Nat
      /\ \A i \in DOMAIN msgs' : \/ i \in DOMAIN msgs /\ msgs'[i] = msgs[i]
                                 \/ i - n \in DOMAIN new /\ msgs'[i] = new[i - n]
      /\ \A i \in DOMAIN msgs' : i \in Nat
  BY DEF MessageSet
<1>2. \A i \in DOMAIN msgs : msgs[i].id \in Conn => msgs[i].id \in armed /\ IsReady(msgs[i].id)
  BY DEF OwnMessages
<1> HIDE DEF n
<1> SUFFICES ASSUME NEW i \in DOMAIN msgs', msgs'[i].id \in Conn
             PROVE  /\ msgs'[i].id \in armed' /\ IsReady(msgs[i].id)'
                    /\ msgs'[i].handle = fSocketID'[msgs'[i].id]
                    /\ \A j \in DOMAIN msgs' : msgs'[j].id = msgs'[i].id => i = j
  BY DEF OwnMessages
<1>3. PICK d : d = msgs'[i].id
  OBVIOUS
<1>4. CASE i \in DOMAIN msgs /\ msgs'[i] = msgs[i]
  <2>1. d \in armed /\ IsReady(d) /\ msgs[i].handle = fSocketID[d]
    BY <1>2, <1>3, <1>4 DEF OwnMessages
  <2>2. d \in armed' /\ IsReady(d)' /\ msgs'[i].handle = fSocketID'[d]
    BY <1>3, <1>4, <2>1
  <2>3. ASSUME NEW j \in DOMAIN msgs', msgs'[j].id = d PROVE i = j
    <3>1. CASE j \in DOMAIN msgs /\ msgs'[j] = msgs[j]
      BY <1>3, <1>4, <2>3, <3>1 DEF OwnMessages
    <3>2. CASE j - n \in DOMAIN new /\ msgs'[j] = new[j - n]
      BY <1>3, <2>1, <2>3, <3>2
    <3> QED
      BY <1>1, <3>1, <3>2
  <2> QED
    BY <1>3, <2>2, <2>3 DEF IsReady, CloseIsDue
<1>5. CASE i - n \in DOMAIN new /\ msgs'[i] = new[i - n]
  <2>1. /\ i - n = 1 /\ d = c /\ msgs'[i].handle = fSocketID'[c]
        /\ c \in armed' /\ IsReady(c)' /\ ~(c \in armed /\ IsReady(c))
    BY <1>3, <1>5
  <2>2. ASSUME NEW j \in DOMAIN msgs', msgs'[j].id = c PROVE i = j
    <3>1. CASE j \in DOMAIN msgs /\ msgs'[j] = msgs[j]
      BY <1>2, <2>1, <2>2, <3>1
    <3>2. CASE j - n \in DOMAIN new /\ msgs'[j] = new[j - n]
      BY <1>1, <2>1, <2>2, <3>2
    <3> QED
      BY <1>1, <3>1, <3>2
  <2> QED
    BY <1>3, <2>1, <2>2 DEF IsReady, CloseIsDue
<1> QED
  BY <1>1, <1>4, <1>5

\* The messages of a connection stay the ones there were.
LEMMA OwnMessagesStay ==
    ASSUME OwnMessages, UNCHANGED msgs,
           \A d \in Conn : d \in armed /\ IsReady(d) =>
               d \in armed' /\ IsReady(d)' /\ fSocketID'[d] = fSocketID[d]
    PROVE  OwnMessages'
<1> SUFFICES ASSUME NEW i \in DOMAIN msgs, msgs[i].id \in Conn
             PROVE  /\ msgs[i].id \in armed' /\ IsReady(msgs[i].id)'
                    /\ msgs[i].handle = fSocketID'[msgs[i].id]
                    /\ \A j \in DOMAIN msgs : msgs[j].id = msgs[i].id => i = j
  BY DEF OwnMessages
<1>1. PICK d : d = msgs[i].id
  OBVIOUS
<1>2. d \in armed' /\ IsReady(d)' /\ fSocketID'[d] = fSocketID[d]
  BY <1>1 DEF OwnMessages
<1> QED
  BY <1>1, <1>2 DEF OwnMessages, IsReady, CloseIsDue

\* While tasks and threads stay as they are, so does what is pending.
LEMMA PendingSame ==
    ASSUME UNCHANGED <<fEvent, newTask, theTask, pc>>
    PROVE  /\ \A k : IsPending(k)' <=> IsPending(k)
           /\ \A c : HasPending(c)' <=> HasPending(c)
  BY DEF IsPending, HasPending, Exists

\* The peers.
LEMMA PeerOwnMessages ==
    ASSUME Mechanics, Discipline, ~AbruptReset, NEW c \in Conn, Peer(c)
    PROVE  OwnMessages'
<1>1. OwnMessages /\ msgs \in Seq(MessageSet) /\ AcceptMessage \in MessageSet
  BY DEF Discipline, Mechanics, TypeOK, MessageSet
<1>2. UNCHANGED <<armed, fSocketID>>
  BY DEF Peer, PeerConnects, PeerSends, PeerCloses, PeerResets, PeerRejects, eventVars
<1>3. /\ \A d \in Conn \ {c} : IsReady(d)' <=> IsReady(d)
      /\ c \in armed /\ IsReady(c) => IsReady(c)'
  <2>1. /\ unread' \ {c} = unread \ {c} /\ \A d \in Conn \ {c} : peer'[d] = peer[d]
    BY DEF Peer, PeerConnects, PeerSends, PeerCloses, PeerResets, PeerRejects, Mechanics, TypeOK
  <2>2. c \in armed => peer[c] # "idle"
    BY DEF Discipline, Turns, Open, Lifetime
  <2>3. c \in armed /\ IsReady(c) => IsReady(c)'
    BY <2>2 DEF Peer, PeerConnects, PeerSends, PeerCloses, PeerResets, PeerRejects, Mechanics,
                TypeOK, IsReady, CloseIsDue
  <2> QED
    BY <2>1, <2>3 DEF IsReady, CloseIsDue
<1>4. \A d \in Conn : d \in armed /\ IsReady(d) =>
        d \in armed' /\ IsReady(d)' /\ fSocketID'[d] = fSocketID[d]
  BY <1>2, <1>3
<1>5. CASE msgs' = msgs
  BY <1>1, <1>4, <1>5, OwnMessagesStay
<1>6. CASE msgs' = Append(msgs, AcceptMessage)
  <2> DEFINE new == <<AcceptMessage>>
  <2>1. msgs' = msgs \o new /\ new \in Seq(MessageSet)
    BY <1>1, <1>6
  <2>2. \A i \in DOMAIN new : new[i].id \notin Conn
    BY Distinct DEF AcceptMessage
  <2> HIDE DEF new
  <2> QED
    BY <1>1, <1>4, <2>1, <2>2, OwnMessagesGrow
<1>7. ASSUME NEW bits \in {"read", "close"}, msgs' = Append(msgs, Message(c, bits)), c \in armed,
             ~IsReady(c), IsReady(c)'
      PROVE  OwnMessages'
  <2> DEFINE new == <<Message(c, bits)>>
  <2>1. Message(c, bits) \in MessageSet /\ Message(c, bits).id = c
        /\ Message(c, bits).handle = fSocketID[c]
    BY <1>7 DEF Message, MessageSet, Mechanics, TypeOK, Handles
  <2>2. msgs' = msgs \o new /\ new \in Seq(MessageSet)
    BY <1>1, <1>7, <2>1
  <2>3. \A i \in DOMAIN new : i = 1 /\ new[i] = Message(c, bits)
    OBVIOUS
  <2> HIDE DEF new
  <2> QED
    BY <1>1, <1>2, <1>4, <1>7, <2>1, <2>2, <2>3, OwnMessagesGrow
<1>8. CASE PeerConnects(c)
  BY <1>5, <1>6, <1>8 DEF PeerConnects, Notify
<1>9. CASE PeerSends(c)
  <2>1. c \notin unread => ~IsReady(c) /\ IsReady(c)'
    BY <1>9 DEF PeerSends, IsReady, CloseIsDue
  <2> QED
    BY <1>5, <1>7, <1>9, <2>1 DEF PeerSends, Notify
<1>10. CASE PeerCloses(c) \/ PeerResets(c)
  <2>1. c \notin unread => ~IsReady(c) /\ IsReady(c)'
    BY <1>10 DEF PeerCloses, PeerResets, IsReady, CloseIsDue, Mechanics, TypeOK
  <2>2. \/ msgs' = msgs
        \/ c \in armed /\ c \notin unread /\ msgs' = Append(msgs, Message(c, "close"))
    BY <1>10 DEF PeerCloses, PeerResets, Notify
  <2> QED
    BY <1>5, <1>7, <2>1, <2>2
<1>11. CASE PeerRejects(c)
  BY <1>5, <1>11 DEF PeerRejects
<1> QED
  BY <1>8, <1>9, <1>10, <1>11 DEF Peer

LEMMA PeerDiscipline ==
    ASSUME Mechanics, Discipline, ~AbruptReset, NEW c \in Conn, Peer(c)
    PROVE  Discipline'
<1>1. UNCHANGED <<poolVars, eventVars, taskVars, evThreadVars, armed>>
  BY DEF Peer, PeerConnects, PeerSends, PeerCloses, PeerResets, PeerRejects
<1>2. OneHandle' /\ References' /\ Deleter'
  BY <1>1 DEF Discipline, OneHandle, References, Deleter, Deletes, IsDeleting, Exists, EventOf, poolVars,
              eventVars, taskVars
<1>3. Turns'
  BY <1>1, PendingSame DEF Discipline, Turns, Open, poolVars, eventVars, taskVars, evThreadVars
<1>4. Lifetime'
  <2>1. \A d \in Conn : /\ peer'[d] = "idle" => peer[d] = "idle"
                        /\ peer'[d] # "idle" => peer[d] # "idle" \/ (d = c /\ PeerConnects(c))
    BY DEF Peer, PeerConnects, PeerSends, PeerCloses, PeerResets, PeerRejects, Mechanics, TypeOK
  <2>2. CASE ~PeerConnects(c)
    <3>1. backlog' = backlog
      BY <2>2 DEF Peer, PeerSends, PeerCloses, PeerResets, PeerRejects
    <3>2. \A i \in DOMAIN backlog : backlog[i] \in Conn
      BY DEF Mechanics, TypeOK
    <3> QED
      BY <1>1, <2>1, <3>1, <3>2 DEF Discipline, Lifetime, eventVars
  <2>3. CASE PeerConnects(c)
    <3>1. backlog' = Append(backlog, c) /\ peer[c] = "idle" /\ backlog \in Seq(Conn)
      BY <2>3 DEF PeerConnects, Mechanics, TypeOK
    <3>2. object[c] = "unborn" /\ \A i \in DOMAIN backlog : backlog[i] # c /\ backlog[i] \in Conn
      BY <3>1 DEF Discipline, Lifetime
    <3>3. \A i \in DOMAIN backlog' :
            \/ i \in DOMAIN backlog /\ backlog'[i] = backlog[i]
            \/ i = Len(backlog) + 1 /\ backlog'[i] = c
      BY <3>1
    <3>4. peer'[c] = "up"
      BY <2>3 DEF PeerConnects, Mechanics, TypeOK
    <3>5. \A i \in DOMAIN backlog' : peer'[backlog'[i]] # "idle" /\ object[backlog'[i]] = "unborn"
      BY <2>1, <3>2, <3>3, <3>4 DEF Discipline, Lifetime
    <3>6. \A i, j \in DOMAIN backlog' : backlog'[i] = backlog'[j] => i = j
      BY <3>2, <3>3 DEF Discipline, Lifetime
    <3> QED
      BY <1>1, <2>1, <3>5, <3>6 DEF Discipline, Lifetime, eventVars
  <2> QED
    BY <2>2, <2>3
<1> QED
  BY <1>2, <1>3, <1>4, PeerOwnMessages DEF Discipline

\* The event thread takes a message: nobody else's socket is switched off.
LEMMA OwnHandle ==
    ASSUME Mechanics, Discipline, msgs # << >>
    PROVE  /\ Head(msgs).id \in Conn =>
                /\ Head(msgs).id \in armed
                /\ SocketsOf(Head(msgs).handle) = {Head(msgs).id}
           /\ Head(msgs).id \notin Conn =>
                Head(msgs).id = Listener /\ SocketsOf(Head(msgs).handle) = {Listener}
<1>1. msgs \in Seq(MessageSet) /\ 1 \in DOMAIN msgs /\ Head(msgs) = msgs[1] /\ msgs[1] \in MessageSet
  BY DEF Mechanics, TypeOK
<1>2. CASE msgs[1].id \in Conn
  <2>1. msgs[1].id \in armed /\ msgs[1].handle = fSocketID[msgs[1].id]
    BY <1>1, <1>2 DEF Discipline, OwnMessages
  <2>2. fSocketID[msgs[1].id] \in Handle
    BY <1>2, <2>1 DEF Mechanics, TypeOK, Handles
  <2>3. \A d \in Conn : fSocketID[d] = msgs[1].handle <=> d = msgs[1].id
    BY <1>2, <2>1, <2>2, Distinct DEF Discipline, OneHandle
  <2>4. msgs[1].handle # Listener
    BY <2>1, <2>2, Distinct
  <2> QED
    BY <1>1, <1>2, <2>1, <2>3, <2>4 DEF SocketsOf
<1>3. CASE msgs[1].id \notin Conn
  BY <1>1, <1>3, Distinct DEF MessageSet, AcceptMessage, SocketsOf
<1> QED
  BY <1>1, <1>2, <1>3

LEMMA WaitEventDiscipline ==
    ASSUME Mechanics, Discipline, WaitEvent
    PROVE  Discipline'
<1> DEFINE m == Head(msgs)
<1>1. PICK e : e = m.id
  OBVIOUS
<1>2. /\ msgs # << >> /\ msgs' = Tail(msgs) /\ msgs \in Seq(MessageSet)
      /\ evPc = "wait" /\ theEvent = None /\ theEvent' = e
      /\ UNCHANGED <<poolVars, eventVars, taskVars, newTask, backlog, peer, unread, sends>>
  BY <1>1 DEF WaitEvent, Mechanics, TypeOK, EventThreadHolds
<1>3. armed' = armed \ {e} /\ (e \in Conn => e \in armed)
  BY <1>1, <1>2, OwnHandle DEF WaitEvent, Disarm
<1>4. OneHandle' /\ References' /\ Lifetime' /\ Deleter'
  BY <1>2 DEF Discipline, OneHandle, References, Lifetime, Deleter, Deletes, IsDeleting, Exists, EventOf,
              poolVars, eventVars, taskVars
<1>5. Turns'
  <2>1. (\A k : IsPending(k)' <=> IsPending(k)) /\ (\A c : HasPending(c)' <=> HasPending(c))
    BY <1>2, PendingSame DEF poolVars, taskVars
  <2> QED
    BY <1>2, <1>3, <2>1, Distinct DEF Discipline, Turns, Open, eventVars, taskVars
<1>6. OwnMessages'
  <2>1. \A i \in DOMAIN msgs' : i + 1 \in DOMAIN msgs /\ msgs'[i] = msgs[i + 1] /\ i \in Nat /\ i >= 1
    BY <1>2
  <2>2. 1 \in DOMAIN msgs /\ m = msgs[1]
    BY <1>2
  <2> SUFFICES ASSUME NEW i \in DOMAIN msgs', msgs'[i].id \in Conn
               PROVE  /\ msgs'[i].id \in armed' /\ IsReady(msgs[i].id)'
                      /\ msgs'[i].handle = fSocketID'[msgs'[i].id]
                      /\ \A j \in DOMAIN msgs' : msgs'[j].id = msgs'[i].id => i = j
    BY DEF OwnMessages
  <2>3. PICK d : d = msgs'[i].id
    OBVIOUS
  <2>4. /\ d = msgs[i + 1].id /\ d \in armed /\ IsReady(d) /\ msgs[i + 1].handle = fSocketID[d]
        /\ \A j \in DOMAIN msgs : msgs[j].id = d => i + 1 = j
    BY <2>1, <2>3 DEF Discipline, OwnMessages
  <2>5. d # e
    BY <1>1, <2>1, <2>2, <2>4
  <2>6. IsReady(d)' /\ fSocketID' = fSocketID
    BY <1>2, <2>4 DEF IsReady, CloseIsDue, eventVars
  <2>7. \A j \in DOMAIN msgs' : msgs'[j].id = d => i = j
    BY <2>1, <2>4
  <2> QED
    BY <1>3, <2>1, <2>3, <2>4, <2>5, <2>6, <2>7 DEF IsReady, CloseIsDue
<1> QED
  BY <1>4, <1>5, <1>6 DEF Discipline

LEMMA LookUpDiscipline ==
    ASSUME Mechanics, Discipline, LookUp
    PROVE  Discipline'
<1>1. UNCHANGED <<poolVars, eventVars, taskVars, newTask, netVars>>
  BY DEF LookUp
<1>2. \A c \in Conn : theEvent' = c <=> theEvent = c
  <2>1. theEvent \in Conn => Registered(theEvent)
    BY DEF Discipline, Turns, Open, Lifetime, Registered
  <2> QED
    BY <2>1, Distinct DEF LookUp
<1>3. OneHandle' /\ References' /\ Lifetime' /\ Deleter'
  BY <1>1 DEF Discipline, OneHandle, References, Lifetime, Deleter, Deletes, IsDeleting, Exists, EventOf,
              poolVars, eventVars, taskVars, netVars
<1>4. Turns'
  <2>1. (\A k : IsPending(k)' <=> IsPending(k)) /\ (\A c : HasPending(c)' <=> HasPending(c))
    BY <1>1, PendingSame DEF poolVars, taskVars
  <2> QED
    BY <1>1, <1>2, <2>1 DEF Discipline, Turns, Open, eventVars, taskVars, netVars
<1>5. OwnMessages'
  BY <1>1, OwnMessagesStay DEF Discipline, eventVars, netVars, IsReady, CloseIsDue
<1> QED
  BY <1>3, <1>4, <1>5 DEF Discipline

\* A select_modwatch finds at most one thing to report: a close only once the
\* data is read.
LEMMA DueMessagesOwn ==
    ASSUME NEW c \in Conn, NEW h,
           NEW i \in DOMAIN DueMessages(c, h)
    PROVE  /\ i = 1 /\ DueMessages(c, h)[i].id = c /\ DueMessages(c, h)[i].handle = h
           /\ IsReady(c)
<1>1. CASE c \in unread
  <2>1. DueMessages(c, h) = <<[id |-> c, handle |-> h, bits |-> "read"]>>
    BY <1>1 DEF DueMessages, CloseIsDue
  <2> QED
    BY <1>1, <2>1 DEF IsReady
<1>2. CASE c \notin unread /\ CloseIsDue(c)
  <2>1. DueMessages(c, h) = <<[id |-> c, handle |-> h, bits |-> "close"]>>
    BY <1>2 DEF DueMessages
  <2> QED
    BY <1>2, <2>1 DEF IsReady
<1>3. CASE c \notin unread /\ ~CloseIsDue(c)
  BY <1>3 DEF DueMessages
<1> QED
  BY <1>1, <1>2, <1>3

LEMMA AcceptMessages ==
    <<AcceptMessage>> \in Seq(MessageSet) /\ << >> \in Seq(MessageSet)
<1>1. AcceptMessage \in MessageSet
  BY DEF MessageSet
<1> QED
  BY <1>1

\* The new TCPSocket has a handle and a turn of its own.
LEMMA AcceptClientDiscipline ==
    ASSUME Mechanics, Discipline, NEW h \in Handle, AcceptClient(h)
    PROVE  Discipline'
<1> DEFINE c == Head(backlog)
           accept == IF Tail(backlog) = << >> THEN << >> ELSE <<AcceptMessage>>
           new == DueMessages(c, h) \o accept
<1>1. /\ theEvent = Listener /\ theEvent' = None /\ backlog # << >> /\ backlog' = Tail(backlog)
      /\ \A d \in Conn : fSocketID[d] # h
      /\ object' = [object EXCEPT ![c] = "live"] /\ fSocketID' = [fSocketID EXCEPT ![c] = h]
      /\ fEventTable' = fEventTable \cup {c} /\ armed' = armed \cup {c, Listener}
      /\ UNCHANGED <<poolVars, fConnClosed, fTaskSet, taskVars, newTask, peer, unread>>
  BY DEF AcceptClient
<1>2. msgs' = msgs \o new
  <2>1. msgs' = msgs \o DueMessages(c, h) \o accept
    BY DEF AcceptClient
  <2>2. c \in Conn /\ msgs \in Seq(MessageSet)
    BY <1>1 DEF Mechanics, TypeOK
  <2> HIDE DEF c
  <2>3. DueMessages(c, h) \in Seq(MessageSet)
    BY <2>2, DueMessagesType
  <2>4. accept \in Seq(MessageSet)
    BY AcceptMessages
  <2> HIDE DEF accept
  <2> QED
    BY <2>1, <2>2, <2>3, <2>4
<1>3. /\ c \in Conn /\ 1 \in DOMAIN backlog /\ c = backlog[1] /\ backlog \in Seq(Conn)
      /\ \A i \in DOMAIN backlog' : i \in Nat /\ i + 1 \in DOMAIN backlog /\ backlog'[i] = backlog[i + 1]
                                    /\ i + 1 # 1
  BY <1>1 DEF Mechanics, TypeOK
<1>4. DueMessages(c, h) \in Seq(MessageSet) /\ accept \in Seq(MessageSet) /\ new \in Seq(MessageSet)
  <2>1. accept \in Seq(MessageSet)
    BY AcceptMessages
  <2> HIDE DEF c, accept
  <2> QED
    BY <1>3, <2>1, DueMessagesType
<1>5. \A i \in DOMAIN new : new[i].id \in Conn =>
        i = 1 /\ new[i].id = c /\ new[i].handle = h /\ IsReady(c)
  <2> SUFFICES ASSUME NEW i \in DOMAIN new, new[i].id \in Conn
               PROVE  i = 1 /\ new[i].id = c /\ new[i].handle = h /\ IsReady(c)
    OBVIOUS
  <2>1. \/ i \in DOMAIN DueMessages(c, h) /\ new[i] = DueMessages(c, h)[i]
        \/ \E j \in DOMAIN accept : new[i] = accept[j]
    BY <1>4
  <2>2. \A j \in DOMAIN accept : accept[j].id = Listener
    BY DEF AcceptMessage
  <2> HIDE DEF c, accept, new
  <2> QED
    BY <1>3, <2>1, <2>2, DueMessagesOwn, Distinct
<1> HIDE DEF c, accept, new
<1>6. /\ object[c] = "unborn" /\ peer[c] # "idle" /\ c \notin fConnClosed /\ c \notin armed
      /\ \A k \in Task : fEvent[k] # c
  <2>1. object[c] = "unborn" /\ peer[c] # "idle" /\ c \notin fConnClosed
    BY <1>3 DEF Discipline, Lifetime
  <2>2. c \notin armed
    BY <1>3, <2>1 DEF Discipline, Turns, Open
  <2> QED
    BY <1>3, <2>1, <2>2, Distinct DEF Mechanics, Handles, Exists
<1>7. OneHandle'
  BY <1>1, <1>3, Distinct DEF Discipline, OneHandle, Mechanics, TypeOK
<1>8. OwnMessages'
  <2>1. /\ \A d \in Conn : d \in armed /\ IsReady(d) =>
              d \in armed' /\ IsReady(d)' /\ fSocketID'[d] = fSocketID[d]
        /\ fSocketID'[c] = h /\ c \in armed'
    BY <1>1, <1>3, <1>6 DEF IsReady, CloseIsDue, Mechanics, TypeOK
  <2>2. PICK d \in Conn : d = c
    BY <1>3
  <2>3. IsReady(d) => IsReady(d)'
    BY <1>1 DEF IsReady, CloseIsDue
  <2>4. \A i \in DOMAIN new : new[i].id \in Conn =>
           /\ i = 1 /\ new[i].id = d /\ new[i].handle = fSocketID'[d]
           /\ d \in armed' /\ IsReady(d)' /\ ~(d \in armed /\ IsReady(d))
    BY <1>5, <1>6, <2>1, <2>2, <2>3
  <2> QED
    BY <1>2, <1>4, <2>1, <2>4, OwnMessagesGrow DEF Discipline, Mechanics, TypeOK
<1>9. Turns'
  <2>1. (\A k : IsPending(k)' <=> IsPending(k)) /\ (\A d : HasPending(d)' <=> HasPending(d))
    BY <1>1, PendingSame DEF poolVars, taskVars
  <2>2. /\ \A d \in Conn : d \in armed' <=> d \in armed \/ d = c
        /\ \A d \in Conn : Open(d)' <=> Open(d) \/ d = c
    BY <1>1, <1>3, <1>6, Distinct DEF Mechanics, TypeOK, Open
  <2>3. fEvent' = fEvent /\ \A d \in Conn : theEvent # d /\ theEvent' # d
    BY <1>1, Distinct DEF taskVars
  <2>4. ~HasPending(c)
    BY <1>6 DEF HasPending
  <2> QED
    BY <2>1, <2>2, <2>3, <2>4 DEF Discipline, Turns
<1>10. References'
  <2>1. \A k \in Task : Exists(k) => fEvent[k] \in Conn
    BY DEF Exists, Mechanics, TypeOK
  <2>2. \A d \in Conn : object[d] = "live" => object'[d] = "live"
    BY <1>1 DEF Mechanics, TypeOK
  <2> QED
    BY <1>1, <2>1, <2>2 DEF Discipline, References, Exists, EventOf, IsDeleting, poolVars, taskVars
<1>11. Lifetime'
  <2>1. \A d \in Conn : object'[d] = IF d = c THEN "live" ELSE object[d]
    BY <1>1 DEF Mechanics, TypeOK
  <2>2. /\ \A d \in Conn : d \in fEventTable' <=> object'[d] = "live"
        /\ \A d \in Conn : peer[d] = "idle" => object'[d] = "unborn"
        /\ \A d \in fConnClosed : object'[d] # "unborn"
    BY <1>1, <1>6, <2>1 DEF Discipline, Lifetime, Mechanics, TypeOK
  <2>3. \A i \in DOMAIN backlog' : peer[backlog'[i]] # "idle" /\ object'[backlog'[i]] = "unborn"
    BY <1>3, <2>1 DEF Discipline, Lifetime
  <2>4. \A i, j \in DOMAIN backlog' : backlog'[i] = backlog'[j] => i = j
    BY <1>3 DEF Discipline, Lifetime
  <2> QED
    BY <1>1, <2>2, <2>3, <2>4 DEF Lifetime
<1>12. Deleter'
  <2>1. \A d \in fConnClosed : object'[d] = object[d]
    BY <1>1, <1>6 DEF Mechanics, TypeOK
  <2> QED
    BY <1>1, <2>1 DEF Discipline, Deleter, Deletes, EventOf, poolVars, taskVars
<1> QED
  BY <1>7, <1>8, <1>9, <1>10, <1>11, <1>12 DEF Discipline

\* The constructor of a session does not change whose turn it is: the event
\* thread still has to signal it.
LEMMA NewSessionDiscipline ==
    ASSUME Mechanics, Discipline, NEW k \in Task, NewSession(k)
    PROVE  Discipline'
<1>1. PICK c \in Conn : c = theEvent
  BY DEF NewSession
<1>2. /\ evPc = "process" /\ fEvent[k] = None
      /\ fEvent' = [fEvent EXCEPT ![k] = c]
      /\ fTaskSet' = [fTaskSet EXCEPT ![c] = @ \cup {k}]
      /\ newTask' = k /\ theEvent' = theEvent
      /\ UNCHANGED <<poolVars, object, fSocketID, fConnClosed, fEventTable, fDeleteEvent, netVars>>
  BY <1>1 DEF NewSession
<1>3. newTask = None /\ ~Exists(k) /\ Open(c)
  BY <1>1, <1>2 DEF Mechanics, EventThreadHolds, Exists, Discipline, Turns
<1>4. /\ \A j \in Task : fEvent'[j] = IF j = k THEN c ELSE fEvent[j]
      /\ \A j \in Task : Exists(j)' <=> Exists(j) \/ j = k
      /\ \A t \in TaskThread : theTask[t] # k
  BY <1>2, <1>3, Distinct DEF Mechanics, TypeOK, Exists, OnePlace
<1>5. \A j \in Task : IsPending(j)' <=> IsPending(j)
  BY <1>2, <1>3, <1>4, Distinct DEF IsPending, poolVars
<1>6. \A d \in Conn : HasPending(d)' <=> HasPending(d)
  <2>1. ~IsPending(k)
    BY <1>3 DEF IsPending
  <2> QED
    BY <1>4, <1>5, <2>1 DEF HasPending
<1>7. Turns'
  <2>1. ~IsPending(k) /\ \A d : Open(d)' <=> Open(d)
    BY <1>2, <1>3 DEF IsPending, Open
  <2>2. UNCHANGED <<armed, theEvent>>
    BY <1>2 DEF netVars
  <2> QED
    BY <1>4, <1>5, <1>6, <2>1, <2>2 DEF Discipline, Turns
<1>8. \A t \in TaskThread : pc[t] # "wait" => EventOf(t)' = EventOf(t)
  BY <1>2, <1>4, TaskOfThread DEF EventOf, poolVars
<1>9. References'
  <2>1. \A t \in TaskThread : IsDeleting(t) =>
          /\ pc[t] # "wait" /\ EventOf(t) \in Conn /\ EventOf(t) # c
    <3> SUFFICES ASSUME NEW t \in TaskThread, IsDeleting(t)
                 PROVE  pc[t] # "wait" /\ EventOf(t) \in Conn /\ EventOf(t) # c
      OBVIOUS
    <3>1. pc[t] # "wait" /\ theTask[t] \in fDeleteEvent
      BY DEF IsDeleting, Mechanics, Closing
    <3>2. EventOf(t) \in fConnClosed
      BY <3>1 DEF EventOf, Mechanics, Closing
    <3> QED
      BY <1>3, <3>1, <3>2, TaskOfThread DEF Open
  <2>2. \A d \in Conn, j \in Task :
          j \in fTaskSet'[d] <=> j \in fTaskSet[d] \/ (j = k /\ d = c)
    BY <1>2 DEF Mechanics, TypeOK
  <2>3. UNCHANGED <<theTask, pc, object>>
    BY <1>2 DEF poolVars
  <2>4. \A d \in Conn, j \in Task :
          j \in fTaskSet'[d] <=> fEvent'[j] = d /\ \A t \in TaskThread : theTask[t] = j => ~IsDeleting(t)
    BY <1>2, <1>4, <2>2, Distinct DEF Discipline, References
  <2>5. \A t \in TaskThread : IsDeleting(t) =>
          \A j \in Task : fEvent'[j] = EventOf(t) => j = theTask[t]
    BY <1>4, <2>1 DEF Discipline, References
  <2>6. \A j \in Task : Exists(j)' => object[fEvent'[j]] = "live"
    BY <1>3, <1>4 DEF Discipline, References, Open
  <2> QED
    BY <1>8, <2>1, <2>3, <2>4, <2>5, <2>6 DEF References, IsDeleting, Exists
<1>10. OneHandle' /\ Lifetime'
  BY <1>2 DEF Discipline, OneHandle, Lifetime, netVars
<1>11. Deleter'
  BY <1>2, <1>8 DEF Discipline, Deleter, Deletes, poolVars
<1>12. OwnMessages'
  BY <1>2, OwnMessagesStay DEF Discipline, netVars, IsReady, CloseIsDue
<1> QED
  BY <1>7, <1>9, <1>10, <1>11, <1>12 DEF Discipline

\* Signal, but for the entry into the queue, passes no turn.
LEMMA PickThreadDiscipline ==
    ASSUME Mechanics, Discipline, PickThread \/ SignalReturns
    PROVE  Discipline'
<1>1. UNCHANGED <<sMutex, pc, theTask, newTask, theEvent, eventVars, taskVars, netVars>>
  BY DEF PickThread, GetThread, SignalReturns, ReadTaskName
<1>2. Turns'
  BY <1>1, PendingSame DEF Discipline, Turns, Open, eventVars, taskVars, netVars
<1>3. OneHandle' /\ References' /\ Lifetime' /\ Deleter'
  BY <1>1 DEF Discipline, OneHandle, References, Lifetime, Deleter, Deletes, IsDeleting, Exists, EventOf,
              eventVars, taskVars, netVars
<1>4. OwnMessages'
  BY <1>1, OwnMessagesStay DEF Discipline, eventVars, netVars, IsReady, CloseIsDue
<1> QED
  BY <1>2, <1>3, <1>4 DEF Discipline

\* The event thread passes its turn to the session it made.
LEMMA EnQueueDiscipline ==
    ASSUME Mechanics, Discipline, EnQueueSession
    PROVE  Discipline'
<1>1. /\ evPc = "enqueue" /\ theEvent' = None /\ newTask' = None
      /\ UNCHANGED <<sMutex, pc, theTask, eventVars, taskVars, netVars>>
  BY DEF EnQueueSession, EnQueue
<1>2. PICK k \in Task : k = newTask
  BY <1>1 DEF Mechanics, TypeOK, EventThreadHolds
<1>3. PICK c \in Conn : c = theEvent
  BY <1>1 DEF Mechanics, EventThreadHolds
<1>4. fEvent[k] = c /\ Exists(k) /\ \A t \in TaskThread : theTask[t] # k
  BY <1>1, <1>2, <1>3, Distinct DEF Mechanics, EventThreadHolds, OnePlace, Exists
<1>5. \A j \in Task : IsPending(j)' <=> IsPending(j) \/ j = k
  BY <1>1, <1>2, <1>4, Distinct DEF IsPending, Exists, taskVars
<1>6. \A d \in Conn : HasPending(d)' <=> HasPending(d) \/ d = c
  BY <1>1, <1>4, <1>5 DEF HasPending, taskVars
<1>7. Turns'
  <2>1. /\ c \notin armed /\ ~HasPending(c) /\ Open(c)
        /\ \A d \in Conn : theEvent = d <=> d = c
    BY <1>3 DEF Discipline, Turns
  <2>2. /\ UNCHANGED <<armed, fEvent>> /\ \A d : Open(d)' <=> Open(d)
        /\ \A d \in Conn : theEvent' # d
    BY <1>1, Distinct DEF netVars, taskVars, eventVars, Open
  <2>3. \A j \in Task : fEvent[j] = c => ~IsPending(j)
    BY <2>1 DEF HasPending
  <2> QED
    BY <1>4, <1>5, <1>6, <2>1, <2>2, <2>3 DEF Discipline, Turns
<1>8. OneHandle' /\ References' /\ Lifetime' /\ Deleter'
  BY <1>1 DEF Discipline, OneHandle, References, Lifetime, Deleter, Deletes, IsDeleting, Exists, EventOf,
              eventVars, taskVars, netVars
<1>9. OwnMessages'
  BY <1>1, OwnMessagesStay DEF Discipline, eventVars, netVars, IsReady, CloseIsDue
<1> QED
  BY <1>7, <1>8, <1>9 DEF Discipline

\* A step of a thread on its way to the deletion of its task.
LEMMA EarlyStep ==
    ASSUME Mechanics, Discipline, NEW t \in TaskThread,
           pc[t] \in {"wait", "lock", "run", "recv"},
           pc'[t] \in {"lock", "run", "recv", "delete"},
           \A u \in TaskThread \ {t} : pc'[u] = pc[u] /\ theTask'[u] = theTask[u],
           pc[t] = "wait" \/ theTask'[t] = theTask[t],
           UNCHANGED <<object, fTaskSet, fEvent>>, fDeleteEvent \subseteq fDeleteEvent'
    PROVE  /\ References'
           /\ \A c \in fConnClosed : object[c] = "live" => \E u \in TaskThread : Deletes(u, c)'
<1>1. \A u \in TaskThread : /\ IsDeleting(u)' <=> IsDeleting(u)
                            /\ IsDeleting(u) => u # t
                            /\ u # t => EventOf(u)' = EventOf(u) /\ theTask'[u] = theTask[u]
  BY DEF IsDeleting, EventOf
<1>2. References'
  <2>1. \A j \in Task : (\A u \in TaskThread : theTask'[u] = j => ~IsDeleting(u)')
                        <=> (\A u \in TaskThread : theTask[u] = j => ~IsDeleting(u))
    BY <1>1
  <2>2. \A u \in TaskThread : IsDeleting(u)' =>
          \A k \in Task : fEvent[k] = EventOf(u)' => k = theTask'[u]
    BY <1>1 DEF Discipline, References
  <2>3. UNCHANGED <<fTaskSet, fEvent, object>>
    OBVIOUS
  <2> QED
    BY <2>1, <2>2, <2>3 DEF Discipline, References, Exists
<1>3. ASSUME NEW c \in fConnClosed, object[c] = "live"
      PROVE  \E u \in TaskThread : Deletes(u, c)'
  <2>1. PICK u \in TaskThread : Deletes(u, c)
    BY <1>3 DEF Discipline, Deleter
  <2>2. u # t
    BY <2>1 DEF Deletes
  <2> QED
    BY <1>1, <2>1, <2>2 DEF Deletes
<1> QED
  BY <1>2, <1>3

\* Taking a task from the queue, taking the mutex and starting to read leave
\* the session pending.
LEMMA StartDiscipline ==
    ASSUME Mechanics, Discipline, NEW t \in TaskThread, StartTask(t) \/ RunRead(t)
    PROVE  Discipline'
<1>1. UNCHANGED <<eventVars, taskVars, evThreadVars, netVars>>
  BY DEF StartTask, RunRead
<1>2. /\ pc[t] \in {"wait", "lock", "run"} /\ pc'[t] \in {"lock", "run", "recv"}
      /\ pc[t] # "wait" => theTask'[t] = theTask[t]
      /\ \A u \in TaskThread \ {t} : pc'[u] = pc[u] /\ theTask'[u] = theTask[u]
  <2>1. CASE WaitForTask(t) \/ LockPool(t)
    BY <2>1 DEF WaitForTask, LockPool, Mechanics, TypeOK
  <2>2. CASE RunRead(t)
    <3>1. pc[t] = "run" /\ Goto(t, "run", IF EventOf(t) \in fConnClosed THEN "delete" ELSE "recv")
      BY <2>2 DEF RunRead
    <3>2. EventOf(t) \notin fConnClosed
      BY <3>1, PendingIsOpen DEF Open
    <3> QED
      BY <3>1, <3>2 DEF Goto, Mechanics, TypeOK
  <2> QED
    BY <2>1, <2>2 DEF StartTask
<1>3. pc[t] = "wait" =>
        theTask[t] = None /\ \A u \in TaskThread : theTask[u] # theTask'[t]
  <2> SUFFICES ASSUME pc[t] = "wait"
               PROVE  theTask[t] = None /\ \A u \in TaskThread : theTask[u] # theTask'[t]
    OBVIOUS
  <2>1. WaitForTask(t)
    BY DEF StartTask, LockPool, RunRead
  <2>2. theTask'[t] = Head(fTaskQueueB[t]) /\ fTaskQueueB[t] \in Seq(Task) /\ fTaskQueueB[t] # << >>
    BY <2>1 DEF WaitForTask, Mechanics, TypeOK
  <2>3. theTask'[t] \in Task /\ InQueue(theTask'[t], t, 1)
    BY <2>2 DEF InQueue
  <2> QED
    BY <2>3 DEF Mechanics, HasTask, OnePlace
<1>4. \A j \in Task : IsPending(j)' <=> IsPending(j)
  <2> TAKE j \in Task
  <2>1. UNCHANGED <<fEvent, newTask>> /\ j # None
    BY <1>1, Distinct DEF taskVars, evThreadVars
  <2>2. (\A u \in TaskThread : theTask'[u] = j => pc'[u] \in {"lock", "run", "recv"})
        <=> (\A u \in TaskThread : theTask[u] = j => pc[u] \in {"lock", "run", "recv"})
    BY <1>2, <1>3, <2>1
  <2> QED
    BY <2>1, <2>2 DEF IsPending, Exists
<1>5. \A d \in Conn : HasPending(d)' <=> HasPending(d)
  BY <1>1, <1>4 DEF HasPending, taskVars
<1>6. Turns'
  BY <1>1, <1>4, <1>5 DEF Discipline, Turns, Open, eventVars, taskVars, evThreadVars, netVars
<1>7. References' /\ Deleter'
  BY <1>1, <1>2, EarlyStep DEF Deleter, eventVars, taskVars
<1>8. OneHandle' /\ Lifetime'
  BY <1>1 DEF Discipline, OneHandle, Lifetime, eventVars, netVars
<1>9. OwnMessages'
  BY <1>1, OwnMessagesStay DEF Discipline, eventVars, netVars, IsReady, CloseIsDue
<1> QED
  BY <1>6, <1>7, <1>8, <1>9 DEF Discipline

\* The session of a thread gives its turn away.
LEMMA LeavesPending ==
    ASSUME Mechanics, Discipline, NEW t \in TaskThread, pc[t] \in {"run", "recv"},
           pc' = [pc EXCEPT ![t] = "delete"], UNCHANGED <<fEvent, newTask, theTask>>
    PROVE  /\ \A j \in Task : IsPending(j)' <=> IsPending(j) /\ j # theTask[t]
           /\ \A d \in Conn : HasPending(d)' <=> HasPending(d) /\ d # EventOf(t)
<1>1. /\ theTask[t] \in Task
      /\ \A k \in Task : fEvent[k] = EventOf(t) /\ IsPending(k) => k = theTask[t]
  BY TaskOfThread, PendingIsOpen
<1>2. \A u \in TaskThread : pc'[u] = IF u = t THEN "delete" ELSE pc[u]
  BY DEF Mechanics, TypeOK
<1>3. \A j \in Task : IsPending(j)' <=> IsPending(j) /\ j # theTask[t]
  <2> TAKE j \in Task
  <2>1. CASE j = theTask[t]
    BY <1>2, <2>1 DEF IsPending
  <2>2. CASE j # theTask[t]
    BY <1>2, <2>2 DEF IsPending, Exists
  <2> QED
    BY <2>1, <2>2
<1>4. \A d \in Conn : HasPending(d)' <=> HasPending(d) /\ d # EventOf(t)
  BY <1>1, <1>3 DEF HasPending, EventOf
<1> QED
  BY <1>3, <1>4

\* The close branch: the connection is nobody's turn from here on.
LEMMA RunCloseDiscipline ==
    ASSUME Mechanics, Discipline, NEW t \in TaskThread, RunClose(t)
    PROVE  Discipline'
<1>1. PICK c : c = EventOf(t)
  OBVIOUS
<1>2. /\ pc[t] = "run" /\ pc' = [pc EXCEPT ![t] = "delete"]
      /\ fConnClosed' = fConnClosed \cup {c} /\ fDeleteEvent' = fDeleteEvent \cup {theTask[t]}
      /\ UNCHANGED <<theTask, object, fSocketID, fTaskSet, fEventTable, fEvent, evThreadVars, netVars>>
  BY <1>1 DEF RunClose, Goto
<1>3. /\ c \in Conn /\ Open(c) /\ HasPending(c) /\ c \notin armed /\ theEvent # c
  BY <1>1, <1>2, PendingIsOpen
<1>4. pc'[t] = "delete" /\ \A u \in TaskThread \ {t} : pc'[u] = pc[u]
  BY <1>2 DEF Mechanics, TypeOK
<1>5. Turns'
  <2>1. /\ \A j \in Task : IsPending(j)' <=> IsPending(j) /\ j # theTask[t]
        /\ \A d \in Conn : HasPending(d)' <=> HasPending(d) /\ d # c
    BY <1>1, <1>2, LeavesPending DEF evThreadVars
  <2>2. UNCHANGED <<armed, fEvent, theEvent>> /\ \A d : Open(d)' <=> Open(d) /\ d # c
    BY <1>2 DEF Open, evThreadVars, netVars
  <2> QED
    BY <1>3, <2>1, <2>2 DEF Discipline, Turns
<1>6. /\ References'
      /\ \A d \in fConnClosed : object[d] = "live" => \E u \in TaskThread : Deletes(u, d)'
  BY <1>2, <1>4, EarlyStep
<1>7. Deleter'
  <2>1. EventOf(t)' = c /\ theTask'[t] \in fDeleteEvent'
    BY <1>1, <1>2 DEF EventOf
  <2>2. Deletes(t, c)'
    BY <1>4, <2>1 DEF Deletes
  <2> QED
    BY <1>2, <1>6, <2>2 DEF Deleter
<1>8. OneHandle' /\ Lifetime'
  BY <1>2, <1>3 DEF Discipline, OneHandle, Lifetime, Open, netVars
<1>9. OwnMessages'
  BY <1>2, OwnMessagesStay DEF Discipline, netVars, IsReady, CloseIsDue
<1> QED
  BY <1>5, <1>6, <1>7, <1>8, <1>9 DEF Discipline

\* What is read belongs to a connection whose socket is off.
LEMMA RecvDiscipline ==
    ASSUME Mechanics, Discipline, NEW t \in TaskThread, Recv(t)
    PROVE  Discipline'
<1>1. PICK c : c = EventOf(t)
  OBVIOUS
<1>2. /\ pc[t] = "recv" /\ unread' = unread \ {c}
      /\ UNCHANGED <<poolVars, eventVars, taskVars, evThreadVars, msgs, armed, backlog, peer>>
  BY <1>1 DEF Recv
<1>3. c \notin armed
  BY <1>1, <1>2, PendingIsOpen
<1>4. OwnMessages'
  <2>1. \A d \in armed : IsReady(d) => IsReady(d)'
    BY <1>2, <1>3 DEF IsReady, CloseIsDue
  <2> QED
    BY <1>2, <2>1, OwnMessagesStay DEF Discipline, eventVars
<1>5. OneHandle' /\ References' /\ Lifetime' /\ Deleter'
  BY <1>2 DEF Discipline, OneHandle, References, Lifetime, Deleter, Deletes, IsDeleting, Exists,
              EventOf, poolVars, eventVars, taskVars
<1>6. Turns'
  BY <1>2, PendingSame DEF Discipline, Turns, Open, poolVars, eventVars, taskVars, evThreadVars
<1> QED
  BY <1>4, <1>5, <1>6 DEF Discipline

\* The end of the receive loop passes the turn to Winsock.
LEMMA RecvFailsDiscipline ==
    ASSUME Mechanics, Discipline, NEW t \in TaskThread, RecvFails(t)
    PROVE  Discipline'
<1>1. PICK c \in Conn : c = EventOf(t)
  BY PendingIsOpen DEF RecvFails, Goto
<1>2. /\ pc[t] = "recv" /\ pc' = [pc EXCEPT ![t] = "delete"] /\ UNCHANGED theTask
      /\ armed' = armed \cup {c} /\ msgs' = msgs \o DueMessages(c, fSocketID[c])
      /\ UNCHANGED <<eventVars, taskVars, evThreadVars, backlog, peer, unread>>
  BY <1>1 DEF RecvFails, RequestEvent, Goto
<1>3. Open(c) /\ HasPending(c) /\ c \notin armed /\ theEvent # c
  BY <1>1, <1>2, PendingIsOpen
<1>4. pc'[t] = "delete" /\ \A u \in TaskThread \ {t} : pc'[u] = pc[u]
  BY <1>2 DEF Mechanics, TypeOK
<1>5. Turns'
  <2>1. /\ \A j \in Task : IsPending(j)' <=> IsPending(j) /\ j # theTask[t]
        /\ \A d \in Conn : HasPending(d)' <=> HasPending(d) /\ d # c
    BY <1>1, <1>2, LeavesPending DEF evThreadVars, taskVars
  <2>2. UNCHANGED <<fEvent, theEvent>> /\ \A d : Open(d)' <=> Open(d)
    BY <1>2 DEF Open, evThreadVars, eventVars, taskVars
  <2> QED
    BY <1>2, <1>3, <2>1, <2>2 DEF Discipline, Turns
<1>6. References' /\ Deleter'
  BY <1>2, <1>4, EarlyStep DEF Deleter, eventVars, taskVars
<1>7. OneHandle' /\ Lifetime'
  BY <1>2 DEF Discipline, OneHandle, Lifetime, eventVars
<1>8. OwnMessages'
  <2> DEFINE new == DueMessages(c, fSocketID[c])
  <2>1. fSocketID[c] \in Handle
    BY <1>3 DEF Mechanics, TypeOK, Handles, Open
  <2>2. new \in Seq(MessageSet)
    BY <2>1, DueMessagesType
  <2>3. \A i \in DOMAIN new : i = 1 /\ new[i].id = c /\ new[i].handle = fSocketID[c] /\ IsReady(c)
    BY DueMessagesOwn
  <2>4. msgs' = msgs \o new /\ msgs \in Seq(MessageSet)
    BY <1>2 DEF Mechanics, TypeOK
  <2>5. UNCHANGED fSocketID /\ c \in armed' /\ \A d : IsReady(d)' <=> IsReady(d)
    BY <1>2 DEF IsReady, CloseIsDue, eventVars
  <2> HIDE DEF new
  <2>6. \A d \in Conn : d \in armed /\ IsReady(d) =>
           d \in armed' /\ IsReady(d)' /\ fSocketID'[d] = fSocketID[d]
    BY <1>2, <2>5
  <2>7. \A i \in DOMAIN new : new[i].id \in Conn =>
           /\ i = 1 /\ new[i].id = c /\ new[i].handle = fSocketID'[c]
           /\ c \in armed' /\ IsReady(c)' /\ ~(c \in armed /\ IsReady(c))
    BY <1>3, <2>3, <2>5
  <2> QED
    BY <2>2, <2>4, <2>6, <2>7, OwnMessagesGrow DEF Discipline
<1> QED
  BY <1>5, <1>6, <1>7, <1>8 DEF Discipline

\* The others do nothing while a thread holds the mutex.
LEMMA OnlyHolder ==
    ASSUME Mechanics, NEW t \in TaskThread, pc[t] \in {"run", "recv", "delete", "close", "unregister"},
           NEW u \in TaskThread, u # t
    PROVE  pc[u] \in {"wait", "lock"}
  BY DEF Mechanics, TypeOK, LockHeld

\* A thread that deletes a task of a closed connection deletes its only task:
\* another one would be new, pending or with a second holder of the mutex.
LEMMA ClosedHasOne ==
    ASSUME Mechanics, Discipline, NEW t \in TaskThread, pc[t] \in {"delete", "close", "unregister"},
           EventOf(t) \in fConnClosed,
           NEW j \in Task, fEvent[j] = EventOf(t)
    PROVE  j = theTask[t]
<1>1. PICK c \in Conn : c = EventOf(t)
  BY TaskOfThread
<1>2. ~HasPending(c) /\ theEvent # c
  BY <1>1 DEF Discipline, Turns, Open
<1>3. Exists(j) /\ ~IsPending(j)
  BY <1>1, <1>2, Distinct DEF HasPending, Exists
<1>4. j # newTask
  <2>1. newTask # None => evPc \in {"signal", "enqueue"} /\ fEvent[newTask] = theEvent
    BY DEF Mechanics, EventThreadHolds
  <2> QED
    BY <1>1, <1>2, <2>1, Distinct
<1>5. PICK u \in TaskThread : theTask[u] = j /\ pc[u] \notin {"lock", "run", "recv"}
  BY <1>3, <1>4 DEF IsPending
<1>6. pc[u] # "wait"
  BY <1>5, Distinct DEF Mechanics, HasTask
<1> QED
  BY <1>5, <1>6, OnlyHolder

\* ~Task of the last task, and ~TCPSocket.
LEMMA DeletingDiscipline ==
    ASSUME Mechanics, Discipline, NEW t \in TaskThread,
           \/ /\ DeleteTask(t) /\ Goto(t, "delete", "close") /\ UNCHANGED taskVars
              /\ IsLastTask(theTask[t], fTaskSet[EventOf(t)] \ {theTask[t]})
           \/ CloseSocket(t)
    PROVE  Discipline'
<1>1. pc[t] \in {"delete", "close"}
  BY DEF CloseSocket, Goto
<1>2. PICK c \in Conn, k \in Task : c = EventOf(t) /\ k = theTask[t] /\ fEvent[k] = c
  BY <1>1, TaskOfThread DEF EventOf
<1>3. k \in fDeleteEvent /\ c \in fConnClosed
  <2>1. k \in fDeleteEvent
    BY <1>2 DEF IsLastTask, CloseSocket, Goto, Mechanics, Closing
  <2> QED
    BY <1>2, <2>1 DEF Mechanics, Closing
<1>4. /\ pc'[t] \in {"close", "unregister"} /\ \A u \in TaskThread \ {t} : pc'[u] = pc[u]
      /\ UNCHANGED <<theTask, object, fConnClosed, fEventTable, taskVars, evThreadVars, msgs, backlog,
                     peer, unread>>
  BY DEF DeleteTask, CloseSocket, Goto, netVars, Mechanics, TypeOK
<1>5. c \notin armed /\ theEvent # c /\ ~HasPending(c)
  BY <1>3 DEF Discipline, Turns, Open
<1>6. armed' = armed /\ \A d \in Conn : d # c => fSocketID'[d] = fSocketID[d]
  <2>1. CASE DeleteTask(t)
    BY <2>1 DEF DeleteTask, netVars
  <2>2. CASE CloseSocket(t)
    BY <1>2, <1>5, <2>2 DEF CloseSocket, Mechanics, TypeOK
  <2> QED
    BY <2>1, <2>2
<1>7. /\ \A j \in Task : IsPending(j)' <=> IsPending(j)
      /\ \A d \in Conn : HasPending(d)' <=> HasPending(d)
  <2>1. \A j \in Task : IsPending(j)' <=> IsPending(j)
    <3> TAKE j \in Task
    <3>1. UNCHANGED <<theTask, fEvent, newTask>>
      BY <1>4 DEF taskVars, evThreadVars
    <3>2. \A u \in TaskThread : pc'[u] \in {"lock", "run", "recv"} <=> pc[u] \in {"lock", "run", "recv"}
      BY <1>1, <1>4
    <3> QED
      BY <3>1, <3>2 DEF IsPending, Exists
  <2> QED
    BY <1>4, <2>1 DEF HasPending, taskVars
<1>8. Turns'
  BY <1>4, <1>6, <1>7 DEF Discipline, Turns, Open, taskVars, evThreadVars
<1>9. OneHandle'
  <2>1. fSocketID'[c] = fSocketID[c] \/ fSocketID'[c] = None
    BY <1>2 DEF DeleteTask, CloseSocket, Mechanics, TypeOK
  <2> QED
    BY <1>6, <2>1 DEF Discipline, OneHandle
<1>10. OwnMessages'
  <2>1. \A d \in Conn : d \in armed /\ IsReady(d) =>
           d \in armed' /\ IsReady(d)' /\ fSocketID'[d] = fSocketID[d]
    BY <1>4, <1>5, <1>6 DEF IsReady, CloseIsDue
  <2> QED
    BY <1>4, <2>1, OwnMessagesStay DEF Discipline
<1>11. Lifetime'
  BY <1>4 DEF Discipline, Lifetime
<1>12. Deleter'
  BY <1>1, <1>4 DEF Discipline, Deleter, Deletes, EventOf, taskVars
<1>13. /\ \A j \in Task : fEvent[j] = c => j = k
       /\ \A u \in TaskThread : IsDeleting(u)' <=> u = t
       /\ \A u \in TaskThread : IsDeleting(u) => u = t
       /\ \A u \in TaskThread : theTask[u] = k <=> u = t
  <2>1. \A j \in Task : fEvent[j] = c => j = k
    BY <1>1, <1>2, <1>3, ClosedHasOne
  <2>2. \A u \in TaskThread : u # t => pc[u] \in {"wait", "lock"}
    BY <1>1, OnlyHolder
  <2>3. \A u \in TaskThread : theTask[u] = k <=> u = t
    BY <1>2 DEF Mechanics, OnePlace
  <2> QED
    BY <1>4, <2>1, <2>2, <2>3 DEF IsDeleting
<1>14. References'
  <2>1. \A d \in Conn, j \in Task : j \in fTaskSet'[d] <=> j \in fTaskSet[d] /\ j # k
    <3>1. \A d \in Conn : d # c => k \notin fTaskSet[d]
      BY <1>2 DEF Discipline, References
    <3>2. CASE DeleteTask(t)
      BY <1>2, <3>1, <3>2 DEF DeleteTask, Mechanics, TypeOK
    <3>3. CASE CloseSocket(t)
      <4>1. IsDeleting(t)
        BY <3>3 DEF CloseSocket, Goto, IsDeleting
      <4>2. \A d \in Conn : k \notin fTaskSet[d]
        BY <1>2, <4>1 DEF Discipline, References
      <4> QED
        BY <3>3, <4>2 DEF CloseSocket
    <3> QED
      BY <3>2, <3>3
  <2>2. UNCHANGED <<fEvent, object, theTask>>
    BY <1>4 DEF taskVars
  <2>3. \A d \in Conn, j \in Task :
          j \in fTaskSet'[d] <=> fEvent[j] = d /\ \A u \in TaskThread : theTask[u] = j => ~IsDeleting(u)'
    <3> TAKE d \in Conn, j \in Task
    <3>1. CASE j = k
      BY <1>2, <1>13, <2>1, <3>1
    <3>2. CASE j # k
      BY <1>2, <1>13, <2>1, <3>2 DEF Discipline, References
    <3> QED
      BY <3>1, <3>2
  <2>4. \A u \in TaskThread : IsDeleting(u)' => \A j \in Task : fEvent[j] = EventOf(u)' => j = theTask[u]
    <3>1. EventOf(t)' = c
      BY <1>2, <2>2 DEF EventOf
    <3> QED
      BY <1>2, <1>13, <3>1
  <2> QED
    BY <2>2, <2>3, <2>4 DEF Discipline, References, Exists
<1> QED
  BY <1>8, <1>9, <1>10, <1>11, <1>12, <1>14 DEF Discipline

\* ~Task of a task that is not the last, and the end of ~Event.
LEMMA FinishDiscipline ==
    ASSUME Mechanics, Discipline, NEW t \in TaskThread,
           \/ /\ DeleteTask(t) /\ FinishTask(t, "delete") /\ Forget(theTask[t])
              /\ ~IsLastTask(theTask[t], fTaskSet[EventOf(t)] \ {theTask[t]})
           \/ FreeEvent(t)
    PROVE  Discipline'
<1>1. pc[t] \in {"delete", "unregister"}
  BY DEF FreeEvent, FinishTask
<1>2. PICK c \in Conn, k \in Task : c = EventOf(t) /\ k = theTask[t] /\ fEvent[k] = c
  BY <1>1, TaskOfThread DEF EventOf
<1>3. /\ pc' = [pc EXCEPT ![t] = "wait"] /\ theTask' = [theTask EXCEPT ![t] = None]
      /\ fEvent' = [fEvent EXCEPT ![k] = None] /\ fDeleteEvent' = fDeleteEvent \ {k}
      /\ UNCHANGED <<fSocketID, fConnClosed, evThreadVars, netVars>>
  BY <1>2 DEF DeleteTask, FreeEvent, FinishTask, Forget
<1>4. /\ \A u \in TaskThread : pc'[u] = IF u = t THEN "wait" ELSE pc[u]
      /\ \A u \in TaskThread : theTask'[u] = IF u = t THEN None ELSE theTask[u]
      /\ \A u \in TaskThread : theTask[u] = k <=> u = t
      /\ \A j \in Task : fEvent'[j] = IF j = k THEN None ELSE fEvent[j]
      /\ \A j \in Task : Exists(j)' <=> Exists(j) /\ j # k
      /\ \A u \in TaskThread : u # t => pc[u] \in {"wait", "lock"}
  <2>1. \A j \in Task : fEvent'[j] = IF j = k THEN None ELSE fEvent[j]
    BY <1>2, <1>3 DEF Mechanics, TypeOK
  <2>2. \A u \in TaskThread : theTask[u] = k <=> u = t
    BY <1>2 DEF Mechanics, OnePlace
  <2>3. \A u \in TaskThread : u # t => pc[u] \in {"wait", "lock"}
    BY <1>1, OnlyHolder
  <2> QED
    BY <1>3, <2>1, <2>2, <2>3 DEF Mechanics, TypeOK, Exists
<1>5. FreeEvent(t) => /\ pc[t] = "unregister" /\ c \in fConnClosed
                      /\ \A j \in Task : fEvent[j] = c => j = k
                      /\ \A d \in Conn : k \notin fTaskSet[d]
  <2> SUFFICES ASSUME FreeEvent(t)
               PROVE  /\ pc[t] = "unregister" /\ c \in fConnClosed
                      /\ \A j \in Task : fEvent[j] = c => j = k
                      /\ \A d \in Conn : k \notin fTaskSet[d]
    OBVIOUS
  <2>1. pc[t] = "unregister"
    BY DEF FreeEvent, FinishTask
  <2>2. c \in fConnClosed
    BY <1>2, <2>1 DEF Mechanics, Closing
  <2>3. IsDeleting(t)
    BY <2>1 DEF IsDeleting
  <2> QED
    BY <1>2, <2>1, <2>2, <2>3 DEF Discipline, References
<1>6. /\ \A d \in Conn : d # c => object'[d] = object[d] /\ (d \in fEventTable' <=> d \in fEventTable)
      /\ c \notin fConnClosed => object' = object /\ fEventTable' = fEventTable
      /\ object[c] = "live" /\ object'[c] \in {"live", "freed"}
      /\ c \in fEventTable' <=> object'[c] = "live"
  <2>1. object[c] = "live" /\ c \in fEventTable
    BY <1>2, Distinct DEF Discipline, References, Lifetime, Exists
  <2>2. CASE DeleteTask(t)
    BY <2>1, <2>2 DEF DeleteTask
  <2>3. CASE FreeEvent(t)
    BY <1>2, <1>5, <2>1, <2>3 DEF FreeEvent, Mechanics, TypeOK
  <2> QED
    BY <2>2, <2>3
<1>7. OneHandle'
  BY <1>3 DEF Discipline, OneHandle
<1>8. OwnMessages'
  BY <1>3, OwnMessagesStay DEF Discipline, netVars, IsReady, CloseIsDue
<1>9. Turns'
  <2>1. \A j \in Task : IsPending(j)' <=> IsPending(j)
    <3>1. ~IsPending(k) /\ ~IsPending(k)'
      BY <1>1, <1>2, <1>4 DEF IsPending
    <3>2. \A j \in Task, u \in TaskThread : j # k =>
             /\ theTask'[u] = j <=> theTask[u] = j
             /\ theTask[u] = j => pc'[u] = pc[u]
      BY <1>2, <1>4, Distinct
    <3>3. newTask' = newTask
      BY <1>3 DEF evThreadVars
    <3>4. \A j \in Task : j # k => (IsPending(j)' <=> IsPending(j))
      BY <1>4, <3>2, <3>3 DEF IsPending
    <3> QED
      BY <3>1, <3>4
  <2>2. ~IsPending(k)
    BY <1>1, <1>2 DEF IsPending
  <2>3. \A d \in Conn : HasPending(d)' <=> HasPending(d)
    BY <1>4, <2>1, <2>2 DEF HasPending
  <2>4. \A d \in Conn : Open(d)' <=> Open(d)
    BY <1>3, <1>6 DEF Open
  <2>5. UNCHANGED <<armed, theEvent>>
    BY <1>3 DEF netVars, evThreadVars
  <2> QED
    BY <1>4, <2>1, <2>2, <2>3, <2>4, <2>5 DEF Discipline, Turns
<1>10. References'
  <2>1. \A d \in Conn, j \in Task : j \in fTaskSet'[d] <=> j \in fTaskSet[d] /\ j # k
    <3>1. CASE DeleteTask(t)
      <4>1. \A d \in Conn : d # c => k \notin fTaskSet[d]
        BY <1>2 DEF Discipline, References
      <4> QED
        BY <1>2, <3>1, <4>1 DEF DeleteTask, Mechanics, TypeOK
    <3>2. CASE FreeEvent(t)
      BY <1>5, <3>2 DEF FreeEvent
    <3> QED
      BY <3>1, <3>2
  <2>2. \A u \in TaskThread : ~IsDeleting(u)'
    BY <1>4 DEF IsDeleting
  <2>3. \A j \in Task : j # k => \A u \in TaskThread : theTask[u] = j => ~IsDeleting(u)
    BY <1>2, <1>4 DEF IsDeleting
  <2>4. \A d \in Conn, j \in Task : j \in fTaskSet'[d] <=> fEvent'[j] = d
    <3> TAKE d \in Conn, j \in Task
    <3>1. CASE j = k
      BY <1>4, <2>1, <3>1, Distinct
    <3>2. CASE j # k
      BY <1>4, <2>1, <2>3, <3>2 DEF Discipline, References
    <3> QED
      BY <3>1, <3>2
  <2>5. \A j \in Task : Exists(j)' => object'[fEvent'[j]] = "live"
    <3> SUFFICES ASSUME NEW j \in Task, Exists(j), j # k
                 PROVE  object'[fEvent[j]] = "live"
      BY <1>4
    <3>1. fEvent[j] \in Conn /\ object[fEvent[j]] = "live"
      BY DEF Exists, Mechanics, TypeOK, Discipline, References
    <3>2. CASE DeleteTask(t)
      BY <3>1, <3>2 DEF DeleteTask
    <3>3. CASE FreeEvent(t)
      BY <1>5, <1>6, <3>1, <3>3
    <3> QED
      BY <3>2, <3>3
  <2> QED
    BY <2>2, <2>4, <2>5 DEF References
<1>11. Lifetime'
  <2>1. /\ \A d \in Conn : d \in fEventTable' <=> object'[d] = "live"
        /\ \A d \in Conn : object'[d] = "unborn" <=> object[d] = "unborn"
    BY <1>6 DEF Discipline, Lifetime
  <2>2. UNCHANGED <<peer, backlog, fConnClosed>> /\ \A i \in DOMAIN backlog : backlog[i] \in Conn
    BY <1>3 DEF netVars, Mechanics, TypeOK
  <2> QED
    BY <2>1, <2>2 DEF Discipline, Lifetime, Mechanics, TypeOK
<1>12. Deleter'
  <2> SUFFICES ASSUME NEW d \in fConnClosed, object'[d] = "live" PROVE FALSE
    BY <1>3 DEF Deleter
  <2>1. d \in Conn /\ object[d] = "live"
    BY <1>6 DEF Mechanics, TypeOK
  <2>2. PICK u \in TaskThread : Deletes(u, d)
    BY <2>1 DEF Discipline, Deleter
  <2>3. u = t /\ d = c /\ k \in fDeleteEvent
    BY <1>2, <1>4, <2>2 DEF Deletes
  <2>4. CASE DeleteTask(t) /\ ~IsLastTask(k, fTaskSet[c] \ {k})
    <3>1. PICK j \in Task : j # k /\ j \in fTaskSet[c]
      BY <2>3, <2>4 DEF IsLastTask, Mechanics, TypeOK
    <3>2. fEvent[j] = c
      BY <3>1 DEF Discipline, References
    <3> QED
      BY <1>1, <1>2, <2>3, <3>1, <3>2, ClosedHasOne
  <2>5. CASE FreeEvent(t)
    BY <1>2, <2>3, <2>5 DEF FreeEvent, Mechanics, TypeOK
  <2> QED
    BY <1>2, <2>4, <2>5
<1> QED
  BY <1>7, <1>8, <1>9, <1>10, <1>11, <1>12 DEF Discipline

LEMMA NextDiscipline ==
    ASSUME ~AbruptReset, Mechanics, Discipline, [Next]_vars
    PROVE  Discipline'
<1>1. ASSUME NEW c \in Conn, Peer(c) PROVE Discipline'
  BY <1>1, PeerDiscipline
<1>2. CASE EventThread
  BY <1>2, WaitEventDiscipline, LookUpDiscipline, AcceptClientDiscipline, NewSessionDiscipline,
     PickThreadDiscipline, EnQueueDiscipline
  DEF EventThread
<1>3. ASSUME NEW t \in TaskThread, RunTask(t) PROVE Discipline'
  <2>1. CASE StartTask(t) \/ RunRead(t)
    BY <2>1, StartDiscipline
  <2>2. CASE RunClose(t) \/ Recv(t) \/ RecvFails(t)
    BY <2>2, RunCloseDiscipline, RecvDiscipline, RecvFailsDiscipline
  <2>3. CASE DeleteTask(t)
    BY <2>3, DeletingDiscipline, FinishDiscipline DEF DeleteTask
  <2>4. CASE CloseSocket(t) \/ FreeEvent(t)
    BY <2>4, DeletingDiscipline, FinishDiscipline
  <2> QED
    BY <1>3, <2>1, <2>2, <2>3, <2>4 DEF RunTask
<1>4. CASE UNCHANGED vars
  <2>1. UNCHANGED <<poolVars, eventVars, taskVars, evThreadVars, netVars>>
    BY <1>4 DEF vars
  <2>2. OneHandle' /\ References' /\ Lifetime' /\ Deleter'
    BY <2>1 DEF Discipline, OneHandle, References, Lifetime, Deleter, Deletes, IsDeleting, Exists,
                EventOf, poolVars, eventVars, taskVars, netVars
  <2>3. Turns'
    BY <2>1, PendingSame DEF Discipline, Turns, Open, poolVars, eventVars, taskVars, evThreadVars, netVars
  <2>4. OwnMessages'
    BY <2>1, OwnMessagesStay DEF Discipline, IsReady, CloseIsDue, eventVars, netVars
  <2> QED
    BY <2>2, <2>3, <2>4 DEF Discipline
<1> QED
  BY <1>1, <1>2, <1>3, <1>4 DEF Next

LEMMA AlwaysDiscipline ==
    ASSUME ~AbruptReset
    PROVE  Spec => [](Mechanics /\ Discipline)
<1>1. Init => Mechanics /\ Discipline
  BY InitMechanics, InitDiscipline
<1>2. Mechanics /\ Discipline /\ [Next]_vars => (Mechanics /\ Discipline)'
  BY NextMechanics, NextDiscipline
<1> QED
  BY <1>1, <1>2, PTL DEF Spec

-----------------------------------------------------------------------------
\* As long as no peer resets while data it sent is unread, a connection that is
\* not closed is at every moment the business of exactly one of Winsock, the
\* event thread and the sessions, and of none once it is closed
\* (EventThread::Entry, TCPSession::Run): no two sessions read one socket, and
\* no open connection is left that nobody looks at.
THEOREM AlwaysOneTurn ==
    ASSUME ~AbruptReset
    PROVE  Spec => []OneTurn
<1>1. Mechanics /\ Discipline => OneTurn
  <2> SUFFICES ASSUME Mechanics, Discipline, NEW c \in Conn, object[c] = "live"
               PROVE  Cardinality(TurnHolders(c)) = IF c \in fConnClosed THEN 0 ELSE 1
    BY DEF OneTurn
  <2> DEFINE winsock == IF c \in armed THEN {<<"winsock", 0>>} ELSE {}
             event == IF theEvent = c THEN {<<"event thread", 0>>} ELSE {}
             sessions == {<<"session", k>> : k \in {j \in Task : fEvent[j] = c /\ IsPending(j)}}
  <2>1. TurnHolders(c) = winsock \cup event \cup sessions
    BY DEF TurnHolders
  <2>2. ~HasPending(c) => sessions = {}
    BY DEF HasPending
  <2>3. HasPending(c) => \E k \in Task : sessions = {<<"session", k>>}
    <3> SUFFICES ASSUME HasPending(c) PROVE \E k \in Task : sessions = {<<"session", k>>}
      OBVIOUS
    <3>1. PICK k \in Task : fEvent[k] = c /\ IsPending(k)
      BY DEF HasPending
    <3>2. {j \in Task : fEvent[j] = c /\ IsPending(j)} = {k}
      BY <3>1 DEF Discipline, Turns
    <3> QED
      BY <3>2
  <2> HIDE DEF sessions
  <2>4. CASE c \in fConnClosed
    <3>1. TurnHolders(c) = {}
      BY <2>1, <2>2, <2>4 DEF Discipline, Turns, Open
    <3> QED
      BY <2>4, <3>1, FS_EmptySet
  <2>5. CASE c \notin fConnClosed
    <3>1. c \in armed \/ theEvent = c \/ HasPending(c)
      BY <2>5 DEF Discipline, Turns, Open
    <3>2. \E x : TurnHolders(c) = {x}
      <4>1. CASE c \in armed
        BY <2>1, <2>2, <4>1 DEF Discipline, Turns
      <4>2. CASE theEvent = c
        BY <2>1, <2>2, <4>2 DEF Discipline, Turns
      <4>3. CASE HasPending(c)
        BY <2>1, <2>3, <4>3 DEF Discipline, Turns
      <4> QED
        BY <3>1, <4>1, <4>2, <4>3
    <3> QED
      BY <2>5, <3>2, FS_Singleton
  <2> QED
    BY <2>4, <2>5
<1> QED
  BY <1>1, AlwaysDiscipline, PTL

\* Under the same condition neither the event thread nor a session ever holds a
\* TCPSocket that is deleted (EventThread::Entry looks the Event up under the
\* mutex, but calls it after the mutex is released).
THEOREM NeverUsedAfterFree ==
    ASSUME ~AbruptReset
    PROVE  Spec => []NoUseAfterFree
<1>1. Discipline => NoUseAfterFree
  BY DEF Discipline, Turns, Open, References, NoUseAfterFree
<1> QED
  BY <1>1, AlwaysDiscipline, PTL

\* Under the same condition a closed TCPSocket is deleted or has a task that
\* will delete it (SetDeleteEventWhenAllRefTasksFinished).  With a reset that
\* drops unread data this fails.
THEOREM ClosedIsDeleted ==
    ASSUME ~AbruptReset
    PROVE  Spec => []DeletedWhenAllRefTasksFinished
<1>1. Mechanics /\ Discipline => DeletedWhenAllRefTasksFinished
  <2> SUFFICES ASSUME Mechanics, Discipline, NEW c \in fConnClosed, object[c] = "live"
               PROVE  \E k \in Task : fEvent[k] = c
    BY DEF DeletedWhenAllRefTasksFinished
  <2>1. PICK t \in TaskThread : pc[t] # "wait" /\ EventOf(t) = c
    BY DEF Discipline, Deleter, Deletes
  <2> QED
    BY <2>1, TaskOfThread DEF EventOf
<1> QED
  BY <1>1, AlwaysDiscipline, PTL

\* Under the same condition select_waitevent switches off only the socket whose
\* message it takes, though it finds the socket by a handle that may have been
\* closed and given to another connection.
THEOREM SwitchedOff ==
    ASSUME ~AbruptReset
    PROVE  Spec => SwitchedOffByOwnMessage
<1>1. ASSUME Mechanics, Discipline, [Next]_vars, NEW c \in Conn, c \in armed, c \notin armed'
      PROVE  theEvent' = c /\ evPc' = "lookup"
  <2>1. CASE WaitEvent
    <3>1. /\ msgs # << >> /\ theEvent' = Head(msgs).id /\ evPc' = "lookup"
          /\ c \in SocketsOf(Head(msgs).handle)
      BY <1>1, <2>1 DEF WaitEvent, Disarm
    <3>2. c # Listener
      BY Distinct
    <3> QED
      BY <1>1, <3>1, <3>2, OwnHandle
  <2>2. ASSUME NEW t \in TaskThread, CloseSocket(t) PROVE FALSE
    <3>1. c = EventOf(t) /\ pc[t] = "close"
      BY <1>1, <2>2 DEF CloseSocket, Goto
    <3>2. c \in fConnClosed
      BY <1>1, <3>1 DEF Mechanics, Closing, EventOf
    <3> QED
      BY <1>1, <3>2 DEF Discipline, Turns, Open
  <2>3. ASSUME NEW d \in Conn, Peer(d) PROVE FALSE
    BY <1>1, <2>3 DEF Peer, PeerConnects, PeerSends, PeerCloses, PeerResets, PeerRejects
  <2>4. CASE EventThread /\ ~WaitEvent
    BY <1>1, <2>4 DEF EventThread, LookUp, PickThread, EnQueueSession, SignalReturns, AcceptClient,
                      NewSession, netVars
  <2>5. ASSUME NEW t \in TaskThread, RunTask(t), ~CloseSocket(t) PROVE FALSE
    BY <1>1, <2>5
    DEF RunTask, StartTask, RunClose, RunRead, Recv, RecvFails, RequestEvent, DeleteTask, FreeEvent,
        netVars
  <2>6. CASE UNCHANGED vars
    BY <1>1, <2>6 DEF vars, netVars
  <2> QED
    BY <1>1, <2>1, <2>2, <2>3, <2>4, <2>5, <2>6 DEF Next
<1>2. Mechanics /\ Discipline /\ [Next]_vars =>
        [\A c \in Conn : c \in armed /\ c \notin armed' => theEvent' = c /\ evPc' = "lookup"]_vars
  BY <1>1
<1> QED
  BY <1>2, AlwaysDiscipline, PTL DEF Spec, SwitchedOffByOwnMessage

-----------------------------------------------------------------------------
(* The refinement of TcpServer.  A close is reported, handed to a session  *)
(* and carried out only when it is due, and it stays due.                  *)

Reasons ==
    /\ \A i \in DOMAIN msgs, c \in Conn : msgs[i].id = c /\ msgs[i].bits = "close" => CloseIsDue(c)
    /\ \A c \in Conn : theEvent = c /\ theBits = "close" => CloseIsDue(c)
    /\ \A k \in Task, c \in Conn : fEvent[k] = c /\ fEventFlags[k] = "close" => CloseIsDue(c)

LEMMA CloseStaysDue ==
    ASSUME Mechanics, [Next]_vars, NEW c \in Conn, CloseIsDue(c)
    PROVE  CloseIsDue(c)'
<1>1. ASSUME NEW d \in Conn, Peer(d) PROVE CloseIsDue(c)'
  BY <1>1 DEF Peer, PeerConnects, PeerSends, PeerCloses, PeerResets, PeerRejects, Mechanics, TypeOK,
              CloseIsDue
<1>2. CASE EventThread
  BY <1>2 DEF EventThread, WaitEvent, LookUp, AcceptClient, NewSession, PickThread, EnQueueSession,
              SignalReturns, netVars, CloseIsDue
<1>3. ASSUME NEW t \in TaskThread, RunTask(t) PROVE CloseIsDue(c)'
  BY <1>3 DEF RunTask, StartTask, RunClose, RunRead, Recv, RecvFails, DeleteTask, CloseSocket,
              FreeEvent, netVars, CloseIsDue
<1>4. CASE UNCHANGED vars
  BY <1>4 DEF vars, netVars, CloseIsDue
<1> QED
  BY <1>1, <1>2, <1>3, <1>4 DEF Next

\* What select_modwatch reports as closed is.
LEMMA DueMessagesReason ==
    ASSUME NEW c \in Conn, NEW h, NEW i \in DOMAIN DueMessages(c, h),
           DueMessages(c, h)[i].bits = "close"
    PROVE  DueMessages(c, h)[i].id = c /\ CloseIsDue(c)
<1>1. CASE CloseIsDue(c)
  BY <1>1, DueMessagesOwn
<1>2. CASE ~CloseIsDue(c)
  BY <1>2 DEF DueMessages
<1> QED
  BY <1>1, <1>2

\* Messages are added, each with its reason.
LEMMA ReasonsGrow ==
    ASSUME Mechanics, Reasons, [Next]_vars, NEW new \in Seq(MessageSet), msgs' = msgs \o new,
           \A i \in DOMAIN new, c \in Conn : new[i].id = c /\ new[i].bits = "close" => CloseIsDue(c)'
    PROVE  \A i \in DOMAIN msgs', c \in Conn :
               msgs'[i].id = c /\ msgs'[i].bits = "close" => CloseIsDue(c)'
<1>1. msgs \in Seq(MessageSet)
  BY DEF Mechanics, TypeOK
<1>2. \A i \in DOMAIN msgs' : \/ i \in DOMAIN msgs /\ msgs'[i] = msgs[i]
                              \/ \E j \in DOMAIN new : msgs'[i] = new[j]
  BY <1>1
<1> QED
  BY <1>2, CloseStaysDue DEF Reasons

\* The messages of every step.
LEMMA MessagesReason ==
    ASSUME Mechanics, Reasons, [Next]_vars
    PROVE  \A i \in DOMAIN msgs', c \in Conn :
               msgs'[i].id = c /\ msgs'[i].bits = "close" => CloseIsDue(c)'
<1> DEFINE R == \A i \in DOMAIN msgs', c \in Conn :
                    msgs'[i].id = c /\ msgs'[i].bits = "close" => CloseIsDue(c)'
<1>1. msgs \in Seq(MessageSet) /\ AcceptMessage \in MessageSet /\ AcceptMessage.id = Listener
  BY DEF Mechanics, TypeOK, MessageSet, AcceptMessage
<1>2. CASE UNCHANGED msgs
  BY <1>2, CloseStaysDue DEF Reasons
<1>3. ASSUME NEW m \in MessageSet, msgs' = Append(msgs, m),
             m.id \in Conn /\ m.bits = "close" => CloseIsDue(m.id)'
      PROVE  R
  <2> DEFINE new == <<m>>
  <2>1. msgs' = msgs \o new /\ new \in Seq(MessageSet)
    BY <1>1, <1>3
  <2>2. \A i \in DOMAIN new : new[i] = m
    OBVIOUS
  <2> HIDE DEF new
  <2>3. \A i \in DOMAIN new, c \in Conn : new[i].id = c /\ new[i].bits = "close" => CloseIsDue(c)'
    BY <1>3, <2>2 DEF CloseIsDue
  <2> QED
    BY <2>1, <2>3, ReasonsGrow
<1>4. ASSUME NEW c \in Conn, Peer(c) PROVE R
  <2>1. CASE PeerConnects(c)
    <3>1. UNCHANGED msgs \/ msgs' = Append(msgs, AcceptMessage)
      BY <2>1 DEF PeerConnects, Notify
    <3> QED
      BY <1>1, <1>2, <1>3, <3>1, Distinct
  <2>2. ASSUME NEW bits \in {"read", "close"}, c \in armed, msgs' = Append(msgs, Message(c, bits)),
               bits = "close" => CloseIsDue(c)'
        PROVE  R
    <3>1. Message(c, bits) \in MessageSet /\ Message(c, bits).id = c /\ Message(c, bits).bits = bits
      BY <2>2 DEF Message, MessageSet, Mechanics, TypeOK, Handles
    <3> QED
      BY <1>3, <2>2, <3>1 DEF CloseIsDue
  <2>3. CASE PeerSends(c)
    BY <1>2, <2>2, <2>3 DEF PeerSends, Notify
  <2>4. CASE PeerCloses(c) \/ PeerResets(c)
    <3>1. c \notin unread \/ PeerResets(c) => CloseIsDue(c)'
      BY <2>4 DEF PeerCloses, PeerResets, CloseIsDue, Mechanics, TypeOK
    <3>2. \/ UNCHANGED msgs
          \/ /\ c \in armed /\ msgs' = Append(msgs, Message(c, "close"))
             /\ c \notin unread \/ PeerResets(c)
      BY <2>4 DEF PeerCloses, PeerResets, Notify
    <3> QED
      BY <1>2, <2>2, <3>1, <3>2
  <2>5. CASE PeerRejects(c)
    BY <1>2, <2>5 DEF PeerRejects
  <2> QED
    BY <1>4, <2>1, <2>3, <2>4, <2>5 DEF Peer
<1>5. CASE WaitEvent
  <2>1. \A i \in DOMAIN msgs' : i + 1 \in DOMAIN msgs /\ msgs'[i] = msgs[i + 1]
    BY <1>1, <1>5 DEF WaitEvent
  <2> QED
    BY <2>1, CloseStaysDue DEF Reasons
<1>6. ASSUME NEW h \in Handle, AcceptClient(h) PROVE R
  <2> DEFINE accept == IF Tail(backlog) = << >> THEN << >> ELSE <<AcceptMessage>>
  <2>1. PICK c \in Conn : c = Head(backlog)
    BY <1>6 DEF AcceptClient, Mechanics, TypeOK
  <2> DEFINE due == DueMessages(c, h)
             new == due \o accept
  <2>2. msgs' = msgs \o due \o accept
    BY <1>6, <2>1 DEF AcceptClient
  <2>3. accept \in Seq(MessageSet) /\ \A i \in DOMAIN accept : accept[i].id = Listener
    BY AcceptMessages DEF AcceptMessage
  <2>4. due \in Seq(MessageSet)
    BY DueMessagesType
  <2>5. \A i \in DOMAIN due : due[i].bits = "close" => due[i].id = c /\ CloseIsDue(c)
    BY DueMessagesReason
  <2> HIDE DEF accept, due
  <2>6. msgs' = msgs \o new /\ new \in Seq(MessageSet)
    BY <1>1, <2>2, <2>3, <2>4
  <2>7. \A i \in DOMAIN new : (\E j \in DOMAIN due : new[i] = due[j])
                              \/ (\E j \in DOMAIN accept : new[i] = accept[j])
    BY <2>3, <2>4
  <2> HIDE DEF new
  <2>8. \A i \in DOMAIN new, d \in Conn : new[i].id = d /\ new[i].bits = "close" => CloseIsDue(d)'
    BY <2>3, <2>5, <2>7, CloseStaysDue, Distinct
  <2> QED
    BY <2>6, <2>8, ReasonsGrow
<1>7. CASE EventThread /\ ~WaitEvent /\ \A h \in Handle : ~AcceptClient(h)
  BY <1>2, <1>7 DEF EventThread, LookUp, NewSession, PickThread, EnQueueSession, SignalReturns, netVars
<1>8. ASSUME NEW t \in TaskThread, RecvFails(t) PROVE R
  <2>1. PICK c \in Conn : c = EventOf(t)
    BY <1>8, TaskOfThread DEF RecvFails, Goto
  <2>2. c \notin fConnClosed /\ object[c] # "unborn"
    BY <1>8, <2>1, TaskOfThread DEF RecvFails, Goto, Mechanics, Closing
  <2>3. fSocketID[c] \in Handle
    BY <2>2 DEF Mechanics, TypeOK, Handles
  <2> DEFINE new == DueMessages(c, fSocketID[c])
  <2>4. msgs' = msgs \o new /\ new \in Seq(MessageSet)
    BY <1>8, <2>1, <2>3, DueMessagesType DEF RecvFails, RequestEvent
  <2>5. \A i \in DOMAIN new : new[i].bits = "close" => new[i].id = c /\ CloseIsDue(c)
    BY DueMessagesReason
  <2> HIDE DEF new
  <2> QED
    BY <2>4, <2>5, ReasonsGrow, CloseStaysDue
<1>9. ASSUME NEW t \in TaskThread, RunTask(t), ~RecvFails(t) PROVE R
  BY <1>2, <1>9 DEF RunTask, StartTask, RunClose, RunRead, Recv, DeleteTask, CloseSocket, FreeEvent,
                    netVars
<1>10. CASE UNCHANGED vars
  BY <1>2, <1>10 DEF vars, netVars
<1>11. CASE EventThread
  BY <1>5, <1>6, <1>7, <1>11
<1>12. ASSUME NEW t \in TaskThread, RunTask(t) PROVE R
  BY <1>8, <1>9, <1>12
<1> QED
  BY <1>4, <1>10, <1>11, <1>12 DEF Next

LEMMA NextReasons ==
    ASSUME Mechanics, Reasons, [Next]_vars
    PROVE  Reasons'
<1>1. \A c \in Conn : CloseIsDue(c) => CloseIsDue(c)'
  BY CloseStaysDue
<1>2. \A c \in Conn : theEvent' = c /\ theBits' = "close" => CloseIsDue(c)'
  <2> SUFFICES ASSUME NEW c \in Conn, theEvent' = c, theBits' = "close" PROVE CloseIsDue(c)
    BY <1>1
  <2>1. CASE WaitEvent
    <3>1. 1 \in DOMAIN msgs /\ Head(msgs) = msgs[1]
      BY <2>1 DEF WaitEvent, Mechanics, TypeOK
    <3> QED
      BY <2>1, <3>1 DEF WaitEvent, Reasons
  <2>2. CASE UNCHANGED <<theEvent, theBits>>
    BY <2>2 DEF Reasons
  <2>3. CASE EventThread /\ ~WaitEvent
    BY <2>2, <2>3, Distinct DEF EventThread, LookUp, AcceptClient, NewSession, PickThread,
                                EnQueueSession, SignalReturns
  <2>4. ASSUME NEW d \in Conn, Peer(d) PROVE UNCHANGED <<theEvent, theBits>>
    BY <2>4 DEF Peer, PeerConnects, PeerSends, PeerCloses, PeerResets, PeerRejects, evThreadVars
  <2>5. ASSUME NEW t \in TaskThread, RunTask(t) PROVE UNCHANGED <<theEvent, theBits>>
    BY <2>5 DEF RunTask, StartTask, RunClose, RunRead, Recv, RecvFails, DeleteTask, CloseSocket,
                FreeEvent, evThreadVars
  <2> QED
    BY <2>1, <2>2, <2>3, <2>4, <2>5 DEF Next, vars, evThreadVars
<1>3. \A k \in Task, c \in Conn : fEvent'[k] = c /\ fEventFlags'[k] = "close" => CloseIsDue(c)'
  <2> SUFFICES ASSUME NEW k \in Task, NEW c \in Conn, fEvent'[k] = c, fEventFlags'[k] = "close"
               PROVE  CloseIsDue(c)
    BY <1>1
  <2>1. ASSUME NEW j \in Task, NewSession(j) PROVE CloseIsDue(c)
    BY <2>1 DEF NewSession, Mechanics, TypeOK, Reasons
  <2>2. CASE UNCHANGED <<fEvent, fEventFlags>>
    BY <2>2 DEF Reasons
  <2>3. CASE EventThread /\ \A j \in Task : ~NewSession(j)
    BY <2>2, <2>3 DEF EventThread, WaitEvent, LookUp, AcceptClient, PickThread, EnQueueSession,
                      SignalReturns, taskVars
  <2>4. ASSUME NEW d \in Conn, Peer(d) PROVE UNCHANGED <<fEvent, fEventFlags>>
    BY <2>4 DEF Peer, PeerConnects, PeerSends, PeerCloses, PeerResets, PeerRejects, taskVars
  <2>5. ASSUME NEW t \in TaskThread, Forget(theTask[t]) PROVE CloseIsDue(c)
    BY <2>5 DEF Forget, Mechanics, TypeOK, Reasons
  <2>6. ASSUME NEW t \in TaskThread, RunTask(t), ~Forget(theTask[t]) PROVE UNCHANGED <<fEvent, fEventFlags>>
    BY <2>6 DEF RunTask, StartTask, RunClose, RunRead, Recv, RecvFails, DeleteTask, CloseSocket,
                FreeEvent, taskVars
  <2> QED
    BY <2>1, <2>2, <2>3, <2>4, <2>5, <2>6 DEF Next, vars, taskVars
<1> QED
  BY <1>2, <1>3, MessagesReason DEF Reasons

LEMMA InitReasons == Init => Reasons
<1> SUFFICES ASSUME Init PROVE Reasons
  OBVIOUS
<1>1. msgs = << >> /\ theEvent = None /\ \A k \in Task : fEvent[k] = None
  BY DEF Init
<1> QED
  BY <1>1, Distinct DEF Reasons

\* Whose turn it is, told by Turn.
LEMMA TurnIs ==
    ASSUME Mechanics, Discipline, NEW c \in Conn
    PROVE  /\ Turn(c) = "nobody" <=> object[c] = "unborn"
           /\ Turn(c) = "deleted" <=> object[c] = "freed"
           /\ Turn(c) = "closed" <=> object[c] = "live" /\ c \in fConnClosed
           /\ Turn(c) = "winsock" <=> c \in armed
           /\ Turn(c) = "event thread" <=> theEvent = c
           /\ Turn(c) = "session" <=> HasPending(c)
<1>1. object[c] \in {"unborn", "live", "freed"}
  BY DEF Mechanics, TypeOK
<1>2. CASE ~Open(c)
  BY <1>1, <1>2 DEF Turn, Open, Discipline, Turns
<1>3. CASE Open(c)
  <2>1. object[c] = "live" /\ c \notin fConnClosed
    BY <1>3 DEF Open
  <2> QED
    BY <1>3, <2>1 DEF Turn, Discipline, Turns
<1> QED
  BY <1>2, <1>3

\* What Turn depends on.
LEMMA TurnStays ==
    ASSUME NEW c \in Conn, object'[c] = object[c],
           c \in fConnClosed' <=> c \in fConnClosed,
           c \in armed' <=> c \in armed,
           theEvent' = c <=> theEvent = c
    PROVE  Turn(c)' = Turn(c)
  BY DEF Turn

LEMMA TurnPasses ==
    ASSUME NEW c \in Conn, NEW from, NEW to, Turn(c) = from, Turn(c)' = to,
           \A d \in Conn : d # c => Turn(d)' = Turn(d),
           UNCHANGED <<peer, unread, sends>>
    PROVE  Server!Passes(c, from, to)
  BY DEF Server!Passes

LEMMA TurnStutters ==
    ASSUME \A c \in Conn : Turn(c)' = Turn(c), UNCHANGED <<peer, unread, sends>>
    PROVE  UNCHANGED Server!serverVars
  BY DEF Server!serverVars

LEMMA PeerRefines ==
    ASSUME Mechanics, Discipline, ~AbruptReset, NEW c \in Conn, Peer(c)
    PROVE  Server!PeerStep(c)
<1> DEFINE turn == [d \in Conn |-> Turn(d)]
<1>1. UNCHANGED <<eventVars, evThreadVars, armed>>
  BY DEF Peer, PeerConnects, PeerSends, PeerCloses, PeerResets, PeerRejects
<1>2. \A d \in Conn : Turn(d)' = Turn(d)
  BY <1>1, TurnStays DEF eventVars, evThreadVars
<1>3. turn' = turn
  BY <1>2
<1> HIDE DEF turn
<1>4. CASE PeerConnects(c)
  BY <1>3, <1>4 DEF PeerConnects, Server!PeerStep, Server!Moves, turn
<1>5. CASE PeerSends(c)
  BY <1>3, <1>5 DEF PeerSends, Server!PeerStep, Server!Send, turn
<1>6. CASE PeerCloses(c)
  BY <1>3, <1>6 DEF PeerCloses, Server!PeerStep, Server!Moves, turn
<1>7. CASE PeerResets(c)
  <2>1. c \notin unread /\ unread' = unread
    BY <1>7 DEF PeerResets
  <2> QED
    BY <1>3, <1>7, <2>1 DEF PeerResets, Server!PeerStep, Server!Moves, turn
<1>8. CASE PeerRejects(c)
  <2>1. PICK t \in TaskThread : pc[t] = "recv" /\ EventOf(t) = c
    BY <1>8 DEF PeerRejects, EventOf
  <2>2. Turn(c) = "session"
    BY <2>1, PendingIsOpen, TurnIs
  <2> QED
    BY <1>3, <1>8, <2>2 DEF PeerRejects, Server!PeerStep, Server!Moves, turn
<1> QED
  BY <1>4, <1>5, <1>6, <1>7, <1>8 DEF Peer

LEMMA EventThreadRefines ==
    ASSUME Mechanics, Discipline, Discipline', Mechanics', EventThread
    PROVE  [Server!ServerNext]_Server!serverVars
<1>1. CASE WaitEvent /\ Head(msgs).id \in Conn
  <2>1. PICK c \in Conn : c = Head(msgs).id
    BY <1>1
  <2>2. /\ theEvent = None /\ theEvent' = c /\ c \in armed /\ armed' = armed \ {c}
        /\ UNCHANGED <<eventVars, peer, unread, sends>>
    BY <1>1, <2>1, OwnHandle DEF WaitEvent, Disarm, Mechanics, EventThreadHolds
  <2>3. Turn(c) = "winsock"
    BY <2>2, TurnIs
  <2>4. Turn(c)' = "event thread"
    <3>1. object'[c] = "live" /\ c \notin fConnClosed' /\ c \notin armed'
      BY <2>2 DEF Discipline, Turns, Open, eventVars
    <3> QED
      BY <2>2, <3>1 DEF Turn
  <2>5. \A d \in Conn : d # c => Turn(d)' = Turn(d)
    BY <2>2, TurnStays, Distinct DEF eventVars
  <2>6. c \in unread \/ Server!Finished(c)
    <3>1. 1 \in DOMAIN msgs /\ msgs[1].id = c
      BY <1>1, <2>1 DEF WaitEvent, Mechanics, TypeOK
    <3> QED
      BY <3>1 DEF Discipline, OwnMessages, IsReady, CloseIsDue, Server!Finished
  <2>7. Server!Report(c)
    BY <2>2, <2>3, <2>4, <2>5, <2>6, TurnPasses DEF Server!Report
  <2> QED
    BY <2>7 DEF Server!ServerNext, Server!ServiceStep
<1>2. CASE WaitEvent /\ Head(msgs).id \notin Conn
  <2>1. /\ theEvent = None /\ theEvent' = Listener /\ armed' = armed \ {Listener}
        /\ UNCHANGED <<eventVars, peer, unread, sends>>
    BY <1>2, OwnHandle DEF WaitEvent, Disarm, Mechanics, EventThreadHolds
  <2>2. \A d \in Conn : Turn(d)' = Turn(d)
    BY <2>1, TurnStays, Distinct DEF eventVars
  <2> QED
    BY <2>1, <2>2, TurnStutters
<1>3. CASE LookUp
  <2>1. \A c \in Conn : theEvent' = c <=> theEvent = c
    <3>1. theEvent \in Conn => Registered(theEvent)
      BY DEF Discipline, Turns, Open, Lifetime, Registered
    <3> QED
      BY <1>3, <3>1, Distinct DEF LookUp
  <2>2. UNCHANGED <<eventVars, netVars>>
    BY <1>3 DEF LookUp
  <2>3. \A d \in Conn : Turn(d)' = Turn(d)
    BY <2>1, <2>2, TurnStays DEF eventVars, netVars
  <2> QED
    BY <2>2, <2>3, TurnStutters DEF netVars
<1>4. ASSUME NEW h \in Handle, AcceptClient(h)
      PROVE  [Server!ServerNext]_Server!serverVars
  <2>1. PICK c \in Conn : c = Head(backlog) /\ 1 \in DOMAIN backlog /\ backlog[1] = c
    BY <1>4 DEF AcceptClient, Mechanics, TypeOK
  <2>2. /\ object' = [object EXCEPT ![c] = "live"] /\ armed' = armed \cup {c, Listener}
        /\ theEvent = Listener /\ theEvent' = None
        /\ UNCHANGED <<fConnClosed, peer, unread, sends>>
    BY <1>4, <2>1 DEF AcceptClient
  <2>3. object[c] = "unborn" /\ peer[c] # "idle"
    BY <2>1 DEF Discipline, Lifetime
  <2>4. Turn(c) = "nobody"
    BY <2>3, TurnIs
  <2>5. Turn(c)' = "winsock"
    <3>1. object'[c] = "live" /\ c \in armed' /\ c \notin fConnClosed'
      BY <2>2, <2>3 DEF Mechanics, TypeOK, Discipline, Lifetime
    <3> QED
      BY <3>1 DEF Turn
  <2>6. \A d \in Conn : d # c => Turn(d)' = Turn(d)
    <3> SUFFICES ASSUME NEW d \in Conn, d # c PROVE Turn(d)' = Turn(d)
      OBVIOUS
    <3>1. object'[d] = object[d] /\ (d \in armed' <=> d \in armed)
          /\ (theEvent' = d <=> theEvent = d)
      BY <2>2, Distinct DEF Mechanics, TypeOK
    <3> QED
      BY <2>2, <3>1, TurnStays
  <2>7. Server!Accept(c)
    BY <2>2, <2>3, <2>4, <2>5, <2>6, TurnPasses DEF Server!Accept
  <2> QED
    BY <2>7 DEF Server!ServerNext, Server!ServiceStep
<1>5. ASSUME NEW k \in Task, NewSession(k)
      PROVE  [Server!ServerNext]_Server!serverVars
  <2>1. UNCHANGED <<object, fConnClosed, theEvent, netVars>>
    BY <1>5 DEF NewSession
  <2>2. \A d \in Conn : Turn(d)' = Turn(d)
    BY <2>1, TurnStays DEF netVars
  <2> QED
    BY <2>1, <2>2, TurnStutters DEF netVars
<1>6. CASE PickThread \/ SignalReturns
  <2>1. UNCHANGED <<eventVars, theEvent, netVars>>
    BY <1>6 DEF PickThread, SignalReturns
  <2>2. \A d \in Conn : Turn(d)' = Turn(d)
    BY <2>1, TurnStays DEF eventVars, netVars
  <2> QED
    BY <2>1, <2>2, TurnStutters DEF netVars
<1>7. CASE EnQueueSession
  <2>1. PICK c \in Conn : c = theEvent
    BY <1>7 DEF EnQueueSession, Mechanics, EventThreadHolds
  <2>2. theEvent' = None /\ UNCHANGED <<eventVars, netVars>>
    BY <1>7 DEF EnQueueSession
  <2>3. Turn(c) = "event thread" /\ Open(c) /\ c \notin armed
    BY <2>1, TurnIs DEF Discipline, Turns
  <2>4. Turn(c)' = "session"
    BY <2>2, <2>3, Distinct DEF Turn, Open, eventVars, netVars
  <2>5. \A d \in Conn : d # c => Turn(d)' = Turn(d)
    BY <2>1, <2>2, TurnStays, Distinct DEF eventVars, netVars
  <2>6. Server!StartSession(c)
    BY <2>2, <2>3, <2>4, <2>5, TurnPasses DEF Server!StartSession, netVars
  <2> QED
    BY <2>6 DEF Server!ServerNext, Server!ServiceStep
<1> QED
  BY <1>1, <1>2, <1>3, <1>4, <1>5, <1>6, <1>7 DEF EventThread

LEMMA RunTaskRefines ==
    ASSUME Mechanics, Discipline, Reasons, NEW t \in TaskThread, RunTask(t)
    PROVE  [Server!ServerNext]_Server!serverVars
<1>1. CASE StartTask(t) \/ RunRead(t) \/ DeleteTask(t)
  <2>1. UNCHANGED <<object, fConnClosed, theEvent, netVars>>
    BY <1>1 DEF StartTask, RunRead, DeleteTask, eventVars, evThreadVars
  <2>2. \A d \in Conn : Turn(d)' = Turn(d)
    BY <2>1, TurnStays DEF netVars
  <2> QED
    BY <2>1, <2>2, TurnStutters DEF netVars
<1>2. CASE RunClose(t)
  <2>1. /\ pc[t] = "run" /\ fEventFlags[theTask[t]] = "close"
        /\ UNCHANGED <<object, theEvent, netVars>>
    BY <1>2 DEF RunClose, Goto, evThreadVars
  <2>2. PICK c \in Conn : c = EventOf(t) /\ theTask[t] \in Task
    BY <2>1, TaskOfThread
  <2>3. fConnClosed' = fConnClosed \cup {c}
    BY <1>2, <2>2 DEF RunClose
  <2>4. HasPending(c) /\ Open(c)
    BY <2>1, <2>2, PendingIsOpen
  <2>5. Turn(c) = "session" /\ Turn(c)' = "closed"
    BY <2>1, <2>3, <2>4, TurnIs DEF Turn, Open
  <2>6. \A d \in Conn : d # c => Turn(d)' = Turn(d)
    BY <2>1, <2>3, TurnStays DEF netVars
  <2>7. Server!Finished(c)
    BY <2>1, <2>2 DEF Reasons, EventOf, CloseIsDue, Server!Finished
  <2>8. Server!Close(c)
    BY <2>1, <2>5, <2>6, <2>7, TurnPasses DEF Server!Close, netVars
  <2> QED
    BY <2>8 DEF Server!ServerNext, Server!ServiceStep
<1>3. CASE Recv(t)
  <2>1. PICK c \in Conn : c = EventOf(t)
    BY <1>3, TaskOfThread DEF Recv
  <2>2. c \in unread /\ unread' = unread \ {c} /\ UNCHANGED <<eventVars, evThreadVars, armed, peer, sends>>
    BY <1>3, <2>1 DEF Recv
  <2>3. Turn(c) = "session"
    BY <1>3, <2>1, PendingIsOpen, TurnIs DEF Recv
  <2>4. \A d \in Conn : Turn(d)' = Turn(d)
    BY <2>2, TurnStays DEF eventVars, evThreadVars
  <2>5. Server!Read(c)
    BY <2>2, <2>3, <2>4 DEF Server!Read
  <2> QED
    BY <2>5 DEF Server!ServerNext, Server!ServiceStep
<1>4. CASE RecvFails(t)
  <2>1. PICK c \in Conn : c = EventOf(t)
    BY <1>4, TaskOfThread DEF RecvFails, Goto
  <2>2. /\ c \notin unread /\ armed' = armed \cup {c}
        /\ UNCHANGED <<eventVars, evThreadVars, peer, unread, sends>>
    BY <1>4, <2>1 DEF RecvFails, RequestEvent
  <2>3. Open(c) /\ HasPending(c)
    BY <1>4, <2>1, PendingIsOpen DEF RecvFails, Goto
  <2>4. Turn(c) = "session" /\ Turn(c)' = "winsock"
    BY <2>2, <2>3, TurnIs DEF Turn, Open, eventVars
  <2>5. \A d \in Conn : d # c => Turn(d)' = Turn(d)
    BY <2>2, TurnStays DEF eventVars, evThreadVars
  <2>6. Server!Rearm(c)
    BY <2>2, <2>4, <2>5, TurnPasses DEF Server!Rearm
  <2> QED
    BY <2>6 DEF Server!ServerNext, Server!ServiceStep
<1>5. CASE CloseSocket(t)
  <2>1. PICK c \in Conn : c = EventOf(t)
    BY <1>5, TaskOfThread DEF CloseSocket, Goto
  <2>2. armed' = armed \ {c} /\ UNCHANGED <<object, fConnClosed, theEvent, peer, unread, sends>>
    BY <1>5, <2>1 DEF CloseSocket, evThreadVars
  <2>3. c \in fConnClosed
    BY <1>5, <2>1, TaskOfThread DEF CloseSocket, Goto, Mechanics, Closing, EventOf
  <2>4. c \notin armed
    BY <2>3 DEF Discipline, Turns, Open
  <2>5. \A d \in Conn : Turn(d)' = Turn(d)
    BY <2>2, <2>4, TurnStays
  <2> QED
    BY <2>2, <2>5, TurnStutters
<1>6. CASE FreeEvent(t)
  <2>1. PICK c \in Conn : c = EventOf(t) /\ Exists(theTask[t]) /\ theTask[t] \in Task
    BY <1>6, TaskOfThread DEF FreeEvent, FinishTask
  <2>2. object' = [object EXCEPT ![c] = "freed"] /\ UNCHANGED <<fConnClosed, theEvent, netVars>>
    BY <1>6, <2>1 DEF FreeEvent, evThreadVars
  <2>3. c \in fConnClosed
    BY <1>6, <2>1 DEF FreeEvent, FinishTask, Mechanics, Closing, EventOf
  <2>4. object[c] = "live"
    BY <2>1 DEF Discipline, References, EventOf
  <2>5. Turn(c) = "closed"
    BY <2>3, <2>4, TurnIs
  <2>6. Turn(c)' = "deleted"
    BY <2>2 DEF Turn, Mechanics, TypeOK
  <2>7. \A d \in Conn : d # c => Turn(d)' = Turn(d)
    BY <2>2, TurnStays DEF netVars, Mechanics, TypeOK
  <2>8. Server!Delete(c)
    BY <2>2, <2>5, <2>6, <2>7, TurnPasses DEF Server!Delete, netVars
  <2> QED
    BY <2>8 DEF Server!ServerNext, Server!ServiceStep
<1> QED
  BY <1>1, <1>2, <1>3, <1>4, <1>5, <1>6 DEF RunTask

\* As long as no peer resets while data it sent is unread, the event thread,
\* the one-shot notifications and any number of task threads together
\* implement TcpServer: a connection is reported only when it is ready, read by
\* one session at a time until nothing is left, closed only after the peer has
\* gone and everything it sent is read, and deleted once.
THEOREM ReactorImplementsServer ==
    ASSUME ~AbruptReset
    PROVE  Spec => Server!ServerSpec
<1>1. Init => Server!ServerInit
  <2> SUFFICES ASSUME Init PROVE Server!ServerInit
    OBVIOUS
  <2>1. \A c \in Conn : Turn(c) = "nobody"
    BY DEF Init, Turn
  <2> QED
    BY <2>1 DEF Init, Server!ServerInit
<1>2. Spec => []Reasons
  <2>1. Mechanics /\ Reasons /\ [Next]_vars => Reasons'
    BY NextReasons
  <2> QED
    BY <2>1, InitReasons, AlwaysMechanics, PTL DEF Spec
<1>3. Mechanics /\ Discipline /\ Reasons /\ [Next]_vars => [Server!ServerNext]_Server!serverVars
  <2> SUFFICES ASSUME Mechanics, Discipline, Reasons, [Next]_vars
               PROVE  [Server!ServerNext]_Server!serverVars
    OBVIOUS
  <2>1. Mechanics' /\ Discipline'
    BY NextMechanics, NextDiscipline
  <2>2. ASSUME NEW c \in Conn, Peer(c) PROVE Server!ServerNext
    BY <2>2, PeerRefines DEF Server!ServerNext
  <2>3. CASE EventThread
    BY <2>1, <2>3, EventThreadRefines
  <2>4. ASSUME NEW t \in TaskThread, RunTask(t) PROVE [Server!ServerNext]_Server!serverVars
    BY <2>4, RunTaskRefines
  <2>5. CASE UNCHANGED vars
    <3>1. UNCHANGED <<object, fConnClosed, armed, theEvent, peer, unread, sends>>
      BY <2>5 DEF vars, eventVars, evThreadVars, netVars
    <3>2. \A c \in Conn : Turn(c)' = Turn(c)
      BY <3>1, TurnStays
    <3> QED
      BY <3>1, <3>2, TurnStutters
  <2> QED
    BY <2>2, <2>3, <2>4, <2>5 DEF Next
<1> QED
  BY <1>1, <1>2, <1>3, AlwaysDiscipline, PTL DEF Spec, Server!ServerSpec

=============================================================================
