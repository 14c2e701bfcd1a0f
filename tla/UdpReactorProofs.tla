-------------------------- MODULE UdpReactorProofs --------------------------
(***************************************************************************)
(* Theorems about UdpReactor, for any number of task threads, clients and  *)
(* datagrams: its types, the one-turn discipline of the UDP socket, and    *)
(* that it implements the serial server of UdpServer.                      *)
(***************************************************************************)
EXTENDS UdpReactor, TLAPS

(* The inductive invariant.  OneTurn alone is not inductive: that only one *)
(* session is left needs to know who holds the pool mutex, and that a      *)
(* session finds a datagram needs to know what an FD_READ stands for.      *)

\* The mutex belongs to the thread that is between LockPool and FinishTask.
LockHeld ==
    \A t \in TaskThread :
        sMutex = t <=> pc[t] \in {"run", "answer", "rearm", "delete"}

\* A request is in the hands of a thread only between reading and answering.
InHand == \A t \in TaskThread : message[t] # None <=> pc[t] = "answer"

\* There is a message for the event thread exactly while the socket is armed
\* and has data.
PostedForData == posted = IF armed /\ inbox # << >> THEN 1 ELSE 0

\* A session that has not read yet will find a datagram.
DataAhead ==
    /\ EventThreadBusy => inbox # << >>
    /\ \A t \in TaskThread :
           fTaskQueueB[t] # << >> \/ pc[t] \in {"lock", "run"} => inbox # << >>

\* A new session waits for its Signal, and once a thread is picked for it no
\* other session is left.
CreatedThenSignalled ==
    /\ evPc \in {"signal", "enqueue"} <=> newTask # None
    /\ evPc = "enqueue" => \A t \in TaskThread : pc[t] = "wait"

IInv ==
    /\ TypeOK
    /\ OneTurn
    /\ LockHeld
    /\ InHand
    /\ PostedForData
    /\ DataAhead
    /\ CreatedThenSignalled

-----------------------------------------------------------------------------
\* The round robin always picks a thread of the pool.
LEMMA NextThreadType ==
    ASSUME sTaskThreadPicker \in TaskThread
    PROVE  NextThread \in TaskThread
  BY PoolAssumption DEF NextThread, TaskThread

\* The null pointer is none of the objects it is compared with.
LEMMA NoneIsNull == None \notin TaskThread /\ None \notin Task /\ None \notin Datagram
  BY PoolAssumption, UdpAssumption DEF TaskThread

LEMMA InitIInv == Init => IInv
  BY PoolAssumption, UdpAssumption, NoneIsNull
  DEF Init, PoolInit, IInv, TypeOK, OneTurn, HasSession, LockHeld, InHand,
      PostedForData, DataAhead, CreatedThenSignalled, PcType, TaskThread, EventThreadBusy

\* The arrival of a datagram.
LEMMA ArriveIInv ==
    ASSUME IInv, NEW d \in Datagram, DatagramArrives(d)
    PROVE  IInv'
<1> USE DEF IInv
<1>1. TypeOK'
  BY UdpAssumption
  DEF DatagramArrives, TypeOK, poolVars, sessionVars
<1>2. inbox' # << >>
  BY DEF DatagramArrives, TypeOK
<1>3. (OneTurn /\ LockHeld /\ InHand /\ CreatedThenSignalled)'
  BY DEF DatagramArrives, poolVars, sessionVars, OneTurn, HasSession, LockHeld,
         InHand, CreatedThenSignalled, EventThreadBusy
<1>4. (PostedForData /\ DataAhead)'
  BY <1>2 DEF DatagramArrives, poolVars, PostedForData, DataAhead, EventThreadBusy
<1> QED
  BY <1>1, <1>3, <1>4

\* The steps of the event thread.
LEMMA WaitEventIInv ==
    ASSUME IInv, WaitEvent
    PROVE  IInv'
<1> USE DEF IInv
<1>1. armed /\ inbox # << >> /\ posted = 1
  BY DEF WaitEvent, Disarm, PostedForData, TypeOK
<1>2. TypeOK'
  <2>1. posted' \in Nat
    BY <1>1 DEF WaitEvent, Disarm
  <2> QED
    BY <2>1 DEF WaitEvent, Disarm, TypeOK, poolVars, sessionVars
<1>3. (OneTurn /\ LockHeld /\ InHand /\ CreatedThenSignalled)'
  BY <1>1 DEF WaitEvent, Disarm, poolVars, sessionVars, OneTurn, HasSession, LockHeld,
              InHand, CreatedThenSignalled, EventThreadBusy
<1>4. (PostedForData /\ DataAhead)'
  BY <1>1 DEF WaitEvent, Disarm, poolVars, PostedForData, DataAhead, EventThreadBusy
<1> QED
  BY <1>2, <1>3, <1>4

LEMMA NewSessionIInv ==
    ASSUME IInv, NEW k \in Task, NewSession(k)
    PROVE  IInv'
<1> USE DEF IInv
<1>1. TypeOK'
  BY DEF NewSession, TypeOK, poolVars, netVars
<1>2. (OneTurn /\ LockHeld /\ InHand)'
  BY DEF NewSession, poolVars, netVars, OneTurn, HasSession, LockHeld, InHand, EventThreadBusy
<1>3. (PostedForData /\ DataAhead)'
  BY DEF NewSession, poolVars, netVars, PostedForData, DataAhead, EventThreadBusy
<1>4. CreatedThenSignalled'
  BY NoneIsNull DEF NewSession, CreatedThenSignalled
<1> QED
  BY <1>1, <1>2, <1>3, <1>4

LEMMA PickThreadIInv ==
    ASSUME IInv, PickThread \/ SignalReturns
    PROVE  IInv'
<1> USE DEF IInv
<1>1. sTaskThreadPicker' \in TaskThread /\ signalled' \in Task \cup {None}
  BY NextThreadType DEF PickThread, GetThread, SignalReturns, ReadTaskName, TypeOK
<1>2. /\ UNCHANGED <<fTaskQueueB, sMutex, pc, theTask, newTask, netVars, sessionVars>>
      /\ \/ evPc = "signal" /\ evPc' = "enqueue"
         \/ evPc = "name" /\ evPc' = "wait"
  BY DEF PickThread, GetThread, SignalReturns, ReadTaskName
<1>3. TypeOK'
  BY <1>1, <1>2 DEF TypeOK, netVars, sessionVars
<1>4. (OneTurn /\ LockHeld /\ InHand)'
  BY <1>2 DEF OneTurn, EventThreadBusy, HasSession, LockHeld, InHand, netVars, sessionVars
<1>5. CreatedThenSignalled'
  <2>1. ASSUME PickThread, NEW t \in TaskThread PROVE pc[t] = "wait"
    <3>1. sMutex = None /\ evPc = "signal"
      BY <2>1 DEF PickThread, GetThread
    <3>2. ~HasSession(t)
      BY <3>1 DEF OneTurn, EventThreadBusy
    <3>3. pc[t] \notin {"run", "answer", "rearm", "delete"}
      BY <3>1, NoneIsNull DEF LockHeld
    <3> QED
      BY <3>2, <3>3 DEF HasSession, TypeOK, PcType
  <2>2. evPc' = "enqueue" => PickThread
    BY DEF SignalReturns
  <2> QED
    BY <1>2, <2>1, <2>2 DEF CreatedThenSignalled
<1>6. (PostedForData /\ DataAhead)'
  BY <1>2 DEF PostedForData, DataAhead, EventThreadBusy, netVars
<1> QED
  BY <1>3, <1>4, <1>5, <1>6

LEMMA EnQueueIInv ==
    ASSUME IInv, EnQueueSession
    PROVE  IInv'
<1> USE DEF IInv
<1> DEFINE u == sTaskThreadPicker
<1>1. newTask \in Task /\ EventThreadBusy
  BY DEF EnQueueSession, CreatedThenSignalled, EventThreadBusy, TypeOK
<1>2. u \in TaskThread
  BY DEF TypeOK
<1>3. \A t \in TaskThread : fTaskQueueB[t] = << >> /\ pc[t] = "wait"
  <2>1. \A t \in TaskThread : ~HasSession(t)
    BY <1>1 DEF OneTurn
  <2> QED
    BY <2>1 DEF HasSession, CreatedThenSignalled, EnQueueSession
<1>4. fTaskQueueB' = [fTaskQueueB EXCEPT ![u] = <<newTask>>]
  <2>1. Append(<< >>, newTask) = <<newTask>>
    OBVIOUS
  <2> QED
    BY <1>2, <1>3, <2>1 DEF EnQueueSession, EnQueue
<1>5. /\ UNCHANGED <<sTaskThreadPicker, sMutex, pc, theTask, netVars, sessionVars>>
      /\ newTask' = None /\ signalled' = newTask /\ evPc' = "name"
  BY DEF EnQueueSession, EnQueue
<1> HIDE DEF u
<1>6. TypeOK'
  BY <1>1, <1>2, <1>4, <1>5 DEF TypeOK, netVars, sessionVars
<1>7. \A t \in TaskThread : HasSession(t)' <=> t = u
  BY <1>2, <1>3, <1>4, <1>5 DEF HasSession, TypeOK
<1>8. \A t \in TaskThread : Len(fTaskQueueB'[t]) <= 1
  BY <1>2, <1>3, <1>4 DEF TypeOK
<1>9. OneTurn'
  <2>1. ~armed' /\ ~EventThreadBusy'
    BY <1>1, <1>5 DEF EventThreadBusy, OneTurn, netVars
  <2> QED
    BY <1>2, <1>3, <1>5, <1>7, <1>8, <2>1 DEF OneTurn, EventThreadBusy
<1>10. (LockHeld /\ InHand /\ CreatedThenSignalled)'
  BY <1>5 DEF netVars, sessionVars, LockHeld, InHand, CreatedThenSignalled
<1>11. (PostedForData /\ DataAhead)'
  BY <1>1, <1>5 DEF netVars, PostedForData, DataAhead, EventThreadBusy
<1> QED
  BY <1>6, <1>9, <1>10, <1>11

-----------------------------------------------------------------------------
\* The steps of a task thread.
LEMMA WaitForTaskIInv ==
    ASSUME IInv, NEW t \in TaskThread, StartTask(t), WaitForTask(t)
    PROVE  IInv'
<1> USE DEF IInv
<1>1. fTaskQueueB[t] # << >> /\ Len(fTaskQueueB[t]) <= 1 /\ pc[t] = "wait"
  BY DEF WaitForTask, OneTurn
<1>2. fTaskQueueB[t] \in Seq(Task)
  BY DEF TypeOK
<1>3. Head(fTaskQueueB[t]) \in Task /\ Tail(fTaskQueueB[t]) = << >>
  BY <1>1, <1>2
<1>4. fTaskQueueB' = [fTaskQueueB EXCEPT ![t] = << >>]
  BY <1>3 DEF WaitForTask
<1>5. TypeOK'
  BY <1>3, <1>4 DEF WaitForTask, StartTask, TypeOK, netVars, sessionVars, PcType
<1>6. \A u \in TaskThread : HasSession(u)' <=> HasSession(u)
  BY <1>1, <1>4 DEF WaitForTask, HasSession, TypeOK
<1>7. \A u \in TaskThread : fTaskQueueB'[u] # << >> => u # t /\ fTaskQueueB'[u] = fTaskQueueB[u]
  BY <1>4 DEF TypeOK
<1>8. OneTurn'
  <2>1. ~armed /\ ~EventThreadBusy
    BY <1>1 DEF OneTurn, HasSession, EventThreadBusy
  <2>2. UNCHANGED <<armed, evPc>> /\ EventThreadBusy' = EventThreadBusy
    BY DEF StartTask, netVars, EventThreadBusy
  <2>3. \A u \in TaskThread : u # t => pc'[u] = pc[u]
    BY DEF WaitForTask, TypeOK
  <2>4. \A u \in TaskThread : Len(fTaskQueueB'[u]) <= 1
    BY <1>4 DEF OneTurn, TypeOK
  <2> QED
    BY <1>6, <1>7, <2>1, <2>2, <2>3, <2>4 DEF OneTurn, EventThreadBusy
<1>9. (LockHeld /\ InHand /\ CreatedThenSignalled)'
  <2>1. evPc # "enqueue"
    BY <1>1 DEF OneTurn, HasSession, EventThreadBusy
  <2> QED
    BY <1>1, <2>1 DEF WaitForTask, StartTask, LockHeld, InHand, CreatedThenSignalled,
                      netVars, sessionVars, TypeOK
<1>10. (PostedForData /\ DataAhead)'
  BY <1>1, <1>7 DEF WaitForTask, StartTask, PostedForData, DataAhead, netVars,
                    TypeOK, EventThreadBusy
<1> QED
  BY <1>5, <1>8, <1>9, <1>10

LEMMA LockPoolIInv ==
    ASSUME IInv, NEW t \in TaskThread, StartTask(t), LockPool(t)
    PROVE  IInv'
<1> USE DEF IInv
<1>1. TypeOK'
  BY DEF LockPool, StartTask, TypeOK, netVars, sessionVars, PcType
<1>2. OneTurn'
  BY DEF LockPool, StartTask, OneTurn, HasSession, TypeOK, netVars, EventThreadBusy
<1>3. LockHeld'
  BY NoneIsNull DEF LockPool, LockHeld, TypeOK
<1>4. (InHand /\ CreatedThenSignalled)'
  BY DEF LockPool, StartTask, InHand, CreatedThenSignalled, netVars,
         sessionVars, TypeOK
<1>5. (PostedForData /\ DataAhead)'
  BY DEF LockPool, StartTask, PostedForData, DataAhead, netVars, TypeOK, EventThreadBusy
<1> QED
  BY <1>1, <1>2, <1>3, <1>4, <1>5

\* While a session is to run, the socket is off and the event thread idle.
LEMMA RunningTurn ==
    ASSUME IInv, NEW t \in TaskThread, HasSession(t)
    PROVE  /\ ~armed /\ ~EventThreadBusy /\ posted = 0
           /\ \A u \in TaskThread : u # t => ~HasSession(u)
  BY DEF IInv, OneTurn, PostedForData, EventThreadBusy

LEMMA ReadMessageIInv ==
    ASSUME IInv, NEW t \in TaskThread, ReadMessage(t)
    PROVE  IInv'
<1> USE DEF IInv
<1>1. pc[t] = "run" /\ inbox # << >>
  BY DEF ReadMessage, Goto, DataAhead, EventThreadBusy
<1>2. Head(inbox) \in Datagram /\ Tail(inbox) \in Seq(Datagram)
  BY <1>1 DEF TypeOK
<1>3. message' = [message EXCEPT ![t] = Head(inbox)] /\ inbox' = Tail(inbox)
  BY <1>1 DEF ReadMessage
<1>4. HasSession(t)
  BY <1>1 DEF HasSession
<1>5. /\ ~armed /\ ~EventThreadBusy /\ posted = 0
      /\ \A u \in TaskThread : u # t => ~HasSession(u)
  BY <1>4, RunningTurn
<1>6. TypeOK'
  BY <1>2, <1>3 DEF ReadMessage, Goto, TypeOK, PcType
<1>7. OneTurn'
  BY <1>1, <1>5 DEF ReadMessage, Goto, OneTurn, HasSession, TypeOK, EventThreadBusy
<1>8. LockHeld'
  BY <1>1 DEF ReadMessage, Goto, LockHeld, TypeOK
<1>9. (InHand /\ CreatedThenSignalled)'
  BY <1>1, <1>2, <1>3, NoneIsNull
  DEF ReadMessage, Goto, InHand, CreatedThenSignalled, TypeOK
<1>10. PostedForData'
  BY <1>5 DEF ReadMessage, PostedForData
<1>11. DataAhead'
  BY <1>1, <1>5 DEF ReadMessage, Goto, DataAhead, HasSession, OneTurn, TypeOK, EventThreadBusy
<1> QED
  BY <1>6, <1>7, <1>8, <1>9, <1>10, <1>11

\* A request gets at most one reply, to the client that sent it.
LEMMA RepliesType ==
    ASSUME NEW d \in Datagram, NEW r \in Replies(d)
    PROVE  r \in Seq(Reply) /\ Len(r) <= 1
           /\ \A i \in 1 .. Len(r) : r[i].to = d.client
<1>1. d.client \in Client /\ d.kind \in Kind
  BY DEF Datagram
<1>2. CASE r = << >>
  BY <1>2
<1>3. CASE r = Succeed(d.client) \/ r = Failed(d.client)
  <2>1. PICK x \in Reply : r = <<x>> /\ x.to = d.client
    BY <1>1, <1>3 DEF Succeed, Failed, Reply
  <2> QED
    BY <2>1
<1>4. r = << >> \/ r = Succeed(d.client) \/ r = Failed(d.client)
  BY <1>1 DEF Replies, Kind
<1> QED
  BY <1>2, <1>3, <1>4

LEMMA SendMessageIInv ==
    ASSUME IInv, NEW t \in TaskThread, SendMessage(t)
    PROVE  IInv'
<1> USE DEF IInv
<1>1. pc[t] = "answer" /\ message[t] \in Datagram
  BY DEF SendMessage, Goto, InHand, TypeOK
<1>2. outbox' \in Seq(Reply)
  BY <1>1, RepliesType DEF SendMessage, TypeOK
<1>3. TypeOK'
  BY <1>2 DEF SendMessage, Goto, TypeOK, netVars, PcType
<1>4. (OneTurn /\ LockHeld)'
  BY <1>1 DEF SendMessage, Goto, OneTurn, HasSession, LockHeld, TypeOK, netVars, EventThreadBusy
<1>5. (InHand /\ CreatedThenSignalled)'
  BY <1>1 DEF SendMessage, Goto, InHand, CreatedThenSignalled, TypeOK
<1>6. (PostedForData /\ DataAhead)'
  BY <1>1 DEF SendMessage, Goto, PostedForData, DataAhead, netVars, TypeOK, EventThreadBusy
<1> QED
  BY <1>3, <1>4, <1>5, <1>6

LEMMA RequestEventIInv ==
    ASSUME IInv, NEW t \in TaskThread, RequestEvent(t)
    PROVE  IInv'
<1> USE DEF IInv
<1>1. pc[t] = "rearm" /\ HasSession(t)
  BY DEF RequestEvent, Goto, HasSession
<1>2. /\ ~armed /\ ~EventThreadBusy /\ posted = 0
      /\ \A u \in TaskThread : u # t => ~HasSession(u)
  BY <1>1, RunningTurn
<1>3. /\ armed' = TRUE /\ UNCHANGED <<inbox, arrivals>>
      /\ posted' = IF inbox # << >> THEN 1 ELSE 0
  BY <1>2 DEF RequestEvent, Arm
<1>4. TypeOK'
  BY <1>3 DEF RequestEvent, Goto, TypeOK, sessionVars, PcType
<1>5. \A u \in TaskThread : ~HasSession(u)'
  BY <1>1, <1>2 DEF RequestEvent, Goto, HasSession, OneTurn, TypeOK, EventThreadBusy
<1>6. OneTurn'
  BY <1>1, <1>2, <1>3, <1>5 DEF RequestEvent, Goto, OneTurn, TypeOK, EventThreadBusy
<1>7. (LockHeld /\ InHand /\ CreatedThenSignalled)'
  BY <1>1 DEF RequestEvent, Goto, LockHeld, InHand, CreatedThenSignalled,
              sessionVars, TypeOK
<1>8. PostedForData'
  BY <1>3 DEF PostedForData
<1>9. DataAhead'
  BY <1>2, <1>5 DEF DataAhead, HasSession, RequestEvent, EventThreadBusy
<1> QED
  BY <1>4, <1>6, <1>7, <1>8, <1>9

LEMMA DeleteTaskIInv ==
    ASSUME IInv, NEW t \in TaskThread, DeleteTask(t)
    PROVE  IInv'
<1> USE DEF IInv
<1>1. pc[t] = "delete" /\ sMutex = t
  BY DEF DeleteTask, FinishTask, LockHeld
<1>2. TypeOK'
  BY DEF DeleteTask, FinishTask, TypeOK, netVars, PcType
<1>3. OneTurn'
  BY <1>1 DEF DeleteTask, FinishTask, OneTurn, HasSession, TypeOK, netVars, EventThreadBusy
<1>4. LockHeld'
  BY <1>1, NoneIsNull DEF DeleteTask, FinishTask, LockHeld, TypeOK
<1>5. (InHand /\ CreatedThenSignalled)'
  BY <1>1 DEF DeleteTask, FinishTask, InHand, CreatedThenSignalled, TypeOK
<1>6. (PostedForData /\ DataAhead)'
  BY <1>1 DEF DeleteTask, FinishTask, PostedForData, DataAhead, netVars, TypeOK, EventThreadBusy
<1> QED
  BY <1>2, <1>3, <1>4, <1>5, <1>6

LEMMA StutterIInv ==
    ASSUME IInv, UNCHANGED vars
    PROVE  IInv'
  BY DEF vars, poolVars, netVars, sessionVars, IInv, TypeOK, OneTurn,
         HasSession, LockHeld, InHand, PostedForData, DataAhead,
         CreatedThenSignalled, EventThreadBusy

LEMMA NextIInv ==
    ASSUME IInv, [Next]_vars
    PROVE  IInv'
<1>1. ASSUME NEW d \in Datagram, DatagramArrives(d)
      PROVE  IInv'
  BY <1>1, ArriveIInv
<1>2. CASE EventThread
  BY <1>2, WaitEventIInv, NewSessionIInv, PickThreadIInv, EnQueueIInv DEF EventThread
<1>3. ASSUME NEW t \in TaskThread, RunTask(t)
      PROVE  IInv'
  <2>1. CASE StartTask(t)
    <3>1. WaitForTask(t) \/ LockPool(t)
      BY <2>1 DEF StartTask
    <3> QED
      BY <2>1, <3>1, WaitForTaskIInv, LockPoolIInv
  <2>2. CASE ReadMessage(t)
    BY <2>2, ReadMessageIInv
  <2>3. CASE SendMessage(t)
    BY <2>3, SendMessageIInv
  <2>4. CASE RequestEvent(t)
    BY <2>4, RequestEventIInv
  <2>5. CASE DeleteTask(t)
    BY <2>5, DeleteTaskIInv
  <2> QED
    BY <1>3, <2>1, <2>2, <2>3, <2>4, <2>5 DEF RunTask
<1>4. CASE UNCHANGED vars
  BY <1>4, StutterIInv
<1> QED
  BY <1>1, <1>2, <1>3, <1>4 DEF Next

LEMMA Invariance == Spec => []IInv
<1>1. Init => IInv
  BY InitIInv
<1>2. IInv /\ [Next]_vars => IInv'
  BY NextIInv
<1> QED
  BY <1>1, <1>2, PTL DEF Spec

-----------------------------------------------------------------------------
\* Type correctness (the whole of UdpReactor).
THEOREM TypeCorrect == Spec => []TypeOK
<1>1. IInv => TypeOK
  BY DEF IInv
<1> QED
  BY <1>1, Invariance, PTL

\* However many task threads there are, the UDP socket is watched by Winsock,
\* or handled by the event thread, or read by one session, never two of them
\* and never none (select_waitevent, ProcessEvent, RequestEvent).
THEOREM AlwaysOneTurn == Spec => []OneTurn
<1>1. IInv => OneTurn
  BY DEF IInv
<1> QED
  BY <1>1, Invariance, PTL

\* RecvFrom in UDPSession::ReadMessage always finds a datagram.
THEOREM AlwaysReadIsReady == Spec => []ReadIsReady
<1>1. IInv => ReadIsReady
  BY DEF IInv, DataAhead, ReadIsReady, EventThreadBusy
<1> QED
  BY <1>1, Invariance, PTL

-----------------------------------------------------------------------------
(* The refinement of UdpServer                                             *)

\* The instance means the same datagrams and the same replies.
LEMMA SameRequests ==
    /\ Server!Datagram = Datagram
    /\ \A d \in Datagram : Server!Replies(d) = Replies(d)
  BY DEF Server!Datagram, Datagram, Server!Kind, Kind, Server!Replies, Replies,
         Server!Succeed, Succeed, Server!Failed, Failed

LEMMA InitRefines == Init => Server!ServerInit
  BY DEF Init, PoolInit, Server!ServerInit, Serving

\* A step that leaves the abstract variables alone.
LEMMA ServerStutters ==
    ASSUME UNCHANGED <<inbox, arrivals, outbox, sMutex, message>>
    PROVE  UNCHANGED Server!serverVars
  BY DEF Server!serverVars, Serving

LEMMA EventThreadStutters ==
    ASSUME IInv, EventThread
    PROVE  UNCHANGED Server!serverVars
<1>1. CASE WaitEvent
  BY <1>1, ServerStutters DEF WaitEvent, Disarm, poolVars, sessionVars
<1>2. ASSUME NEW k \in Task, NewSession(k)
      PROVE  UNCHANGED Server!serverVars
  BY <1>2, ServerStutters DEF NewSession, poolVars, netVars
<1>3. CASE PickThread \/ EnQueueSession \/ SignalReturns
  BY <1>3, ServerStutters DEF PickThread, GetThread, EnQueueSession, EnQueue, SignalReturns, ReadTaskName,
                             netVars, sessionVars
<1> QED
  BY <1>1, <1>2, <1>3 DEF EventThread

LEMMA RunTaskRefines ==
    ASSUME IInv, NEW t \in TaskThread, RunTask(t)
    PROVE  [Server!ServerNext]_Server!serverVars
<1> USE DEF IInv
<1>1. t # None
  BY NoneIsNull
<1>2. CASE StartTask(t) /\ WaitForTask(t)
  BY <1>2, ServerStutters DEF StartTask, WaitForTask, netVars, sessionVars
<1>3. CASE StartTask(t) /\ LockPool(t)
  <2>1. message[t] = None
    BY <1>3 DEF LockPool, InHand
  <2>2. Serving = None /\ Serving' = None
    BY <1>3, <2>1 DEF LockPool, StartTask, Serving, sessionVars
  <2> QED
    BY <1>3, <2>2 DEF StartTask, netVars, sessionVars, Server!serverVars
<1>4. CASE ReadMessage(t)
  <2>1. inbox # << >> /\ sMutex = t /\ message[t] = None
    BY <1>4 DEF ReadMessage, Goto, DataAhead, LockHeld, InHand, EventThreadBusy
  <2>2. Serving = None /\ Serving' = Head(inbox)
    BY <1>1, <1>4, <2>1 DEF ReadMessage, Goto, Serving, TypeOK
  <2>3. Server!Take
    BY <1>4, <2>1, <2>2 DEF ReadMessage, Server!Take
  <2> QED
    BY <2>3 DEF Server!ServerNext
<1>5. CASE SendMessage(t)
  <2>1. sMutex = t /\ message[t] # None /\ message[t] \in Datagram
    BY <1>5 DEF SendMessage, Goto, LockHeld, InHand, TypeOK
  <2>2. Serving = message[t] /\ Serving' = None
    BY <1>1, <1>5, <2>1 DEF SendMessage, Goto, Serving, TypeOK
  <2>3. Server!Answer
    BY <1>5, <2>1, <2>2, SameRequests DEF SendMessage, Server!Answer, netVars
  <2> QED
    BY <2>3 DEF Server!ServerNext
<1>6. CASE RequestEvent(t)
  BY <1>6, ServerStutters DEF RequestEvent, Goto, Arm, sessionVars
<1>7. CASE DeleteTask(t)
  <2>1. sMutex = t /\ message[t] = None
    BY <1>7 DEF DeleteTask, FinishTask, LockHeld, InHand
  <2>2. Serving = None /\ Serving' = None
    BY <1>1, <1>7, <2>1 DEF DeleteTask, FinishTask, Serving
  <2> QED
    BY <1>7, <2>2 DEF DeleteTask, netVars, Server!serverVars
<1> QED
  BY <1>2, <1>3, <1>4, <1>5, <1>6, <1>7 DEF RunTask, StartTask

LEMMA StepRefines ==
    ASSUME IInv, [Next]_vars
    PROVE  [Server!ServerNext]_Server!serverVars
<1>1. ASSUME NEW d \in Datagram, DatagramArrives(d)
      PROVE  Server!ServerNext
  <2>1. Server!Arrive(d)
    BY <1>1 DEF DatagramArrives, Server!Arrive, Serving, poolVars, sessionVars
  <2> QED
    BY <2>1, SameRequests DEF Server!ServerNext
<1>2. CASE EventThread
  BY <1>2, EventThreadStutters
<1>3. ASSUME NEW t \in TaskThread, RunTask(t)
      PROVE  [Server!ServerNext]_Server!serverVars
  BY <1>3, RunTaskRefines
<1>4. CASE UNCHANGED vars
  BY <1>4, ServerStutters DEF vars, poolVars, netVars, sessionVars
<1> QED
  BY <1>1, <1>2, <1>3, <1>4 DEF Next

\* The event thread, the one-shot notifications and any number of task
\* threads together implement the serial server: datagrams are taken in the
\* order of their arrival, one at a time, and each is answered as the switch
\* of UDPSession::Run says.
THEOREM ReactorImplementsServer == Spec => Server!ServerSpec
<1>1. IInv /\ [Next]_vars => [Server!ServerNext]_Server!serverVars
  BY StepRefines
<1> QED
  BY <1>1, InitRefines, Invariance, PTL DEF Spec, Server!ServerSpec

=============================================================================
