--------------------------- MODULE TaskThreadPool ---------------------------
(***************************************************************************)
(* The task threads of P2ChatServer/Task.cpp: the queue each of them owns, *)
(* the round-robin picker of Task::Signal and the pool-wide mutex under    *)
(* which a thread runs a task and deletes it.                              *)
(*                                                                         *)
(* The module holds the state and the steps of the pool; what Run() does   *)
(* is the business of the task class, so TcpReactor and UdpReactor compose *)
(* these steps with the Run() of TCPSession and of UDPSession.             *)
(*                                                                         *)
(* Every task of the server is signalled once, by the event thread that    *)
(* created it, and its Run() returns -1.  So a task is alive from its      *)
(* Signal to its deletion, and the branches for a second Signal and for a  *)
(* non-negative Run() are not reached.  The three steps of Signal are those *)
(* of its one caller: the picker is still its own when it enters the queue. *)
(***************************************************************************)
EXTENDS Naturals, Sequences

CONSTANTS
    Task,            \* the Task objects
    NumTaskThreads,  \* TaskThreadPool::sNumTaskThreads
    None             \* the null pointer

ASSUME PoolAssumption ==
    /\ NumTaskThreads \in Nat \ {0}
    /\ None \notin Task
    /\ None \notin Nat

TaskThread == 0 .. NumTaskThreads - 1

VARIABLES
    fTaskQueueB,        \* the queue of each task thread
    sTaskThreadPicker,  \* round robin counter, modulo the number of threads
    sMutex,             \* the thread that holds TaskThreadPool::sMutex, or None
    pc,                 \* where each task thread is
    theTask,            \* the task each task thread works on, or None
    signalled           \* the task in a queue whose Signal is not over, or None

poolVars == <<fTaskQueueB, sTaskThreadPicker, sMutex, pc, theTask, signalled>>

PoolInit ==
    /\ fTaskQueueB = [t \in TaskThread |-> << >>]
    /\ sTaskThreadPicker = 0
    /\ sMutex = None
    /\ pc = [t \in TaskThread |-> "wait"]
    /\ theTask = [t \in TaskThread |-> None]
    /\ signalled = None

\* Mutant: the counter is not taken modulo the number of threads.
NextThreadUnbounded == sTaskThreadPicker + 1

\* The thread the next Signal hands its task to.
NextThread == (sTaskThreadPicker + 1) % NumTaskThreads

\* Task::Signal on a task that is not alive yet.  GetThread takes the pool
\* mutex, so the caller waits while a task runs,
GetThread ==
    /\ sMutex = None
    /\ sTaskThreadPicker' = NextThread
    /\ UNCHANGED <<fTaskQueueB, sMutex, pc, theTask, signalled>>

\* but has given it back when it enters the task into the queue.
EnQueue(k) ==
    /\ fTaskQueueB' = [fTaskQueueB EXCEPT ![sTaskThreadPicker] = Append(@, k)]
    /\ signalled' = k
    /\ UNCHANGED <<sTaskThreadPicker, sMutex, pc, theTask>>

\* Its last line reads the name of the task, which a thread may have deleted.
ReadTaskName ==
    /\ signalled' = None
    /\ UNCHANGED <<fTaskQueueB, sTaskThreadPicker, sMutex, pc, theTask>>

\* Mutant: the task stays in the queue it is taken from.
WaitForTaskPeek(t) ==
    /\ pc[t] = "wait"
    /\ fTaskQueueB[t] # << >>
    /\ theTask' = [theTask EXCEPT ![t] = Head(fTaskQueueB[t])]
    /\ pc' = [pc EXCEPT ![t] = "lock"]
    /\ UNCHANGED <<fTaskQueueB, sTaskThreadPicker, sMutex, signalled>>

\* TaskThread::WaitForTask.  The timed wait is a poll: nothing happens when
\* the queue stays empty for 10 ms.
WaitForTask(t) ==
    /\ pc[t] = "wait"
    /\ fTaskQueueB[t] # << >>
    /\ theTask' = [theTask EXCEPT ![t] = Head(fTaskQueueB[t])]
    /\ fTaskQueueB' = [fTaskQueueB EXCEPT ![t] = Tail(@)]
    /\ pc' = [pc EXCEPT ![t] = "lock"]
    /\ UNCHANGED <<sTaskThreadPicker, sMutex, signalled>>

\* The MutexLocker of TaskThread::Entry, held until the task is deleted.
LockPool(t) ==
    /\ pc[t] = "lock"
    /\ sMutex = None
    /\ sMutex' = t
    /\ pc' = [pc EXCEPT ![t] = "run"]
    /\ UNCHANGED <<fTaskQueueB, sTaskThreadPicker, theTask, signalled>>

\* A step inside Run() or inside the deletion of the task.
Goto(t, from, to) ==
    /\ pc[t] = from
    /\ pc' = [pc EXCEPT ![t] = to]
    /\ UNCHANGED <<fTaskQueueB, sTaskThreadPicker, sMutex, theTask, signalled>>

\* The end of the loop body of TaskThread::Entry: the task is gone and the
\* mutex is released.
FinishTask(t, from) ==
    /\ pc[t] = from
    /\ pc' = [pc EXCEPT ![t] = "wait"]
    /\ theTask' = [theTask EXCEPT ![t] = None]
    /\ sMutex' = None
    /\ UNCHANGED <<fTaskQueueB, sTaskThreadPicker, signalled>>

\* Where a task is in the pool: <<t, n>> is place n of the queue of thread t,
\* <<t, 0>> is thread t itself.
PlacesInPool(k) ==
    {<<t, 0>> : t \in {u \in TaskThread : theTask[u] = k}}
    \cup UNION {{<<t, n>> : n \in {i \in DOMAIN fTaskQueueB[t] : fTaskQueueB[t][i] = k}}
               : t \in TaskThread}

=============================================================================
