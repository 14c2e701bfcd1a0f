# A verification project for P2Chat

TLA+ models of P2ChatServer and P2ChatClient, TLC configurations that check
them on small instances, and theorems that TLAPS proves for instances of every
size. Paths are relative to the repository. `PROJECT.json` maps every
definition to the lines it models, lists the runs, the mutants that show that
each property can fail, the hazards of the code and the theorems.

## 1. The system

P2Chat is a Windows chat server with a Qt client. `ChangeLog.md` (version 1.0.1)
gives the shape of the server: a reactor of eight threads (main, log, database
connection pool, event thread, four task threads) over MySQL. There are no
automated tests; `P2Test` is a tool with which a person sends packets.

    peers --TCP--> Winsock --window message--> event thread --Signal--> task threads
    clients -UDP->   ^                         (Event.cpp)              (Task.cpp)
                     |                                                  |  TCPSession::Run
                     +------ WSAAsyncSelect <---- RequestEvent ---------+  UDPSession::Run
                                                                        |
                                   MySQL <-- p2_dbapi <-- connection pool <-- registration

| Component | State | Operations | What makes it hard | What makes it correct |
|---|---|---|---|---|
| Tasks and task threads (`Task.cpp`) | queue per thread, picker, pool mutex, alive bit | `Signal`, `WaitForTask`, `Entry`, `~Task` | a task is queued by one thread, run and deleted by another while the first may still be in `Signal` | a task is in one place from its construction to its deletion, and nobody but that `Signal` knows a deleted one |
| Events (`Event.cpp`) | id counter, `fEventTable`, reference set per event | `RequestEvent`, `RegisterEvent`, `UnRegisterEvent`, dispatch | ids wrap; the look-up lock is released before the call; an event is deleted by its last task | what is dispatched to is alive; a watched socket is found |
| One-shot notification (`p2_util.cpp`) | which sockets are armed, window messages | `select_waitevent` disarms, `select_modwatch` arms | messages outlive the arming, handles are reused | one reader at a time, nobody forgotten |
| TCP service (`TCP*.cpp`) | handle, closed flag, remote address | accept, receive loop, close, delete | close and read sessions of one connection on two threads | everything accepted, read, and in the end deleted |
| UDP service (`UDP*.cpp`) | one socket, a session per datagram | `ReadMessage`, the switch of `Run`, `SendMessage` | four threads answer for one socket | requests are answered in order |
| Connection pool (`ConnectionPoolThread.cpp`) | connections with use mark and count, auto-reset event | populate, acquire, release, shrink, reset | lost wake-ups, the last slot, a connection picked while it is reset | exclusive use, limit, everyone is served or overtaken |
| Database layer (`p2_dbapi.cpp`, `mysqldrv.cpp`) | two recursive mutexes, transaction level, prepared statements, results with a cursor | prepare, execute, select, fetch, begin/commit, reconnect, bind, get | a reconnect invalidates statements under their users; unbuffered results and transactions keep mutexes between calls; four kinds of result | no statement of a lost connection is used or freed twice; every lock is given back; a value is read as it was stored |
| Registration (`user_registration_info`, `UDPSession.cpp`, client) | `user_info`, ids of messages, what was sent | register, look up, reply, dispatch the reply | results that are ignored, restarts, lost and late replies | the user is told the truth |
| Log thread (`LogThread.cpp`, `log_write`) | record queue, file, its history, rotation policy | enqueue, write, rotate | rotation while records arrive, renames and opens that fail | no record lost without need, none out of order |
| Primitives (`Mutex`, `Cond`, `Queue`, `Thread`) | recursion count, wait count, auto-reset event | lock, wait, signal, broadcast, queue | events that count once, timed waits | mutual exclusion, no lost element |
| Message codec (`p2_cpapi.cpp`) | header, table of attributes | set, get, build, parse | sizes are read before or after their bytes are swapped, attributes are replaced | what is built is what is parsed |
| Session table (`Session.cpp`) | sessions by id | add, get, delete | id from the clock | ids unique |
| Client dialogs, `HashMap`, `Iterator`, `ServerInterface`, `Address`, `Socket`, uthash, documents | - | - | thin wrappers, unused, third-party or no protocol state | not modelled, see section 7 |

All tasks run under one mutex (`Task.cpp:76`), taken for a whole `Run()` and the
deletion of the task. So the interleavings that matter are those of the event
thread, Winsock and the peers with the one task that runs and with the tasks
that wait in queues or between dequeueing and locking.

## 2. Modules

| Module | Models | Composed of |
|---|---|---|
| `TaskThreadPool` | state and steps of the task threads | - |
| `TcpReactor` | listener, event thread, notification, `TCPSession::Run`, deletion of a `TCPSocket` | extends `TaskThreadPool` |
| `TcpServer` | abstract: a connection is accepted, reported, read, closed and deleted in turn | `TcpReactor` instantiates it |
| `UdpRequests` | kinds of datagrams and the replies the switch of `UDPSession::Run` gives | - |
| `UdpReactor` | UDP socket, event thread, notification, `UDPSession::Run` | extends `TaskThreadPool`, `UdpRequests` |
| `UdpServer` | abstract: take one request, answer it, take the next | extends `UdpRequests`; `UdpReactor` instantiates it |
| `EventTable` | ids of many connections that come and go, table, `~Event` | - |
| `ConnectionPool` | acquire, release, wake-ups, start of the reset | - |
| `PreparedStatements` | a database handle, the statements prepared on it, reconnects | relies on the exclusive use that `ConnectionPool` shows |
| `RecursiveMutex` | `Mutex`: holder and count | - |
| `DbConnection` | a handle that threads share: its two mutexes, unbuffered results, transactions, lost connections | extends `RecursiveMutex` |
| `LogThread` | writers, record queue, the log thread, files and their rotation | - |
| `Message` | the table of attributes, sizes, byte order, `CreateMessage` and the constructor | - |
| `DbFields` | `DBBind`, the cursor of the four kinds of result, the getters | - |
| `UserRecord` | a value from the form of the client to a row of the table and back | extends `Message`, `DbFields` |
| `Registration` | client ids and table, UDP, `user_registration_info`, `user_info`, crashes and restarts | relies on the in-order service that `UdpReactor` shows |
| `DatabaseProofs` | inductive invariants and theorems of `ConnectionPool` and `PreparedStatements` | extends both, which is why `PreparedStatements` calls its specification `HandleSpec` |
| other `*Proofs` | inductive invariants and theorems of the module they are named after | extend it |
| `MC*` | the instances TLC checks | extend the module |

How state and actions correspond to the code:

- **TaskThreadPool.** `pc[t]` is where thread `t` is in `TaskThread::Entry`:
  "wait" in `WaitForTask`, "lock" between the dequeueing and the `MutexLocker`,
  further values inside `Run()` and `~Task`. `Signal` is three steps. `GetThread`
  takes the pool mutex, so it waits while a task runs, and gives it back;
  `EnQueue` puts the task into the queue of the thread that was picked, and from
  then on the task may be run and deleted; and then `Signal` reads the name of
  the task for its debug line (`Task.cpp:47`). `signalled` is the task it does
  that with. The value that is read is only logged.
- **TcpReactor.** `armed` is the set of sockets with a `WSAAsyncSelect` mask,
  `msgs` the queue of `sMsgWindow`. `RequestEvent` posts at once what is pending,
  as Winsock documents. A message names a *handle*; `SocketsOf` says whose it is
  now, so the reuse of handles is modelled. `ProcessEvent` of a TCPSocket is
  the constructor of the task, which enters the reference set, and the three steps
  of `Signal`. The
  deletion of a connection is three: leave the reference set, close the handle
  (`~TCPSocket`), unregister (`~Event`); the event thread may act in between.
  `Turn` maps all of it to whose turn it is on a connection, the only thing that
  `TcpServer` knows besides peers and data.
- **UdpReactor.** A datagram is a client and one of the six kinds the code tells
  apart. `SendMessage` chooses among `Replies`; re-arming is its own step because
  a datagram may come between the reply and it. `Signal` is in three steps here too.
- **EventTable.** The event thread takes a message (`WaitEvent`), looks its id up
  under the lock of the table (`LookUp`), and calls the event without the lock
  (`AcceptClient`, `NewSession`). A task runs (`RunRead`, `RunClose`), leaves the set
  of its event (`DeleteTask`) and may delete the event (`FreeEvent`), under the pool
  mutex, while the event thread goes on. Who holds a deleted event goes no
  further, since anything may follow. Which message leads to which session is
  left open, which allows more than the code. A socket has one message at most,
  as under the graceful peers of `TcpReactor`. Datagrams play no role, so the id
  of the UDP socket is left out; it is one more entry that is registered once and
  never deleted.
- **ConnectionPool.** What happens between Lock and Unlock of
  `m_poolAccessMutex` is one step. `Cond` is a boolean: a second `SetEvent` is
  lost. `TimedOut` may happen at any time and has no fairness. The counts of uses,
  by which the idle connection is picked, are left out and so is the choice;
  callers may therefore come back for ever. The maintenance thread ends the
  process (`crashed`): see "NULL in the reset list" below.
- **PreparedStatements.** Statements and results are addresses, because two things
  depend on them: what `std::remove` leaves in the vector, and that malloc gives an
  address out again. `Removed` is `std::remove` as it is specified: kept elements to
  the front, the tail unchanged. A result keeps the connection it was made on and,
  if it is of a prepared statement, the statement; `bound` is the result to whose
  `lengthFields` the MYSQL_STMT writes. Buffered results of text queries refer to
  their own rows only and are left out. A reconnect and what the call does after
  it are one step; `Then` is the second part. A step that would use freed memory
  sets `undefined`, after which the model stops. `DBDisconnect` is called when no
  statement and no result is left. Calls that fail and change nothing are left
  out, those that MySQL refuses because rows are unread among them.
- **DbConnection.** A call goes from "lock" (before `m_mutexTransLock` is taken) to
  "driver", and on an error of the connection through "reconnect" (the statements are
  invalidated), "disconnect" (the MYSQL_CONN is deleted, and its query lock with it)
  and "connect" to "again". `DBPrepareEx` ends with "list" and "push", which put the
  statement into `m_preparedStatements` without a lock; the vector is intact, stale
  (it holds a freed address) or torn (two threads were in it at once).
  `DBFreeStatement` is "remove", and then `DrvFreeStatement`, which waits for the query
  lock ("queryLock") and has it ("holding"), as the getters of a buffered result of a
  prepared statement do: these two take the query lock alone, and a reconnect may
  delete it under them. An open unbuffered result keeps both mutexes, a
  transaction the first. `begun` counts what `DBBegin` has kept: the recursive mutex
  is locked at every level and unlocked by nobody, since commit and rollback unlock
  only what they locked themselves. A buffered result of a
  statement outlives its connection when a call reconnects ("outlived"); callers free it
  before the statement. `apart` is history: has the
  connection been lost in a transaction, or its end failed, since the level and
  the server last agreed? `overtaken` is history too: in whose calls, since they
  prepared their statement, has another thread reconnected? A step that would use
  freed memory (`UsesFreed`) stops that thread. MySQL's rule that a connection with
  unread rows refuses commands is `OutOfSync`. Each thread has at most one statement,
  one unbuffered and one buffered result.
- **LogThread.** A record is the number it gets when it is queued. A writer looks
  at the flag in one step and queues in another. The thread's steps are its calls
  of the file system, since the process may end after each of them: a rotation
  by size is `CloseLog`, `UnlinkLog` of the last file, a `RenameLog` for every other (the
  loop index is `i`) and `ReopenLog`, one by day has `RenameByDay` instead. `disk` holds
  the current file (-1) and its numbered history, `archive` the files named after
  days. `mishap` is history: has something happened that the code has no answer to,
  which is a rename or an open that fails, or an end of the process with records in
  memory? `cutShort` is history too: how often has the process ended inside the loop
  of a rotation? Days begin in order (`LogAssumption`). `InOrder` and `NothingLost`
  speak of every place a record can be in: a file, the thread's hands, the queue.
- **Message, DbFields, UserRecord.** An attribute's content is a sequence of units
  (a number, characters, bytes), and every size and unit is a field that knows
  whether its bytes are swapped: reading one on the wrong side of the swap gives
  another number, which is all that byte order means here. `mf_*` flags are bits, so
  their swap is a shift by eight. A width of integers is given by how many numbers
  there are of it, `Narrow` for 2^32 and `Wide` for 2^64. The loops over attributes
  and texts are recursive functions (`AttrEnds`, `parsed`, `Utf8Length`). `UserRecord`
  is the way `user_registration_info` takes with one attribute of each kind of
  value, and with readers that take any field of any row in any of the four kinds of
  result (plain or prepared, buffered or not); `form`, `written` and `reading` are
  history. The server has room for `MaxUDPPacket` bytes: a longer message is refused
  (`RefuseMessage`) and gone. Readers bring a buffer of one of the sizes in `BufferSize`,
  or none, in which case `DBGetField` makes one (`OwnBuffer`); what a buffer holds that is
  too small for `MultiByteToWideChar` is `Unset`. `P2Test`'s way of filling a message, one attribute of a chosen type
  for each line, is the same sequence of `SetAttr`. One datagram is under way at a
  time (`network`): what many clients in a hurry do is the subject of `UdpReactor`.
- **Registration.** The server is one process and the ports are fixed. `told`
  is history: what message boxes said. The time is a counter, because PP numbers
  are seconds. `isSet` marks replies whose `userID` and `userPP` were never
  assigned (`UDPSession.cpp:65`): these hold any value.

## 3. Runs

| Run | Result | Shows | States |
|---|---|---|---|
| `tcp_graceful` | pass | one turn, no deleted TCPSocket is used, a deleted task is known to its `Signal` alone, nothing closed is left behind, own messages only; implements `TcpServer` with fairness, so every connection is accepted and everything read; reclaimed | 323 k |
| `tcp_reset_leak` | violation | `DeletedWhenAllRefTasksFinished` | - |
| `udp_service` | pass | one turn, no empty read, implements `UdpServer` with fairness | 120 k |
| `pool` | pass | exclusive use, limit, everyone is served or overtaken for ever | 17 k |
| `event_ids` | pass | nothing dangling in the table, nor in anybody's hands before a wrap; listener found for ever, everyone found before a wrap | 298 k |
| `statements` | pass | a valid statement is in the vector and of the current connection; freed memory is used only through stale addresses and outlived results | 1.34 M |
| `registration` | pass | replies dispatched to what they answer, accounts told of exist | 56 k |
| `registration_told` | violation | `SucceedRegister` | - |
| `log` | pass | files in order, nothing lost without a mishap and the history full, flag and file agree; the queue is drained | 531 k |
| `db_connection` | pass | every lock accounted for, results read their own rows, level and server agree, freed memory is used only as `SafeAlone` says | 5.30 M |
| `db_served` | pass | every call returns, however often the connection is lost | 907 k |
| `user_record` | pass | messages delivered as filled in if they fit a datagram, fields read back as stored | 349 k |

**Bounds.** `tcp_graceful`: two connections are what the reuse of a handle and the
contention for the pool mutex need; two threads are what two sessions of one
connection on different threads need; two sends let data arrive during and after
the receive loop; four tasks are more than can be outstanding at once.
`udp_service`: three datagrams are one being answered, one whose FD_READ is posted
and one that arrives when the socket is re-armed. `pool`: four callers for at most
two connections are a user, a user of the grown slot and two waiters; there is no
bound on how often they come back. `event_ids`: three ids for five events wrap
over the listener's id and one more; two tasks per socket are a task that runs and
one that a message after a wrap has brought. `statements`: three addresses let
`std::remove` move a live statement over a freed one and leave another behind it;
two results let a statement have a later one; five statements and three
connections use every address again, before and after a reconnect; addresses are
symmetric, nothing tells them apart. `registration`: two
forms, two clicks for each of two client processes (the first click of a process
is always dropped, see below), two seconds, one crash. `log`: two writers let a
record be queued after another writer's look at the flag; one record fills a file
and the history has the files .0 to .2, so five records rotate past its limit and
leave a second rename in the loop, inside which the process may end; days begin
at 0, 2 and 5, the second one instant longer than the two that the code counts, in
which every record rotates the log again; one fault, one end of the process.
`db_connection`: two threads, one inside a call while the other waits or reconnects,
symmetric; two calls of `DBBegin` each are a nested transaction; calls and losses
of the connection have no bound. `db_served`: the same without `DBBegin`, after which
`Served` promises nothing; and without symmetry, which is not sound for liveness.
`user_record`: integers of 3 and 5 bits with 0, the highest positive and the lowest
negative values, texts that are empty, end exactly at a buffer, are cut by one,
hold a character of three bytes, or do not fit their column, byte values above 127;
a datagram takes 109 bytes, exactly what one form has and one less than another;
two rows let a cursor move back and forth, one changed attribute moves to the end
of the table. The bounds `MaxRecords`, `MaxClock`, `MaxFaults`, `MaxBegun`, `MaxRows`,
`MaxChanges`, `MaxSelects`, `MaxSends`, `MaxArrivals`, `MaxSessions`, `MaxClicks`, `MaxStarts`,
`MaxSeconds`, `MaxCrashes`, `MaxConnections` and `MaxPrepares` appear only in guards and
types. `MCPreparedStatements` also compares `Removed` with a definition by `SelectSeq`
on all lists of up to five elements. `CHECK_DEADLOCK FALSE`: the runs stop when their
bounds are used up and nothing is left to do; that nothing is left undone is what
the liveness properties say. Besides, threads of `db_connection` may have used freed
memory or wait for ever for what `DBBegin` has locked, the holder of a deleted event
goes no further in `event_ids`, and the process may have ended in `pool`.

**Fairness.** The event thread and each task thread are weakly fair: they are OS
threads that the scheduler runs, and the order in which mutexes are granted is
left open beyond that. In the pool, callers inside `Acquire` and `Release` are
weakly fair, as is waking up when the event is set, and they give back what they
use; asking and the timeout are not fair. That does not keep a caller from being
overtaken, and nothing in the code does: `ServedOrOvertaken`. The log thread is
fair, its writers are not. In `DbConnection` a thread is strongly fair inside a call
(a critical section of Windows is taken to be fair: who waits for one that is free
again and again gets it), and the database comes back some time (`DBReconnect`
tries until it does). Making calls, fetching and freeing results are not fair, so
`Served` promises nothing while a result stays open, a transaction was begun or
freed memory was used.
Peers, clients and users are never fair, with one exception: `PeerRejects`, a
peer that has closed answers data with a reset, as its TCP stack does. `Reclaimed`
needs it because of the receive loop, below.

### What the violations mean

- **A TCPSocket that nobody deletes** (`tcp_reset_leak`). `fDeleteEvent` belongs to
  the task, not to the event. If a connection is reset while data it sent is
  unread, Winsock posts a close although a read session is outstanding. If the
  close session is deleted first, the read session is last, was not told to
  delete the event, and the socket and its handle stay for ever. `AbruptReset`
  separates this: `tcp_graceful` sets it FALSE, and checks that without such
  resets all is well.
- **Congratulations without an account** (`registration_told`). The result of the
  INSERT decides only whether an id is looked up; the reply is
  MSG_REQUEST_SUCCEED in any case, with a PP number of no account.

### What else the models show

These follow from the models' definitions, and the passing runs allow for them;
no run is spent on them.

- **NULL in the reset list.** `vector reconnList(size)` starts with NULL entries and the
  expired connections are appended (`ConnectionPoolThread.cpp:165`), where the
  comment at line 179 speaks of available connections only; the first maintenance
  round, after `m_connectionTTL * 750` ms (three hours with main's values), sorts
  and dereferences them. The process ends there, which is all that the model has
  of it (`ResetExpiredConnections`).
- **Suspended beside an idle connection.** `ConnectionPoolThread.cpp:260` says that
  a caller is suspended until a connection is available. Two `SetEvent`s of an
  auto-reset event wake one waiter; the other waits up to 10 s. No wake-up is lost
  for good, since whoever is woken signals in its turn, but a caller that comes
  later may be faster each time: a waiter can be overtaken for ever, and
  `ServedOrOvertaken` says that nothing else keeps it from a connection.
- **Ids that are not unique.** `p2_util.cpp:215` speaks of a unique id. After 31,744
  registrations the counter wraps without looking at the table; the second event
  with an id is not registered, and its messages go to the first. The event
  thread may then look an event up and call it after its last task has deleted
  it, because `Event.cpp:114` releases the lock before the call. The same happens
  after a reset that drops unread data, which gives one connection two messages.
  What holds nevertheless is in `event_ids` and `tcp_graceful` and is proved.
- **Freed statements in the vector.** `DBFreeStatement` calls `std::remove` without
  `erase`. The last element of the vector, and with one statement that is the
  statement itself, stays. Every registration leaves one such address behind, and
  the first connection loss after that makes `InvalidatePreparedStatements` use freed
  memory. An owner can always free its own statement.
- **Results that outlive their connection.** A buffered result of a prepared statement
  keeps the statement and the connection (`mysqldrv.cpp:526-528`), and its getters
  use both. A later call on the handle may reconnect without telling, and a later
  result of the same statement takes its place in the MYSQL_STMT, freed or not.
  `OnlyThroughVectorOrResult` says that the vector and such results are the only ways
  to freed memory.
- **Begin without end.** The level of a transaction is counted down by commit
  and rollback, the mutex is not unlocked as often: after `DBBegin` the handle
  belongs to its thread for ever. Nothing calls `DBBegin` today.
- **A transaction that goes on outside.** If the connection is lost in a
  transaction, the next query reconnects and is executed in none, while the level
  says otherwise until commit or rollback (`apart`).
- **Rows left behind.** `mysqldrv.cpp:1082` takes the connection for ready for the
  next query once a result is freed. The rows of a plain unbuffered result are
  read; those of a prepared one that is freed before its last row are not, and
  the next call of anybody fails, until the statement is executed again or the
  connection is made anew. Freeing the statement
  throws them away as well. `RowsOwned` covers everything but that.
- **A statement under a reconnect.** A statement is checked before the mutex is
  taken and listed after it was given back; a reconnect by another thread in
  between leaves it freed in use, or unlisted. The vector itself is unsynchronised
  (`p2_dbapi.cpp:1032`), so two threads in it may lose an entry. And a reconnect
  deletes the query lock, which getters and `DrvFreeStatement` of other threads may
  hold or wait for. `SafeAlone` says that nothing else goes wrong: on a handle in
  whose vector no two threads were at once, a thread that nobody overtook has
  no statement that a reconnect misses and uses nothing freed, but for its
  results of before a reconnect and the stale addresses of the vector.
- **Records that are dropped.** What is logged during a rotation is dropped by the
  writers, and what is queued when the process ends is lost. A rotation whose
  rename fails truncates the file it could not move, and one that cannot open the
  new file drops everything from then on. On a day longer than 86,400 s every
  record of the extra time rotates the log again, finds the name of the day taken
  and truncates the file: the one mishap that needs no error. An end of the
  process inside the loop of a rotation by size, after the unlink, leaves the
  history one file shorter for good. Otherwise it holds one file more than
  `fLogHistorySize`.
- **The name of a deleted task.** `Task::Signal` logs the name of the task after it was
  queued (`Task.cpp:47`; `P2CHAT_DEBUG` is on in `p2_common.h:51`), when a task thread may
  have run and deleted it. `OnlySignalOutlivesTask` says that this is the only
  way in which anybody still knows a deleted task.
- **Forms that are too long.** The server reads a datagram into 1,500 bytes
  (`UDPSession.cpp:213-217`). A longer one makes `recvfrom` fail and is gone; the answer is
  a FAILED without the id of a request, which the client only logs.
  `Delivered` is about messages that fit.
- **Floating point attributes.** `htonf` and `htond` return integers that are
  converted to floating point (`p2_cpapi.cpp:145,148`): any number but 0 arrives as
  another. Nothing sends one today.
- **Binary messages.** The constructor of `Message` tests `mf_binary` before it swaps
  the flags (`p2_cpapi.cpp:37`), and never finds it.
- **Bytes for characters.** A plain unbuffered result takes the length in bytes
  for the number of characters (`mysqldrv.cpp:1032-1037`): a text with characters of
  more than one byte ends with what was in the buffer. `DBGetFieldByteArray` gives
  bytes above 127 as negative numbers, `DBGetFieldByteArray2` as they are.
- The first registration of every client process is dropped, because
  `g_messageCounter` is `static` in a header and both of its copies start at 0, where
  the request for server information is already in the table; and the receive
  loop of `TCPSession::Run` goes on after a graceful close, with the pool mutex
  held, until the peer rejects a reply.

## 4. Proofs

Theorems hold for every value of the constants that satisfies the module's
ASSUMEs: any number of task threads, tasks, clients, callers, connections,
events, ids, statements, records, days, forms, clicks, calls, faults and crashes.
All theorems of `TcpReactorProofs` but the first two have the hypothesis
`~AbruptReset`: no peer resets its connection while data it sent is unread.
Without it they are false, which `tcp_reset_leak` shows of `ClosedIsDeleted`; what
holds even then is that every variable keeps its type, and that a task is in one
place until it is deleted and only with its `Signal` afterwards.

| Module | Theorems | Inductive invariant |
|---|---|---|
| `UdpReactorProofs` | `TypeCorrect`, `AlwaysOneTurn`, `AlwaysReadIsReady`, `ReactorImplementsServer` | `OneTurn` and: the mutex is held exactly from LockPool to FinishTask, a request is in hand exactly between reading and answering, a message is posted exactly while the socket is armed and has data, whoever is to read has a datagram ahead; while a thread is being picked for a new session there is no other |
| `TcpReactorProofs` | `TypeCorrect`, `AlwaysOnlySignalOutlivesTask`, `AlwaysOneTurn`, `NeverUsedAfterFree`, `ClosedIsDeleted`, `SwitchedOff`, `ReactorImplementsServer` | `Mechanics`, whatever the peers do: who holds the mutex, where a task is, who points to a TCPSocket, which tasks may delete one; what a reference set holds is a task that exists, and a task that is being deleted is in none (`InReferenceSet`). `Discipline`, for graceful peers: open handles differ, a connection has at most one message and only while it is armed, `Turns`, what the reference set holds, the way from the backlog to the end, and a closed TCPSocket has a thread that deletes it. `Reasons`: a close is due wherever one is reported |
| `DatabaseProofs`, of the pool | `PoolTypeCorrect`, `AlwaysExclusive`, `AlwaysWithinMax` | `Exclusive`, `WithinMax` and: a caller has a handle exactly while it uses a connection |
| `EventTableProofs` | `TypeCorrect`, `NeverDangling`, `AlwaysListening`, `AlwaysFoundUntilWrap` | an entry of the table is live and is the event it was made for; a socket with a session is the one registered under its id, so only a registered event is ever deleted, and unregistering by id cannot hit another. Before the wrap (`WInv`): ids are given in order, each to one event, a watched event is in the table, and of arming, message, look-up and pending task a socket has one at most (`OneParty`), so that whoever deletes an event has been the last to know it |
| `LogThreadProofs` | `TypeCorrect`, `AlwaysFlagMatchesFile`, `AlwaysInOrder`, `AlwaysNothingLost` | `Framework`: types, no file is named after a day that is not over, what each policy never makes, empty hands between two records. `InOrder` is inductive with it. `Intact`: without a mishap files and memory hold all of the newest records. The numbers free in the history are at most one for each end of the process in the loop, and one more inside it |
| `DatabaseProofs`, of the statements | `HandleTypeCorrect`, `InvalidationComplete`, `ValidAreCurrent`, `OnlyVectorOrResultDangles` | `ValidIsListed`, `ValidIsCurrent`, and no statement is left when the handle is closed. `RemovedKeepsOthers` shows for vectors of any length that `std::remove` loses no other element, since no two kept elements get the same place |
| `DbConnectionProofs` | `TypeCorrect`, `AlwaysAccounted`, `AlwaysOwnRows`, `LevelMeansTransaction`, `AlwaysSafeAlone` | `LocksAccounted`, `RowsOwned`, `TransactionOpen` and: what a call has of statement and results at each of its steps (`CallsInOrder`); a statement is unlisted exactly at "list" and "push", and missed or freed under a call only if its thread was overtaken or the vector torn (`StatementsInOrder`); a level above 0 belongs to the holder of the mutex, begin, commit and rollback are sent at level 0, and a lost connection has no transaction (`LevelInOrder`) |
| `RegistrationProofs` | `TypeCorrect`, `AlwaysDispatchedAsSent`, `AlwaysToldAccountExists` | what is in the sockets and the server is from this client or an earlier one, this client still has it in its table, and the accounts it speaks of exist |
| `UserRecordProofs` | `AlwaysDelivered`, `AlwaysReadBack` | the client's message is new or has every attribute of the form, once, in some order, and the size that they add up to; what is under way was made of such a message; every row is what its form becomes; a result has the first rows of the table, and its cursor is where the driver believes it to be if it can be moved; what was read last is as it was filled in |

Each proof has the same shape: a lemma that Init implies the invariant, one lemma
per action or group of actions that disturb the same conjuncts, a lemma that
puts them together, and theorems that are consequences. `ReactorImplementsServer`
of `UdpReactorProofs` maps a request to "being served" while the thread that holds
the mutex has it in hand; reading is the server's `Take`, the reply its `Answer`,
everything else a stutter.

**The TCP service.** A turn passes from Winsock (armed) to the event thread
(`WaitEvent`), to a session (`EnQueueSession`) and back (`RecvFails`) or to nobody
(`RunClose`). That `WaitEvent` disarms the right socket needs that no message outlives
its connection's handle: messages exist only while the socket is armed, and a
socket is closed only after it was switched off. That a socket is armed with at
most one message in the queue is where a reset that drops unread data breaks the
argument: a read and a close are posted for the same connection. The deletion
rests on the mutex: a thread that deletes a task of a closed connection finds no
other task of it that is new (the event thread would have the turn) or pending,
so the task is the last one and was told to delete (`ClosedHasOne`). Hence only
one thread ever frees a TCPSocket, and nobody else has a pointer to it.

**The log.** A rotation by day moves the current file behind the files of earlier
days, a rotation by size behind those with higher numbers, so that the places of
records stay in the order of the queue; `Calendar` and `ByPolicy` are what rules out
that a file is put over a newer one. `Intact` follows the newest records through a
rotation: what the current file loses, the file it is renamed to has got.
That a file is unlinked only when the history is full is counting: the loop
moves the one free number from the end of the history to its front, an end of
the process leaves it where it is, and nothing else frees a number.

The locks of `DbConnection` need one more idea: `LocksAccounted` alone says that
every thread that has entered holds the first mutex, so two of them would be
the same thread; that makes each step of one thread harmless to the claims of
all others, which is how the lemmas use it.

**The values.** `UserRecordProofs` is mostly about data. Each loop is a recursive
function, which TLA+ defines as some function that satisfies its equation; so a
lemma first shows one that does, and then by induction that any other agrees with
it. The induction is over the elements of a set (`InductionTo`, from the fact that
`<` on the naturals is well-founded), because the provers cannot instantiate a
theorem whose parameter is an operator. On the way out, `SetSame` shows that an
attribute that is set again leaves a table with each code once; `EndsGrow` that
attributes do not overlap, so that at each place one begins at most; `SameSize` that
sender and receiver read the same sizes, each on its side of the swap; `TotalMoved` and
`TotalReplaced` that the size of a message does not depend on the order of its
attributes, so that it fits a datagram or does not whatever was set again; `RoundTrip`
follows the constructor through the datagram. On the way back, `NumberBack` is the
arithmetic of bits and signs for any even number of numbers, `HexBack` and
`BytesBack` are the hexadecimal text and what the buffers of the byte getters cut off,
`TextBack` is the plain unbuffered result with its two lengths, and `SeekFinds` the
cursor. Forms, attributes, their order and kinds, widths, texts and buffers are
arbitrary; `ByteCount` is at most 127, because the 256 characters that
`DBGetFieldByteArray` reads into (`p2_dbapi.cpp:659`) have room for the digits of no more.

Only model checked: liveness (`Drained` of the log, `Reclaimed`, `Served`, `ServedOrOvertaken`, and the
fairness halves of `ServesInOrder` and `ServesConnections`), which the prover cannot
reach. `Removed` of `PreparedStatements` against its definition by `SelectSeq`, which
has no axioms in the prover, is compared by TLC; what the proofs need of it is
proved directly (`RemovedKeepsOthers`).

## 5. Assumptions

- Winsock: `WSAAsyncSelect` cancels nothing that is already posted, posts what is
  pending when it is called, posts FD_READ once until data is read, and posts
  FD_CLOSE after all data is read on a graceful close, but at once on a reset.
- A window message is never lost (the queue limit of Windows is not modelled).
- MySQL keeps `qq` and `email` of `user_info` unique, as `Package/p2chatserver.sql` says.
  That file lacks the columns the INSERT names (`pp` among them), so the schema
  that is deployed is another one, and no other key is assumed.
- In `PreparedStatements` a database handle is in one thread's hands at a time, and
  what a thread prepared it frees. The pool alone does not give that:
  `user_registration_info` releases its connection (`p2_dbapi.cpp:1792`) before it frees
  the statement (line 1793). `DbConnection` has several threads on one handle, each
  with one statement, one unbuffered and one buffered result at most. Reconnecting
  is enabled, as `DBConnect` sets it and nobody changes.
- MySQL refuses commands while rows of an unbuffered result are unread, and throws
  away those of a statement that is executed again; a lost connection rolls
  its transaction back; columns refuse what does not fit (strict mode).
- A critical section of Windows is fair to those who wait for it (`Served`).
- `MultiByteToWideChar` does not say what a buffer that is too small for it contains:
  nothing is claimed of it. Texts have no NUL, at which the code would cut them, and
  only characters of the basic plane.
- A file is not renamed to a name that is taken (Windows), and the clock does
  not run backwards.
- UDP on the local host may lose datagrams when a buffer is full; it neither
  reorders nor duplicates them. A datagram that the sender's side refuses counts as one
  that the server refused.

## 6. Plan

1. Done: the reactor for TCP and UDP, the event table, the connection pool,
   registration, prepared statements, the shared database handle, the log thread,
   the message codec and the values of the database; runs and theorems as above. `Signal`, the look-up of events, the
   rotation of the log and the reconnect are in steps of their own where another
   thread or an end of the process can come in between.
2. Done: proofs of every safety property the runs check, and of the safety half
   of both refinements.
3. Session table and login, with ids taken from the clock, once a request uses a
   session.
4. The task queue shown to implement an abstract FIFO; `Cond` with its
   unprotected wait count; maintenance of the pool by itself, as if the reset list
   were right.

## 7. Not modelled

- What nothing calls: `RemoveThreads`, `TCPSocket` `Connect`, `TCPListenerSocket::Run`,
  `Mutex::TryLock`, `Cond::Broadcast` (but for the shutdown of the pool), `GetAttrAsBinary`, `get`
  into a buffer of the caller, `CalculateTotalAttrSize(MESSAGE *)` (whose pointer moves by
  the sum of the sizes so far, `p2_cpapi.cpp:325`), `DBConnectionPoolShutdown`; and
  `LogClose`, which only the destructor of `LogThread` calls.
- `DBConnectionPoolShrink` and the reset of expired connections after their first
  NULL entry: the process has ended by then. So that entry, and `m_connections`
  holding a deleted object, is a hazard without a property.
- The length of a log record: `log_debug` copies it with `_tcscpy` into 512 characters
  (`LogThread.h:27`), and the hexadecimal dump of a datagram (`ChatClient.cpp:110`,
  `UDPSession.cpp:228`) is longer from some 230 bytes on. Records are numbers in
  `LogThread`, so this hazard has no property either; nor have outputs that are
  never assigned (`UDPSession.cpp:65`) and PP numbers that two accounts share
  (`p2_dbapi.cpp:1739`), which `Registration` allows for.
- The counts of uses in the pool, a `UINT32` that would take 2^32 uses to wrap.
- `DBGetFieldA`, `DBGetFieldUTF8` and `DBGetFieldDouble`, column names, and
  `DrvPrepareString`: conversions of text that differ from the modelled ones in
  character set and escaping only.
- `HashMap`, `Iterator` and `ServerInterface`, which no other file uses; `Socket` and
  `Address`, one Winsock call per method; the Qt dialogs of client and `P2Test`,
  which keep no protocol state; uthash, the schema beyond its keys, documents.
- The session table: its two outcomes, an id that is new or taken, are a choice
  in `UdpRequests`. No request ever looks a session up or deletes one, so nothing
  else depends on it yet.
