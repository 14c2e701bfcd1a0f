---------------------------- MODULE DbConnection ----------------------------
(***************************************************************************)
(* The locks of a database handle: threads that share a DB_HANDLE of       *)
(* p2_dbapi.cpp, and the MYSQL_CONN of mysqldrv.cpp below it, through text *)
(* queries, prepared statements, results and transactions, while the       *)
(* connection to the server is lost and made again.                        *)
(*                                                                         *)
(* The layer has two recursive mutexes, so that threads may share a        *)
(* handle.  Every thread has at most one statement, one open unbuffered    *)
(* result and one buffered result of its statement; the buffered results   *)
(* of text queries use nothing of the handle and change nothing on it.     *)
(* The vector of the statements is here only as far as threads disturb     *)
(* each other in it; PreparedStatements has it entry by entry.             *)
(***************************************************************************)
EXTENDS RecursiveMutex

CONSTANTS
    NoResult,   \* no unbuffered result, no rows under way
    MaxBegun    \* bound: how often a thread calls DBBegin

ASSUME DbAssumption ==
    /\ MaxBegun \in Nat
    /\ NoResult \notin [prepared : BOOLEAN, noMoreRows : BOOLEAN]
    /\ NoResult \notin [of : Thread, prepared : BOOLEAN]

VARIABLES
    m_mutexTransLock,     \* of the handle
    mutexQueryLock,       \* of the MYSQL_CONN
    m_transactionLevel,
    m_preparedStatements, \* is the vector of the handle in order?
    statement,            \* the statement of each thread
    result,               \* its unbuffered result
    buffered,             \* the buffered result of its statement
    begun,                \* how many locks DBBegin has kept for it
    pc, op,               \* where it is in which call
    up,                   \* is the connection to the server alive?
    reachable,            \* does the server accept a new one?
    inTransaction,        \* is a transaction open on the server?
    rows,                 \* whose rows are still to be read from the connection
    apart,                \* have level and server parted because a call failed?
    overtaken             \* those in whose call, since they prepared their
                          \* statement, another thread reconnected

locks == <<m_mutexTransLock, mutexQueryLock>>
handle == <<m_transactionLevel, m_preparedStatements>>
threadVars == <<statement, result, buffered, begun>>
serverVars == <<up, reachable, inTransaction, rows>>
histories == <<apart, overtaken>>
vars == <<locks, handle, threadVars, pc, op, serverVars, histories>>

\* The calls that reconnect and are tried again, those that only reconnect,
\* because the statement is gone, those that do not reconnect, and those that
\* lock mutexQueryLock alone.
Retried == {"query", "select", "selectUnbuffered", "prepare", "begin"}
OnStatement == {"execute", "selectPrepared", "selectPreparedUnbuffered"}
Ends == {"commit", "rollback"}
Outside == {"getField", "freeStatement"}
Unbuffered == {"selectUnbuffered", "selectPreparedUnbuffered"}
Calls == Retried \cup OnStatement \cup Ends \cup Outside

\* A statement is "unlisted" while it is not in m_preparedStatements,
\* "invalid" after a reconnect, and "dangling" if the reconnect missed it.
Statements == {"none", "unlisted", "valid", "invalid", "dangling"}

\* IS_VALID_STATEMENT_HANDLE: only InvalidatePreparedStatements resets it.
ValidHandles == {"unlisted", "valid", "dangling"}

\* A buffered result is "outlived" when its statement or connection is freed.
BufferedResults == {"none", "kept", "outlived"}

\* The vector is "stale" with an entry whose statement or connection is freed,
\* and "torn" once two threads were in it at the same time.
Lists == {"intact", "stale", "torn"}

Results == [prepared : BOOLEAN, noMoreRows : BOOLEAN]
Rows == [of : Thread, prepared : BOOLEAN]

\* Has t an unbuffered result that keeps the query lock?
Reading(t) == result[t] # NoResult /\ ~result[t].noMoreRows

\* t goes on in its call, or is done with it.
Goes(t, to) ==
    /\ pc' = [pc EXCEPT ![t] = to]
    /\ op' = IF to = "idle" THEN [op EXCEPT ![t] = "none"] ELSE op

\* The lock is given back.
Leave(t, to) ==
    /\ m_mutexTransLock' = Unlocked(m_mutexTransLock, t)
    /\ Goes(t, to)

\* Is t in a call that was given the MYSQL_CONN or the MYSQL_STATEMENT of
\* before?
UsesFreed(t) ==
    \/ /\ pc[t] \in {"driver", "again"} /\ op[t] \in OnStatement
       /\ statement[t] \notin ValidHandles
    \/ /\ pc[t] \in {"queryLock", "holding"} /\ op[t] = "getField"
       /\ buffered[t] = "outlived"
    \/ /\ pc[t] \in {"queryLock", "holding"} /\ op[t] = "freeStatement"
       /\ statement[t] \notin {"unlisted", "valid"}
    \/ pc[t] = "reconnect" /\ m_preparedStatements = "stale"

\* Has t the query lock in a call that takes it alone?
Holding(t) == pc[t] = "holding" /\ ~UsesFreed(t)

\* Will a reconnect by another thread miss the statement, or has one?
Missed(t) == statement[t] = "dangling" \/ (statement[t] = "unlisted" /\ pc[t] = "idle")

-----------------------------------------------------------------------------
(* A call begins                                                           *)

\* Is t in the vector of statements, which no lock protects?
InList(t) == pc[t] \in {"push", "remove"}

\* What becomes of the vector when t gets into it.
ListEnteredBy(t) ==
    IF \E u \in Thread \ {t} : InList(u) THEN "torn" ELSE m_preparedStatements

\* IS_VALID_STATEMENT_HANDLE, which is looked at before the lock is taken, and
\* the rules of the callers: the results of a statement are freed before it is
\* executed again or freed, and an unbuffered one before the next is opened or
\* the statement is freed.
MayCall(t, k) ==
    /\ k = "prepare" => statement[t] = "none"
    /\ k \in OnStatement \cup {"freeStatement"} =>
           /\ statement[t] \in ValidHandles /\ buffered[t] = "none"
           /\ ~(Reading(t) /\ result[t].prepared)
    /\ k \in Unbuffered \cup {"freeStatement"} => result[t] = NoResult
    /\ k = "getField" => buffered[t] # "none"
    /\ k = "begin" => begun[t] < MaxBegun

\* Where a call begins.
Start(k) == CASE k = "getField" -> "queryLock" [] k = "freeStatement" -> "remove" [] OTHER -> "lock"

Call(t, k) ==
    /\ pc[t] = "idle" /\ MayCall(t, k)
    /\ pc' = [pc EXCEPT ![t] = Start(k)]
    /\ op' = [op EXCEPT ![t] = k]
    /\ m_preparedStatements' =
           IF k = "freeStatement" THEN ListEnteredBy(t) ELSE m_preparedStatements
    /\ UNCHANGED <<locks, m_transactionLevel, threadVars, serverVars, histories>>

Waits(t) == pc[t] = "lock"
MayEnter(t) == Waits(t) /\ MayLock(m_mutexTransLock, t)

\* DBBegin in a transaction counts, and keeps the lock.
BeginNested(t) ==
    /\ MayEnter(t) /\ op[t] = "begin" /\ m_transactionLevel > 0
    /\ m_mutexTransLock' = Locked(m_mutexTransLock, t)
    /\ Goes(t, "idle")
    /\ m_transactionLevel' = m_transactionLevel + 1
    /\ begun' = [begun EXCEPT ![t] = @ + 1]
    /\ UNCHANGED <<mutexQueryLock, m_preparedStatements, statement, result, buffered>>
    /\ UNCHANGED <<serverVars, histories>>

\* Mutant: the level is counted down without a look at it.
LevelCountedDown == m_transactionLevel - 1

LevelAfterEnd == IF m_transactionLevel > 0 THEN m_transactionLevel - 1 ELSE 0

\* Mutant: the end of an inner transaction is sent to the server.
EndNestedSent(t) ==
    /\ MayEnter(t) /\ op[t] \in Ends /\ m_transactionLevel # 1
    /\ Goes(t, "idle")
    /\ m_transactionLevel' = LevelAfterEnd
    /\ inTransaction' = FALSE
    /\ UNCHANGED <<locks, m_preparedStatements, threadVars, up, reachable, rows, histories>>

\* DBCommit and DBRollback of an inner transaction, or of none: the lock is
\* taken and given back, and nothing is sent.
EndNested(t) ==
    /\ MayEnter(t) /\ op[t] \in Ends /\ m_transactionLevel # 1
    /\ Goes(t, "idle")
    /\ m_transactionLevel' = LevelAfterEnd
    /\ UNCHANGED <<locks, m_preparedStatements, threadVars, serverVars, histories>>

\* Every other call takes the lock and goes to the driver.
Enter(t) ==
    /\ MayEnter(t)
    /\ op[t] = "begin" => m_transactionLevel = 0
    /\ op[t] \in Ends => m_transactionLevel = 1
    /\ m_mutexTransLock' = Locked(m_mutexTransLock, t)
    /\ Goes(t, "driver")
    /\ m_transactionLevel' = IF op[t] \in Ends THEN 0 ELSE m_transactionLevel
    /\ UNCHANGED <<mutexQueryLock, m_preparedStatements, threadVars, serverVars, histories>>

-----------------------------------------------------------------------------
(* In the driver                                                           *)

InDriver(t) ==
    /\ pc[t] \in {"driver", "again"} /\ ~UsesFreed(t)
    /\ MayLock(mutexQueryLock, t)

Dangles(t) == op[t] \in OnStatement /\ statement[t] = "dangling"

\* MySQL refuses every command while there are rows to read, but for those of
\* the statement that is executed, which it throws away.
OutOfSync(t) ==
    /\ rows # NoResult
    /\ ~(op[t] \in OnStatement /\ rows = [of |-> t, prepared |-> TRUE])

Works(t) == InDriver(t) /\ ~OutOfSync(t) /\ ~Dangles(t) /\ up

\* The driver reports an error other than a lost connection.
Fails(t) ==
    /\ InDriver(t)
    /\ OutOfSync(t) \/ Dangles(t) \/ up
    /\ Leave(t, "idle")
    /\ rows' = IF OutOfSync(t) THEN rows ELSE NoResult
    /\ apart' = (apart \/ (op[t] \in Ends /\ inTransaction))
    /\ UNCHANGED <<mutexQueryLock, handle, threadVars, up, reachable, inTransaction, overtaken>>

\* The driver reports that the connection is lost.
Lost(t) == InDriver(t) /\ ~OutOfSync(t) /\ ~Dangles(t) /\ ~up

\* The call reconnects, the first time.
Loses(t) ==
    /\ Lost(t) /\ pc[t] = "driver" /\ op[t] \notin Ends
    /\ Goes(t, "reconnect")
    /\ UNCHANGED <<locks, handle, threadVars, serverVars, histories>>

\* Mutant: a call that gives up does not unlock.
GivesUpLocked(t) ==
    /\ Lost(t) /\ (pc[t] = "again" \/ op[t] \in Ends)
    /\ Goes(t, "idle")
    /\ UNCHANGED <<locks, handle, threadVars, serverVars, histories>>

\* The second time, and in DBCommit and DBRollback, it gives up.
GivesUp(t) ==
    /\ Lost(t) /\ (pc[t] = "again" \/ op[t] \in Ends)
    /\ Leave(t, "idle")
    /\ UNCHANGED <<mutexQueryLock, handle, threadVars, serverVars, histories>>

\* DrvQuery, DrvSelect, DrvExecute or DrvSelectPrepared succeeds; the buffered
\* result of a statement keeps its MYSQL_STMT and its MYSQL_CONN.
Sent(t) ==
    /\ Works(t) /\ op[t] \in {"query", "select", "execute", "selectPrepared"}
    /\ Leave(t, "idle")
    /\ rows' = NoResult
    /\ buffered' = IF op[t] = "selectPrepared" THEN [buffered EXCEPT ![t] = "kept"] ELSE buffered
    /\ UNCHANGED <<mutexQueryLock, handle, statement, result, begun>>
    /\ UNCHANGED <<up, reachable, inTransaction, histories>>

\* DrvPrepare succeeds.
Prepared(t) ==
    /\ Works(t) /\ op[t] = "prepare"
    /\ Leave(t, "list")
    /\ statement' = [statement EXCEPT ![t] = "unlisted"]
    /\ overtaken' = overtaken \ {t}
    /\ UNCHANGED <<mutexQueryLock, handle, result, buffered, begun, serverVars, apart>>

\* An unbuffered result is opened; both locks are kept.
Opened(t) ==
    /\ Works(t) /\ op[t] \in Unbuffered
    /\ mutexQueryLock' = Locked(mutexQueryLock, t)
    /\ result' = [result EXCEPT ![t] = [prepared |-> op[t] \in OnStatement, noMoreRows |-> FALSE]]
    /\ rows' = [of |-> t, prepared |-> op[t] \in OnStatement]
    /\ Goes(t, "idle")
    /\ UNCHANGED <<m_mutexTransLock, handle, statement, buffered, begun>>
    /\ UNCHANGED <<up, reachable, inTransaction, histories>>

\* BEGIN succeeds; the lock is kept.
Begins(t) ==
    /\ Works(t) /\ op[t] = "begin"
    /\ inTransaction' = TRUE
    /\ m_transactionLevel' = m_transactionLevel + 1
    /\ begun' = [begun EXCEPT ![t] = @ + 1]
    /\ Goes(t, "idle")
    /\ apart' = FALSE
    /\ UNCHANGED <<locks, m_preparedStatements, statement, result, buffered>>
    /\ UNCHANGED <<up, reachable, rows, overtaken>>

\* COMMIT or ROLLBACK succeeds.
Ended(t) ==
    /\ Works(t) /\ op[t] \in Ends
    /\ inTransaction' = FALSE
    /\ Leave(t, "idle")
    /\ apart' = FALSE
    /\ UNCHANGED <<mutexQueryLock, handle, threadVars, up, reachable, rows, overtaken>>

-----------------------------------------------------------------------------
(* DBReconnect                                                             *)

OvertakenBy(t) == overtaken \cup {u \in Thread \ {t} : pc[u] # "idle"}

\* Every entry of the vector is closed, with the query lock for each, and
\* marked; a reconnect with a stale vector uses freed memory.
InvalidatePreparedStatements(t) ==
    /\ pc[t] = "reconnect"
    /\ (\E u \in Thread : statement[u] = "valid") => MayLock(mutexQueryLock, t)
    /\ Goes(t, "disconnect")
    /\ statement' = [u \in Thread |-> IF statement[u] = "valid" THEN "invalid" ELSE statement[u]]
    /\ buffered' = [u \in Thread |-> IF statement[u] = "valid" /\ buffered[u] = "kept" THEN "outlived"
                                     ELSE buffered[u]]
    /\ m_preparedStatements' = IF ListEnteredBy(t) = "torn" THEN "torn" ELSE "intact"
    /\ overtaken' = OvertakenBy(t)
    /\ UNCHANGED <<locks, m_transactionLevel, result, begun, serverVars, apart>>

\* The connection is closed, and its query lock deleted under whoever uses it.
DrvDisconnect(t) ==
    /\ pc[t] = "disconnect"
    /\ Goes(t, "connect")
    /\ mutexQueryLock' = Free
    /\ rows' = NoResult
    /\ statement' = [u \in Thread |-> IF statement[u] \in {"unlisted", "valid"} THEN "dangling"
                                      ELSE statement[u]]
    /\ buffered' = [u \in Thread |-> IF buffered[u] = "kept" THEN "outlived" ELSE buffered[u]]
    /\ m_preparedStatements' =
           IF m_preparedStatements = "intact" /\ \E u \in Thread : statement[u] = "valid"
           THEN "stale" ELSE m_preparedStatements
    /\ overtaken' = OvertakenBy(t)
    /\ UNCHANGED <<m_mutexTransLock, m_transactionLevel, result, begun, up, reachable, inTransaction, apart>>

\* Mutant: a statement is executed again after the reconnect, too.
DrvConnectRetries(t) ==
    /\ pc[t] = "connect" /\ reachable
    /\ up' = TRUE
    /\ Goes(t, "again")
    /\ UNCHANGED <<locks, handle, threadVars, reachable, inTransaction, rows, histories>>

\* The loop of DBReconnect ends once the server accepts a connection.
DrvConnect(t) ==
    /\ pc[t] = "connect" /\ reachable
    /\ up' = TRUE
    /\ IF op[t] \in Retried
       THEN Goes(t, "again") /\ UNCHANGED m_mutexTransLock
       ELSE Leave(t, "idle")
    /\ UNCHANGED <<mutexQueryLock, handle, threadVars, reachable, inTransaction, rows, histories>>

-----------------------------------------------------------------------------
(* The vector of statements                                                *)

\* What becomes of the statements when a change of the vector ends: entries
\* of a torn one may be lost.
MayLose(statements) ==
    IF m_preparedStatements # "torn" THEN {statements}
    ELSE {[u \in Thread |-> IF u \in lost /\ statements[u] = "valid" THEN "unlisted"
                            ELSE statements[u]] : lost \in SUBSET Thread}

\* DBPrepareEx enters the statement into the vector, after the unlock.
Listing(t) ==
    /\ pc[t] = "list" /\ Goes(t, "push")
    /\ m_preparedStatements' = ListEnteredBy(t)
    /\ UNCHANGED <<locks, m_transactionLevel, threadVars, serverVars, histories>>

Listed(t) ==
    /\ pc[t] = "push" /\ Goes(t, "idle")
    /\ statement' \in MayLose([statement EXCEPT ![t] = IF @ = "unlisted" THEN "valid" ELSE @])
    /\ m_preparedStatements' =
           IF m_preparedStatements = "intact" /\ statement[t] = "dangling" THEN "stale"
           ELSE m_preparedStatements
    /\ UNCHANGED <<locks, m_transactionLevel, result, buffered, begun, serverVars, histories>>

\* std::remove of DBFreeStatement is over; it leaves an entry that was the
\* last one where it is.
Removed(t) ==
    /\ pc[t] = "remove"
    /\ \/ /\ statement[t] = "invalid" /\ Goes(t, "idle")
          /\ statement' \in MayLose([statement EXCEPT ![t] = "none"])
       \/ /\ statement[t] # "invalid" /\ Goes(t, "queryLock")
          /\ \/ statement' \in MayLose(statement)
             \/ statement' \in MayLose([statement EXCEPT ![t] = IF @ = "valid" THEN "unlisted" ELSE @])
    /\ UNCHANGED <<locks, handle, result, buffered, begun, serverVars, histories>>

\* DBFreeStatement of one that a reconnect has invalidated.
FreeInvalidated(t) ==
    /\ pc[t] = "idle" /\ statement[t] = "invalid" /\ buffered[t] = "none" /\ result[t] = NoResult
    /\ statement' = [statement EXCEPT ![t] = "none"]
    /\ UNCHANGED <<locks, handle, result, buffered, begun, pc, op, serverVars, histories>>

-----------------------------------------------------------------------------
(* Calls that lock mutexQueryLock alone                                    *)

\* GetFieldInternal or DrvFreeStatement gets the lock of the connection that
\* the result or the statement refers to,
QueryLocked(t) ==
    /\ pc[t] = "queryLock" /\ ~UsesFreed(t) /\ MayLock(mutexQueryLock, t)
    /\ mutexQueryLock' = Locked(mutexQueryLock, t)
    /\ Goes(t, "holding")
    /\ UNCHANGED <<m_mutexTransLock, handle, threadVars, serverVars, histories>>

\* and has fetched the row, or closed the statement, which throws away the
\* rows that are still to be read.
QueryUnlocked(t) ==
    /\ Holding(t)
    /\ mutexQueryLock' = Unlocked(mutexQueryLock, t)
    /\ Goes(t, "idle")
    /\ IF op[t] = "getField" THEN UNCHANGED <<m_preparedStatements, statement, rows>>
       ELSE /\ statement' = [statement EXCEPT ![t] = "none"]
            /\ rows' = NoResult
            /\ m_preparedStatements' =
                   IF m_preparedStatements = "intact" /\ statement[t] = "valid" THEN "stale"
                   ELSE m_preparedStatements
    /\ UNCHANGED <<m_mutexTransLock, m_transactionLevel, result, buffered, begun>>
    /\ UNCHANGED <<up, reachable, inTransaction, histories>>

\* DBFreeResult of a buffered result touches neither statement nor connection.
FreeBuffered(t) ==
    /\ pc[t] = "idle" /\ buffered[t] # "none"
    /\ buffered' = [buffered EXCEPT ![t] = "none"]
    /\ UNCHANGED <<locks, handle, statement, result, begun, pc, op, serverVars, histories>>

-----------------------------------------------------------------------------
(* Unbuffered results                                                      *)

\* DrvFetch finds no more rows, or the connection lost, and unlocks.  A fetch
\* that finds a row changes nothing.
DBFetch(t) ==
    /\ pc[t] = "idle" /\ Reading(t)
    /\ result' = [result EXCEPT ![t].noMoreRows = TRUE]
    /\ rows' = NoResult
    /\ mutexQueryLock' = Unlocked(mutexQueryLock, t)
    /\ UNCHANGED <<m_mutexTransLock, handle, statement, buffered, begun, pc, op>>
    /\ UNCHANGED <<up, reachable, inTransaction, histories>>

\* Mutant: the rows that were not fetched are not read.
DBFreeResultUnread(t) ==
    /\ pc[t] = "idle" /\ result[t] # NoResult
    /\ mutexQueryLock' = IF Reading(t) THEN Unlocked(mutexQueryLock, t) ELSE mutexQueryLock
    /\ result' = [result EXCEPT ![t] = NoResult]
    /\ Leave(t, "idle")
    /\ UNCHANGED <<handle, statement, buffered, begun, serverVars, histories>>

\* DBFreeResult reads the remaining rows, but not those of a statement.
DBFreeResult(t) ==
    /\ pc[t] = "idle" /\ result[t] # NoResult
    /\ rows' = IF Reading(t) /\ ~result[t].prepared THEN NoResult ELSE rows
    /\ mutexQueryLock' = IF Reading(t) THEN Unlocked(mutexQueryLock, t) ELSE mutexQueryLock
    /\ result' = [result EXCEPT ![t] = NoResult]
    /\ Leave(t, "idle")
    /\ UNCHANGED <<handle, statement, buffered, begun>>
    /\ UNCHANGED <<up, reachable, inTransaction, histories>>

-----------------------------------------------------------------------------
(* The server                                                              *)

\* The connection is lost, and with it the transaction.
Drop ==
    /\ up
    /\ up' = FALSE /\ reachable' = FALSE /\ inTransaction' = FALSE
    /\ apart' = (apart \/ m_transactionLevel > 0 \/ inTransaction)
    /\ UNCHANGED <<locks, handle, threadVars, pc, op, rows, overtaken>>

ServerBack ==
    /\ ~reachable /\ reachable' = TRUE
    /\ UNCHANGED <<locks, handle, threadVars, pc, op, up, inTransaction, rows, histories>>

-----------------------------------------------------------------------------
Init ==
    /\ m_mutexTransLock = Free /\ mutexQueryLock = Free
    /\ m_transactionLevel = 0 /\ m_preparedStatements = "intact"
    /\ statement = [t \in Thread |-> "none"]
    /\ result = [t \in Thread |-> NoResult]
    /\ buffered = [t \in Thread |-> "none"]
    /\ begun = [t \in Thread |-> 0]
    /\ pc = [t \in Thread |-> "idle"]
    /\ op = [t \in Thread |-> "none"]
    /\ up = TRUE /\ reachable = TRUE /\ inTransaction = FALSE /\ rows = NoResult
    /\ apart = FALSE /\ overtaken = {}

\* The steps of t within a call.
Inside(t) ==
    \/ BeginNested(t) \/ EndNested(t) \/ Enter(t)
    \/ Fails(t) \/ Loses(t) \/ GivesUp(t)
    \/ Sent(t) \/ Prepared(t) \/ Opened(t) \/ Begins(t) \/ Ended(t)
    \/ InvalidatePreparedStatements(t) \/ DrvDisconnect(t) \/ DrvConnect(t)
    \/ Listing(t) \/ Listed(t) \/ Removed(t)
    \/ QueryLocked(t) \/ QueryUnlocked(t)

Next ==
    \/ \E t \in Thread :
           \/ \E k \in Calls : Call(t, k)
           \/ Inside(t)
           \/ DBFetch(t) \/ DBFreeResult(t) \/ FreeBuffered(t) \/ FreeInvalidated(t)
    \/ Drop \/ ServerBack

Spec == Init /\ [][Next]_vars

\* Threads go on in their calls; a critical section is fair, so that a thread
\* that waits for one which is free again and again gets it; and the server
\* comes back some time.
FairSpec ==
    /\ Spec
    /\ \A t \in Thread : SF_vars(Inside(t))
    /\ WF_vars(ServerBack)

-----------------------------------------------------------------------------
(* Properties                                                              *)

\* Whatever the threads do, the fields are what the code takes them for.
TypeOK ==
    /\ m_mutexTransLock \in Mutex /\ mutexQueryLock \in Mutex
    /\ m_transactionLevel \in Nat /\ m_preparedStatements \in Lists
    /\ statement \in [Thread -> Statements]
    /\ result \in [Thread -> Results \cup {NoResult}]
    /\ buffered \in [Thread -> BufferedResults]
    /\ begun \in [Thread -> Nat]
    /\ pc \in [Thread -> {"idle", "lock", "driver", "again", "reconnect", "disconnect", "connect",
                          "list", "push", "remove", "queryLock", "holding"}]
    /\ op \in [Thread -> Calls \cup {"none"}]
    /\ up \in BOOLEAN /\ reachable \in BOOLEAN /\ inTransaction \in BOOLEAN
    /\ rows \in Rows \cup {NoResult}
    /\ apart \in BOOLEAN /\ overtaken \subseteq Thread

\* In a call that has locked m_mutexTransLock.
Entered(t) == pc[t] \in {"driver", "again", "reconnect", "disconnect", "connect"}

\* The locks a thread has to give back: one in a call that has entered, one
\* for an open unbuffered result, and the ones DBBegin took;
TransClaims(t) ==
    (IF Entered(t) THEN 1 ELSE 0) + (IF result[t] # NoResult THEN 1 ELSE 0) + begun[t]

\* and of the query lock of the present connection one for an unbuffered
\* result with rows to read, and one in a getter or in DrvFreeStatement.
QueryClaims(t) ==
    (IF Reading(t) THEN 1 ELSE 0) + (IF Holding(t) THEN 1 ELSE 0)

\* Through failures, reconnects (which delete the query lock), results freed
\* early or late and nested transactions, no lock is lost or kept but those of
\* DBBegin, and whoever holds the query lock does not wait for the other one.
LocksAccounted ==
    /\ Counted(m_mutexTransLock) /\ Counted(mutexQueryLock)
    /\ \A t \in Thread : /\ HeldBy(m_mutexTransLock, t) = TransClaims(t)
                         /\ HeldBy(mutexQueryLock, t) = QueryClaims(t)
    /\ \A t \in Thread : Waits(t) /\ mutexQueryLock.fHolder = t => MayEnter(t)

\* Whoever reads an unbuffered result finds its own rows on the connection,
\* and nobody meets the rows of a text query that somebody else has left.
RowsOwned ==
    /\ \A t \in Thread : Reading(t) => rows = [of |-> t, prepared |-> result[t].prepared]
    /\ (rows # NoResult /\ ~rows.prepared) => Reading(rows.of)

\* Is the end of the outermost transaction being sent?
Ending == \E t \in Thread : pc[t] = "driver" /\ op[t] \in Ends

\* While level and server have not parted because the connection was lost in a
\* transaction or its end failed, the server is in a transaction exactly while
\* the level says so (DBCommit is about to end it, its level already counted
\* down), and only one thread is in it.
TransactionOpen ==
    /\ ~apart => (inTransaction <=> m_transactionLevel > 0 \/ Ending)
    /\ m_transactionLevel > 0 =>
           /\ m_mutexTransLock.fHolder # None
           /\ m_transactionLevel <= begun[m_mutexTransLock.fHolder]

\* On a handle in whose vector no two threads were at once, a thread in whose
\* calls, since it prepared its statement, no other one reconnected has no
\* statement that a reconnect has missed or will miss, and uses nothing that is
\* freed, but in two cases: it reads a buffered result of before a reconnect,
\* or it reconnects with a vector that is stale.
SafeAlone ==
    \A t \in Thread \ overtaken :
        m_preparedStatements # "torn" =>
            /\ ~Missed(t)
            /\ UsesFreed(t) => \/ op[t] = "getField" /\ buffered[t] = "outlived"
                               \/ pc[t] = "reconnect" /\ m_preparedStatements = "stale"

\* Does somebody keep the handle after its call?
Kept == \E t \in Thread : begun[t] > 0 \/ result[t] # NoResult

\* Every call returns, also if the server is away for a time, unless an
\* unbuffered result stays open, a transaction was ever begun or the program
\* has used freed memory.
Served ==
    \A t \in Thread :
        pc[t] # "idle" ~> (pc[t] = "idle" \/ Kept \/ \E u \in Thread : UsesFreed(u))

=============================================================================
