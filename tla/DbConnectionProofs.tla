------------------------- MODULE DbConnectionProofs -------------------------
(***************************************************************************)
(* The invariants of DbConnection, for any number of threads, calls and    *)
(* losses of the connection.                                               *)
(***************************************************************************)
EXTENDS DbConnection, TLAPS

Reconnecting == {"reconnect", "disconnect", "connect"}
Torn == m_preparedStatements = "torn"

\* Is t in a call that takes the query lock alone, of the kind k?
InOutside(t, k) == pc[t] \in {"queryLock", "holding"} /\ op[t] = k

\* Callers keep to their rules until the call is over, and a thread reconnects
\* only when it has no rows to read.
CallInOrder(t) ==
    /\ pc[t] = "lock" \/ Entered(t) =>
           /\ op[t] \in OnStatement => ~(Reading(t) /\ result[t].prepared)
           /\ op[t] \in Unbuffered => result[t] = NoResult
    /\ pc[t] \in Reconnecting => ~Reading(t) /\ op[t] \notin Ends
    /\ pc[t] = "again" => op[t] \in Retried
    /\ pc[t] \in {"queryLock", "holding"} => op[t] \in Outside
    /\ InOutside(t, "getField") => buffered[t] # "none"
    /\ pc[t] = "remove" => op[t] = "freeStatement"
    /\ op[t] = "freeStatement" => result[t] = NoResult

CallsInOrder == \A t \in Thread : CallInOrder(t)

\* A statement that is used was valid when the call began, and one that is not
\* in the vector belongs to a call that enters or frees it.
StatementInOrder(t) ==
    /\ pc[t] \in {"lock", "driver"} /\ op[t] \in OnStatement =>
           statement[t] \in ValidHandles \/ t \in overtaken
    /\ pc[t] = "remove" \/ InOutside(t, "freeStatement") =>
           statement[t] \in ValidHandles \/ t \in overtaken
    /\ statement[t] = "unlisted" =>
           Torn \/ pc[t] \in {"list", "push"} \/ InOutside(t, "freeStatement")
    /\ statement[t] = "dangling" => Torn \/ t \in overtaken

\* A reconnect that has not closed a statement has found its owner in a call.
ReconnectInOrder ==
    \A t \in Thread :
        pc[t] = "disconnect" =>
            \A u \in Thread : statement[u] \in {"unlisted", "valid"} => Torn \/ u \in overtaken

StatementsInOrder == ReconnectInOrder /\ \A t \in Thread : StatementInOrder(t)

\* The outermost transaction is begun and ended at level 0, and a connection
\* that is lost has none open.
LevelInOrder ==
    /\ \A t \in Thread :
           /\ Entered(t) /\ op[t] \in Ends \cup {"begin"} => m_transactionLevel = 0
           /\ pc[t] \in Reconnecting => ~up
    /\ ~up => ~inTransaction

IInv ==
    TypeOK /\ LocksAccounted /\ RowsOwned /\ CallsInOrder /\ StatementsInOrder
    /\ LevelInOrder /\ TransactionOpen

-----------------------------------------------------------------------------
(* The mutexes                                                             *)

\* Locking adds one to what the thread has to give back.
LEMMA LockCounts ==
    ASSUME NEW mutex \in Mutex, NEW t \in Thread, MayLock(mutex, t), Counted(mutex)
    PROVE  /\ Locked(mutex, t) \in Mutex /\ Counted(Locked(mutex, t))
           /\ Locked(mutex, t).fHolder = t
           /\ HeldBy(Locked(mutex, t), t) = HeldBy(mutex, t) + 1
           /\ \A u \in Thread \ {t} : HeldBy(mutex, u) = 0 /\ HeldBy(Locked(mutex, t), u) = 0
    BY MutexAssumption DEF Mutex, MayLock, Counted, Locked, HeldBy

\* Unlocking takes one away; the last one frees the mutex.
LEMMA UnlockCounts ==
    ASSUME NEW mutex \in Mutex, NEW t \in Thread, Counted(mutex), HeldBy(mutex, t) > 0
    PROVE  /\ Unlocked(mutex, t) \in Mutex /\ Counted(Unlocked(mutex, t))
           /\ HeldBy(Unlocked(mutex, t), t) = HeldBy(mutex, t) - 1
           /\ HeldBy(mutex, t) = 1 => Unlocked(mutex, t).fHolder = None
           /\ HeldBy(mutex, t) # 1 => Unlocked(mutex, t).fHolder = t
           /\ \A u \in Thread \ {t} : HeldBy(mutex, u) = 0 /\ HeldBy(Unlocked(mutex, t), u) = 0
    BY MutexAssumption DEF Mutex, Counted, Unlocked, Free, HeldBy

\* Nobody holds a new mutex.
LEMMA FreeCounts ==
    /\ Free \in Mutex /\ Counted(Free) /\ Free.fHolder = None
    /\ \A t \in Thread : HeldBy(Free, t) = 0
    BY MutexAssumption DEF Mutex, Counted, Free, HeldBy

\* While one thread is in the handle no other is, and none has a result open.
LEMMA Alone ==
    ASSUME TypeOK, LocksAccounted, NEW t \in Thread,
           MayLock(m_mutexTransLock, t) \/ Entered(t) \/ result[t] # NoResult
    PROVE  /\ m_mutexTransLock.fHolder \in {None, t}
           /\ \A u \in Thread \ {t} :
                  ~Entered(u) /\ result[u] = NoResult /\ ~Reading(u) /\ begun[u] = 0
    <1>1. \A u \in Thread : TransClaims(u) = HeldBy(m_mutexTransLock, u)
        BY DEF LocksAccounted
    <1>2. m_mutexTransLock.fHolder \in {None, t}
        BY <1>1 DEF MayLock, TransClaims, HeldBy, Entered, TypeOK, Mutex
    <1>3. ASSUME NEW u \in Thread \ {t}
          PROVE  ~Entered(u) /\ result[u] = NoResult /\ ~Reading(u) /\ begun[u] = 0
        <2>1. TransClaims(u) = 0
            BY <1>1, <1>2, MutexAssumption DEF HeldBy
        <2> QED
            BY <2>1 DEF TransClaims, Entered, Reading, TypeOK
    <1> QED
        BY <1>2, <1>3

\* A call that has entered can give its lock back.
LEMMA EnteredHolds ==
    ASSUME TypeOK, LocksAccounted, NEW t \in Thread, Entered(t) \/ result[t] # NoResult
    PROVE  HeldBy(m_mutexTransLock, t) > 0
    BY DEF LocksAccounted, TransClaims, Entered, TypeOK

\* So can a thread that uses the query lock, and while it does no other does.
LEMMA QueryHeld ==
    ASSUME TypeOK, LocksAccounted, NEW t \in Thread, Reading(t) \/ Holding(t)
    PROVE  /\ HeldBy(mutexQueryLock, t) > 0 /\ mutexQueryLock.fHolder = t
           /\ \A u \in Thread \ {t} : ~Reading(u) /\ ~Holding(u) /\ HeldBy(mutexQueryLock, u) = 0
    <1>1. \A u \in Thread : HeldBy(mutexQueryLock, u) = QueryClaims(u)
        BY DEF LocksAccounted
    <1>2. HeldBy(mutexQueryLock, t) > 0 /\ mutexQueryLock.fHolder = t
        BY <1>1 DEF QueryClaims, HeldBy
    <1>3. \A u \in Thread \ {t} : HeldBy(mutexQueryLock, u) = 0
        BY <1>2 DEF HeldBy
    <1>4. \A u \in Thread \ {t} : QueryClaims(u) = 0
        BY <1>1, <1>3
    <1> QED
        BY <1>2, <1>3, <1>4 DEF QueryClaims

-----------------------------------------------------------------------------
(* The vector of statements                                                *)

\* A torn vector may lose entries, and that is all.
LEMMA LosesEntries ==
    ASSUME NEW s \in [Thread -> Statements], NEW new \in MayLose(s)
    PROVE  /\ new \in [Thread -> Statements]
           /\ \A u \in Thread : new[u] = s[u] \/ (Torn /\ s[u] = "valid" /\ new[u] = "unlisted")
    BY DEF MayLose, Torn, Statements

\* What entering a statement into the vector does to the statements.
LEMMA ListedStatements ==
    ASSUME TypeOK, NEW t \in Thread, Listed(t)
    PROVE  /\ statement' \in [Thread -> Statements]
           /\ \A u \in Thread \ {t} :
                  \/ statement'[u] = statement[u]
                  \/ Torn /\ statement[u] = "valid" /\ statement'[u] = "unlisted"
           /\ \/ statement[t] \in {"unlisted", "valid"} /\ statement'[t] = "valid"
              \/ statement[t] \in {"unlisted", "valid"} /\ statement'[t] = "unlisted" /\ Torn
              \/ statement[t] \notin {"unlisted", "valid"} /\ statement'[t] = statement[t]
    <1> DEFINE s == [statement EXCEPT ![t] = IF @ = "unlisted" THEN "valid" ELSE @]
    <1>1. s \in [Thread -> Statements]
        BY DEF TypeOK, Statements
    <1>2. statement' \in MayLose(s)
        BY DEF Listed
    <1>3. /\ statement' \in [Thread -> Statements]
          /\ \A u \in Thread : statement'[u] = s[u] \/ (Torn /\ s[u] = "valid" /\ statement'[u] = "unlisted")
        <2> HIDE DEF s
        <2> QED
            BY <1>1, <1>2, LosesEntries
    <1> QED
        BY <1>3 DEF TypeOK

\* What taking a statement out of it does to them.
LEMMA RemovedStatements ==
    ASSUME TypeOK, NEW t \in Thread, Removed(t)
    PROVE  /\ statement' \in [Thread -> Statements]
           /\ \A u \in Thread \ {t} :
                  \/ statement'[u] = statement[u]
                  \/ Torn /\ statement[u] = "valid" /\ statement'[u] = "unlisted"
           /\ \/ statement[t] = "invalid" /\ statement'[t] = "none" /\ pc'[t] = "idle" /\ op'[t] = "none"
              \/ /\ statement[t] # "invalid" /\ pc'[t] = "queryLock" /\ op'[t] = op[t]
                 /\ \/ statement'[t] = statement[t]
                    \/ statement[t] = "valid" /\ statement'[t] = "unlisted"
    <1> DEFINE s == [statement EXCEPT ![t] = "none"]
               s2 == [statement EXCEPT ![t] = IF @ = "valid" THEN "unlisted" ELSE @]
    <1>1. s \in [Thread -> Statements] /\ s2 \in [Thread -> Statements] /\ statement \in [Thread -> Statements]
        BY DEF TypeOK, Statements
    <1>2. CASE statement[t] = "invalid"
        <2>1. statement' \in MayLose(s) /\ pc'[t] = "idle" /\ op'[t] = "none"
            BY <1>2 DEF Removed, Goes, TypeOK
        <2>2. /\ statement' \in [Thread -> Statements]
              /\ \A u \in Thread : statement'[u] = s[u] \/ (Torn /\ s[u] = "valid" /\ statement'[u] = "unlisted")
            BY <1>1, <2>1, LosesEntries
        <2> QED
            BY <1>2, <2>1, <2>2 DEF TypeOK
    <1>3. CASE statement[t] # "invalid"
        <2>1. (statement' \in MayLose(statement) \/ statement' \in MayLose(s2)) /\ pc'[t] = "queryLock" /\ op' = op
            BY <1>3 DEF Removed, Goes, TypeOK
        <2>2. CASE statement' \in MayLose(statement)
            <3>1. /\ statement' \in [Thread -> Statements]
                  /\ \A u \in Thread : \/ statement'[u] = statement[u]
                                       \/ Torn /\ statement[u] = "valid" /\ statement'[u] = "unlisted"
                BY <1>1, <2>2, LosesEntries
            <3> QED
                BY <1>3, <2>1, <3>1
        <2>3. CASE statement' \in MayLose(s2)
            <3>1. /\ statement' \in [Thread -> Statements]
                  /\ \A u \in Thread : statement'[u] = s2[u] \/ (Torn /\ s2[u] = "valid" /\ statement'[u] = "unlisted")
                <4> HIDE DEF s2
                <4> QED
                    BY <1>1, <2>3, LosesEntries
            <3> QED
                BY <1>3, <2>1, <3>1 DEF TypeOK
        <2> QED
            BY <2>1, <2>2, <2>3
    <1> QED
        BY <1>2, <1>3

-----------------------------------------------------------------------------
(* Types                                                                   *)

LEMMA InitTypes == Init => TypeOK
    <1> SUFFICES ASSUME Init
                 PROVE  TypeOK
        OBVIOUS
    <1>1. up \in BOOLEAN /\ reachable \in BOOLEAN /\ inTransaction \in BOOLEAN /\ apart \in BOOLEAN
        BY Zenon DEF Init
    <1>2. m_mutexTransLock \in Mutex /\ mutexQueryLock \in Mutex
        BY FreeCounts DEF Init
    <1> QED
        BY <1>1, <1>2 DEF Init, TypeOK, Statements, BufferedResults, Lists

LEMMA NextTypes == IInv /\ [Next]_vars => TypeOK'
    <1> SUFFICES ASSUME IInv, [Next]_vars
                 PROVE  TypeOK'
        OBVIOUS
    <1> USE DEF IInv, TypeOK
    <1>1. ASSUME NEW t \in Thread, NEW k \in Calls, Call(t, k)
          PROVE  TypeOK'
        <2>1. Start(k) \in {"queryLock", "remove", "lock"}
            BY DEF Start
        <2> QED
            BY <1>1, <2>1 DEF Call, ListEnteredBy, Lists, locks, threadVars, serverVars, histories
    <1>2. ASSUME NEW t \in Thread, BeginNested(t) \/ Enter(t)
          PROVE  TypeOK'
        <2>1. m_mutexTransLock' \in Mutex
            BY <1>2, LockCounts DEF BeginNested, Enter, MayEnter, LocksAccounted
        <2> QED
            BY <1>2, <2>1 DEF BeginNested, Enter, Goes, threadVars, serverVars, histories
    <1>3. ASSUME NEW t \in Thread, EndNested(t)
          PROVE  TypeOK'
        BY <1>3 DEF EndNested, LevelAfterEnd, Goes, locks, threadVars, serverVars, histories
    <1>4. ASSUME NEW t \in Thread,
                 Fails(t) \/ GivesUp(t) \/ Sent(t) \/ Prepared(t) \/ Ended(t) \/ DrvConnect(t)
          PROVE  TypeOK'
        <2>1. Entered(t)
            BY <1>4 DEF Fails, GivesUp, Lost, Sent, Prepared, Ended, DrvConnect, Works, InDriver, Entered
        <2>2. m_mutexTransLock' \in Mutex
            BY <1>4, <2>1, EnteredHolds, UnlockCounts
            DEF Fails, GivesUp, Sent, Prepared, Ended, DrvConnect, Leave, LocksAccounted
        <2>3. /\ pc' \in [Thread -> {"idle", "lock", "driver", "again", "reconnect", "disconnect", "connect",
                                     "list", "push", "remove", "queryLock", "holding"}]
              /\ op' \in [Thread -> Calls \cup {"none"}]
            BY <1>4 DEF Fails, GivesUp, Sent, Prepared, Ended, DrvConnect, Leave, Goes
        <2>4. CASE Fails(t) \/ GivesUp(t) \/ Ended(t) \/ DrvConnect(t)
            BY <2>2, <2>3, <2>4
            DEF Fails, GivesUp, Ended, DrvConnect, handle, threadVars, serverVars, histories
        <2>5. CASE Sent(t) \/ Prepared(t)
            BY <2>2, <2>3, <2>5 DEF Sent, Prepared, Statements, BufferedResults, handle, serverVars, histories
        <2> QED
            BY <1>4, <2>4, <2>5
    <1>5. ASSUME NEW t \in Thread, Loses(t) \/ Listing(t)
          PROVE  TypeOK'
        BY <1>5 DEF Loses, Listing, ListEnteredBy, Goes, Lists, locks, handle, threadVars, serverVars, histories
    <1>6. ASSUME NEW t \in Thread, InvalidatePreparedStatements(t) \/ DrvDisconnect(t)
          PROVE  TypeOK'
        <2>1. mutexQueryLock' \in Mutex
            BY <1>6, FreeCounts DEF InvalidatePreparedStatements, DrvDisconnect, locks
        <2>2. statement' \in [Thread -> Statements] /\ buffered' \in [Thread -> BufferedResults]
            BY <1>6 DEF InvalidatePreparedStatements, DrvDisconnect, Statements, BufferedResults
        <2>3. m_preparedStatements' \in Lists /\ overtaken' \subseteq Thread
            BY <1>6 DEF InvalidatePreparedStatements, DrvDisconnect, Lists, OvertakenBy
        <2> QED
            BY <1>6, <2>1, <2>2, <2>3
            DEF InvalidatePreparedStatements, DrvDisconnect, Goes, locks, serverVars
    <1>7. ASSUME NEW t \in Thread, Opened(t)
          PROVE  TypeOK'
        <2>1. mutexQueryLock' \in Mutex
            BY <1>7, LockCounts DEF Opened, Works, InDriver, LocksAccounted
        <2> QED
            BY <1>7, <2>1 DEF Opened, Goes, Results, Rows, handle, histories
    <1>8. ASSUME NEW t \in Thread, Begins(t)
          PROVE  TypeOK'
        <2>1. up' \in BOOLEAN /\ reachable' \in BOOLEAN /\ inTransaction' \in BOOLEAN /\ apart' \in BOOLEAN
            BY <1>8, Zenon DEF Begins
        <2> QED
            BY <1>8, <2>1 DEF Begins, Goes, locks
    <1>9. ASSUME NEW t \in Thread, Listed(t) \/ Removed(t)
          PROVE  TypeOK'
        <2>1. statement' \in [Thread -> Statements]
            BY <1>9, ListedStatements, RemovedStatements
        <2> QED
            BY <1>9, <2>1 DEF Listed, Removed, Goes, Lists, locks, handle, serverVars, histories
    <1>10. ASSUME NEW t \in Thread, QueryLocked(t) \/ QueryUnlocked(t)
          PROVE  TypeOK'
        <2>1. mutexQueryLock' \in Mutex
            BY <1>10, LockCounts, UnlockCounts, QueryHeld DEF QueryLocked, QueryUnlocked, LocksAccounted
        <2> QED
            BY <1>10, <2>1
            DEF QueryLocked, QueryUnlocked, Goes, Statements, Lists, handle, threadVars, serverVars, histories
    <1>11. ASSUME NEW t \in Thread, FreeBuffered(t) \/ FreeInvalidated(t)
          PROVE  TypeOK'
        BY <1>11
        DEF FreeBuffered, FreeInvalidated, Statements, BufferedResults, locks, handle, serverVars, histories
    <1>12. ASSUME NEW t \in Thread, DBFetch(t) \/ DBFreeResult(t)
          PROVE  TypeOK'
        <2>1. m_mutexTransLock' \in Mutex /\ mutexQueryLock' \in Mutex
            BY <1>12, QueryHeld, EnteredHolds, UnlockCounts DEF DBFetch, DBFreeResult, Leave, LocksAccounted
        <2> QED
            BY <1>12, <2>1 DEF DBFetch, DBFreeResult, Leave, Goes, Reading, Results, handle, histories
    <1>13. CASE Drop \/ ServerBack
        <2>1. up' \in BOOLEAN /\ reachable' \in BOOLEAN /\ inTransaction' \in BOOLEAN /\ apart' \in BOOLEAN
            BY <1>13, Zenon DEF Drop, ServerBack, histories
        <2> QED
            BY <1>13, <2>1 DEF Drop, ServerBack, locks, handle, threadVars, histories
    <1>14. CASE UNCHANGED vars
        BY <1>14 DEF vars, locks, handle, threadVars, serverVars, histories
    <1> QED
        BY <1>1, <1>2, <1>3, <1>4, <1>5, <1>6, <1>7, <1>8, <1>9, <1>10, <1>11, <1>12, <1>13, <1>14
        DEF Next, Inside

-----------------------------------------------------------------------------
(* Locks                                                                   *)

\* Both locks are counted as the threads' claims are.
Claimed ==
    /\ Counted(m_mutexTransLock) /\ Counted(mutexQueryLock)
    /\ \A t \in Thread : /\ HeldBy(m_mutexTransLock, t) = TransClaims(t)
                         /\ HeldBy(mutexQueryLock, t) = QueryClaims(t)

\* Then a thread that holds the query lock for longer than a call has entered.
LEMMA ClaimsSuffice == TypeOK /\ Claimed => LocksAccounted
    <1> SUFFICES ASSUME TypeOK, Claimed
                 PROVE  LocksAccounted
        OBVIOUS
    <1>1. ASSUME NEW t \in Thread, Waits(t), mutexQueryLock.fHolder = t
          PROVE  MayEnter(t)
        <2>1. mutexQueryLock.fHolderCount \in Nat /\ mutexQueryLock.fHolderCount # 0
            BY <1>1, MutexAssumption DEF TypeOK, Mutex, Claimed, Counted
        <2>2. HeldBy(mutexQueryLock, t) > 0
            BY <1>1, <2>1 DEF HeldBy
        <2>3. Reading(t)
            BY <1>1, <2>2 DEF Claimed, QueryClaims, Waits, Holding
        <2>4. TransClaims(t) > 0
            BY <2>3 DEF Reading, TransClaims, TypeOK
        <2>5. m_mutexTransLock.fHolder = t
            BY <2>4 DEF Claimed, HeldBy
        <2> QED
            BY <1>1, <2>5 DEF MayEnter, MayLock
    <1> QED
        BY <1>1 DEF Claimed, LocksAccounted

LEMMA InitLocks == Init => LocksAccounted
    <1> SUFFICES ASSUME Init
                 PROVE  LocksAccounted
        OBVIOUS
    <1>1. \A t \in Thread : TransClaims(t) = 0 /\ QueryClaims(t) = 0
        <2> SUFFICES ASSUME NEW t \in Thread
                     PROVE  TransClaims(t) = 0 /\ QueryClaims(t) = 0
            OBVIOUS
        <2>1. pc[t] = "idle" /\ result[t] = NoResult /\ begun[t] = 0
            BY DEF Init
        <2>2. ~Reading(t) /\ ~Holding(t) /\ ~Entered(t)
            BY <2>1 DEF Reading, Holding, Entered
        <2> QED
            BY <2>1, <2>2 DEF TransClaims, QueryClaims
    <1>2. Claimed
        BY <1>1, FreeCounts DEF Init, Claimed
    <1> QED
        BY <1>2, InitTypes, ClaimsSuffice

\* The claims of a thread depend on its own fields only.
LEMMA SameClaims ==
    ASSUME NEW u \in Thread,
           pc'[u] = pc[u], op'[u] = op[u], result'[u] = result[u], buffered'[u] = buffered[u],
           statement'[u] \in {"unlisted", "valid"} <=> statement[u] \in {"unlisted", "valid"}
    PROVE  /\ QueryClaims(u)' = QueryClaims(u)
           /\ begun'[u] = begun[u] => TransClaims(u)' = TransClaims(u)
    <1>1. Holding(u)' <=> Holding(u)
        BY DEF Holding, UsesFreed
    <1>2. (Reading(u)' <=> Reading(u)) /\ (Entered(u)' <=> Entered(u))
        BY DEF Reading, Entered
    <1> QED
        BY <1>1, <1>2 DEF QueryClaims, TransClaims

\* Steps that neither lock nor unlock, of a thread that stays in or out.
LEMMA LocksUntouched ==
    ASSUME LocksAccounted, UNCHANGED <<m_mutexTransLock, mutexQueryLock>>,
           \A u \in Thread : TransClaims(u)' = TransClaims(u) /\ QueryClaims(u)' = QueryClaims(u)
    PROVE  Claimed'
    BY DEF LocksAccounted, Claimed, Counted, HeldBy

\* A call that has entered gives its lock back, and leaves the query lock.
LEMMA LocksLeft ==
    ASSUME TypeOK, LocksAccounted, NEW t \in Thread, Entered(t), NEW to \in {"idle", "list"},
           Leave(t, to), UNCHANGED <<mutexQueryLock, result, begun>>,
           \A u \in Thread \ {t} : statement'[u] = statement[u] /\ buffered'[u] = buffered[u]
    PROVE  Claimed'
    <1>1. \A u \in Thread \ {t} : pc'[u] = pc[u] /\ op'[u] = op[u]
        BY DEF Leave, Goes, TypeOK
    <1>2. pc'[t] = to
        BY DEF Leave, Goes, TypeOK
    <1>3. QueryClaims(t)' = QueryClaims(t)
        BY <1>2 DEF QueryClaims, Reading, Holding, Entered
    <1>4. \A u \in Thread \ {t} : QueryClaims(u)' = QueryClaims(u) /\ TransClaims(u)' = TransClaims(u)
        BY <1>1, SameClaims
    <1>5. HeldBy(m_mutexTransLock, t) > 0 /\ HeldBy(m_mutexTransLock, t) = TransClaims(t)
        BY EnteredHolds DEF LocksAccounted
    <1>6. TransClaims(t)' = TransClaims(t) - 1
        BY <1>2 DEF TransClaims, Entered, TypeOK
    <1>7. /\ Counted(m_mutexTransLock)' /\ HeldBy(m_mutexTransLock, t)' = TransClaims(t)'
          /\ \A u \in Thread \ {t} : HeldBy(m_mutexTransLock, u)' = TransClaims(u)'
        BY <1>4, <1>5, <1>6, UnlockCounts DEF Leave, LocksAccounted, TypeOK, Counted, HeldBy
    <1> QED
        BY <1>3, <1>4, <1>7 DEF Claimed, LocksAccounted, Counted, HeldBy

LEMMA NextLocks == IInv /\ [Next]_vars => LocksAccounted'
    <1> SUFFICES ASSUME IInv, [Next]_vars
                 PROVE  Claimed'
        BY NextTypes, ClaimsSuffice, PTL
    <1> USE DEF IInv
    <1>1. ASSUME NEW t \in Thread, NEW k \in Calls, Call(t, k)
          PROVE  Claimed'
        <2>1. \A u \in Thread \ {t} : pc'[u] = pc[u] /\ op'[u] = op[u]
            BY <1>1 DEF Call, TypeOK
        <2>2. UNCHANGED <<locks, threadVars>>
            BY <1>1 DEF Call
        <2>3. pc[t] = "idle" /\ pc'[t] \in {"queryLock", "remove", "lock"}
            BY <1>1 DEF Call, Start, TypeOK
        <2>4. TransClaims(t)' = TransClaims(t) /\ QueryClaims(t)' = QueryClaims(t)
            BY <2>2, <2>3 DEF TransClaims, QueryClaims, Entered, Reading, Holding, threadVars
        <2>5. \A u \in Thread \ {t} : TransClaims(u)' = TransClaims(u) /\ QueryClaims(u)' = QueryClaims(u)
            BY <2>1, <2>2, SameClaims DEF threadVars
        <2> QED
            BY <2>2, <2>4, <2>5, LocksUntouched DEF locks
    <1>2. ASSUME NEW t \in Thread,
                 EndNested(t) \/ Loses(t) \/ Listing(t) \/ InvalidatePreparedStatements(t)
          PROVE  Claimed'
        <2>1. \A u \in Thread \ {t} : pc'[u] = pc[u] /\ op'[u] = op[u]
            BY <1>2 DEF EndNested, Loses, Listing, InvalidatePreparedStatements, Goes, TypeOK
        <2>2. UNCHANGED <<locks, result, begun>>
            BY <1>2 DEF EndNested, Loses, Listing, InvalidatePreparedStatements, threadVars
        <2>3. \/ ~Entered(t) /\ ~Entered(t)'
              \/ Entered(t) /\ Entered(t)'
            BY <1>2
            DEF EndNested, MayEnter, Waits, Loses, Lost, InDriver, Listing, InvalidatePreparedStatements,
                Goes, Entered, TypeOK
        <2>4. pc[t] # "holding" /\ pc'[t] # "holding"
            BY <1>2
            DEF EndNested, MayEnter, Waits, Loses, Lost, InDriver, Listing, InvalidatePreparedStatements,
                Goes, TypeOK
        <2>5. TransClaims(t)' = TransClaims(t) /\ QueryClaims(t)' = QueryClaims(t)
            BY <2>2, <2>3, <2>4 DEF TransClaims, QueryClaims, Reading, Holding
        <2>6. CASE UNCHANGED <<statement, buffered>>
            <3>1. \A u \in Thread \ {t} : TransClaims(u)' = TransClaims(u) /\ QueryClaims(u)' = QueryClaims(u)
                BY <2>1, <2>2, <2>6, SameClaims
            <3> QED
                BY <2>2, <2>5, <3>1, LocksUntouched DEF locks
        <2>7. CASE InvalidatePreparedStatements(t)
            \* Whoever has the query lock keeps it, since the statements are
            \* closed with it.
            <3>1. CASE \E v \in Thread : statement[v] = "valid"
                <4>1. MayLock(mutexQueryLock, t)
                    BY <2>7, <3>1 DEF InvalidatePreparedStatements
                <4>2. \A u \in Thread \ {t} : ~Holding(u)
                    BY <4>1, QueryHeld, MutexAssumption DEF MayLock
                <4>3. ASSUME NEW u \in Thread \ {t}
                      PROVE  ~Holding(u)'
                    <5>1. statement'[u] = (IF statement[u] = "valid" THEN "invalid" ELSE statement[u])
                        BY <2>7 DEF InvalidatePreparedStatements
                    <5>2. buffered[u] = "outlived" => buffered'[u] = "outlived"
                        BY <2>7 DEF InvalidatePreparedStatements
                    <5> QED
                        BY <2>1, <4>2, <5>1, <5>2 DEF Holding, UsesFreed
                <4>4. \A u \in Thread \ {t} : TransClaims(u)' = TransClaims(u) /\ QueryClaims(u)' = QueryClaims(u)
                    BY <2>1, <2>2, <4>2, <4>3 DEF TransClaims, QueryClaims, Reading, Entered
                <4> QED
                    BY <2>2, <2>5, <4>4, LocksUntouched DEF locks
            <3>2. CASE ~\E v \in Thread : statement[v] = "valid"
                <4>1. \A u \in Thread : statement'[u] = statement[u] /\ buffered'[u] = buffered[u]
                    BY <2>7, <3>2 DEF InvalidatePreparedStatements
                <4>2. \A u \in Thread \ {t} : TransClaims(u)' = TransClaims(u) /\ QueryClaims(u)' = QueryClaims(u)
                    BY <2>1, <2>2, <4>1, SameClaims
                <4> QED
                    BY <2>2, <2>5, <4>2, LocksUntouched DEF locks
            <3> QED
                BY <3>1, <3>2
        <2> QED
            BY <1>2, <2>6, <2>7 DEF EndNested, Loses, Listing, threadVars
    <1>3. ASSUME NEW t \in Thread, BeginNested(t) \/ Enter(t)
          PROVE  Claimed'
        <2>1. /\ pc[t] = "lock" /\ MayLock(m_mutexTransLock, t)
              /\ m_mutexTransLock' = Locked(m_mutexTransLock, t)
              /\ UNCHANGED <<mutexQueryLock, result, statement, buffered>>
            BY <1>3 DEF BeginNested, Enter, MayEnter, Waits, threadVars
        <2>2. TransClaims(t)' = TransClaims(t) + 1
            BY <1>3, <2>1 DEF BeginNested, Enter, Goes, TransClaims, Entered, TypeOK, threadVars
        <2>3. \A u \in Thread \ {t} : pc'[u] = pc[u] /\ op'[u] = op[u] /\ begun'[u] = begun[u]
            BY <1>3 DEF BeginNested, Enter, Goes, TypeOK, threadVars
        <2>4. \A u \in Thread \ {t} : TransClaims(u)' = TransClaims(u) /\ QueryClaims(u)' = QueryClaims(u)
            BY <2>1, <2>3, SameClaims
        <2>5. pc'[t] # "holding"
            BY <1>3 DEF BeginNested, Enter, Goes, TypeOK
        <2>6. QueryClaims(t)' = QueryClaims(t)
            BY <2>1, <2>5 DEF QueryClaims, Reading, Holding
        <2>7. /\ Counted(m_mutexTransLock)'
              /\ \A u \in Thread : HeldBy(m_mutexTransLock, u)' = TransClaims(u)'
            BY <2>1, <2>2, <2>4, LockCounts DEF LocksAccounted, TypeOK, Counted, HeldBy
        <2> QED
            BY <2>1, <2>4, <2>6, <2>7 DEF Claimed, LocksAccounted, Counted, HeldBy
    <1>4. ASSUME NEW t \in Thread, Fails(t) \/ GivesUp(t) \/ Sent(t) \/ Prepared(t) \/ Ended(t)
          PROVE  Claimed'
        <2>1. Entered(t) /\ UNCHANGED <<mutexQueryLock, result, begun>>
            BY <1>4 DEF Fails, GivesUp, Lost, Sent, Prepared, Ended, Works, InDriver, Entered, threadVars
        <2>2. Leave(t, "idle") \/ Leave(t, "list")
            BY <1>4 DEF Fails, GivesUp, Sent, Prepared, Ended
        <2>3. \A u \in Thread \ {t} : statement'[u] = statement[u] /\ buffered'[u] = buffered[u]
            BY <1>4 DEF Fails, GivesUp, Sent, Prepared, Ended, TypeOK, threadVars
        <2> QED
            BY <2>1, <2>2, <2>3, LocksLeft
    <1>5. ASSUME NEW t \in Thread, DrvDisconnect(t)
          PROVE  Claimed'
        <2>1. Entered(t) /\ mutexQueryLock' = Free /\ UNCHANGED <<m_mutexTransLock, result, begun>>
            BY <1>5 DEF DrvDisconnect, Entered
        <2>2. \A u \in Thread : ~Reading(u)
            BY <1>5, <2>1, Alone DEF DrvDisconnect, CallsInOrder, CallInOrder, Reconnecting
        <2>3. \A u \in Thread \ {t} : pc'[u] = pc[u] /\ op'[u] = op[u]
            BY <1>5 DEF DrvDisconnect, Goes, TypeOK
        <2>4. Entered(t)' /\ pc'[t] # "holding"
            BY <1>5 DEF DrvDisconnect, Goes, Entered, TypeOK
        <2>5. \A u \in Thread : TransClaims(u)' = TransClaims(u)
            BY <2>1, <2>3, <2>4 DEF TransClaims, Entered
        \* A getter finds its result outlived, and DrvFreeStatement its statement.
        <2>6. ASSUME NEW u \in Thread \ {t}
              PROVE  ~Holding(u)'
            <3>1. statement'[u] \notin {"unlisted", "valid"}
                BY <1>5 DEF DrvDisconnect
            <3>2. buffered[u] # "none" => buffered'[u] = "outlived"
                BY <1>5 DEF DrvDisconnect, TypeOK, BufferedResults
            <3> QED
                BY <2>3, <3>1, <3>2 DEF Holding, UsesFreed, CallsInOrder, CallInOrder, InOutside, Outside
        <2>7. \A u \in Thread : QueryClaims(u)' = 0
            BY <2>1, <2>2, <2>4, <2>6 DEF QueryClaims, Reading, Holding
        <2> QED
            BY <2>1, <2>5, <2>7, FreeCounts DEF Claimed, LocksAccounted, Counted, HeldBy
    <1>6. ASSUME NEW t \in Thread, DrvConnect(t)
          PROVE  Claimed'
        <2>1. Entered(t) /\ UNCHANGED <<mutexQueryLock, result, begun, statement, buffered>>
            BY <1>6 DEF DrvConnect, Entered, threadVars
        <2>2. CASE op[t] \in Retried
            <3>1. \A u \in Thread \ {t} : pc'[u] = pc[u] /\ op'[u] = op[u]
                BY <1>6, <2>2 DEF DrvConnect, Goes, TypeOK
            <3>2. Entered(t)' /\ pc[t] # "holding" /\ pc'[t] # "holding"
                BY <1>6, <2>2 DEF DrvConnect, Goes, Entered, TypeOK
            <3>3. TransClaims(t)' = TransClaims(t) /\ QueryClaims(t)' = QueryClaims(t)
                BY <2>1, <3>2 DEF TransClaims, QueryClaims, Reading, Holding
            <3>4. \A u \in Thread \ {t} : TransClaims(u)' = TransClaims(u) /\ QueryClaims(u)' = QueryClaims(u)
                BY <2>1, <3>1, SameClaims
            <3> QED
                BY <1>6, <2>1, <2>2, <3>3, <3>4, LocksUntouched DEF DrvConnect
        <2>3. CASE op[t] \notin Retried
            BY <1>6, <2>1, <2>3, LocksLeft DEF DrvConnect
        <2> QED
            BY <2>2, <2>3
    <1>7. ASSUME NEW t \in Thread, Opened(t)
          PROVE  Claimed'
        <2>1. Entered(t) /\ result[t] = NoResult /\ MayLock(mutexQueryLock, t)
            BY <1>7 DEF Opened, Works, InDriver, Entered, CallsInOrder, CallInOrder
        <2> DEFINE new == [prepared |-> op[t] \in OnStatement, noMoreRows |-> FALSE]
        <2>2. result' = [result EXCEPT ![t] = new]
            BY <1>7 DEF Opened
        <2>3. new \in Results /\ ~new.noMoreRows
            BY DEF Results
        <2> HIDE DEF new
        <2>4. result'[t] # NoResult /\ ~result'[t].noMoreRows
            BY <2>2, <2>3, DbAssumption DEF TypeOK, Results
        <2>5. pc'[t] = "idle" /\ \A u \in Thread \ {t} : pc'[u] = pc[u] /\ op'[u] = op[u]
            BY <1>7 DEF Opened, Goes, TypeOK
        <2>6. TransClaims(t)' = TransClaims(t)
            BY <1>7, <2>1, <2>4, <2>5 DEF Opened, TransClaims, Entered, TypeOK
        <2>7. QueryClaims(t) = 0 /\ QueryClaims(t)' = 1
            BY <2>1, <2>4, <2>5 DEF QueryClaims, Reading, Holding, Entered
        <2>8. \A u \in Thread \ {t} : TransClaims(u)' = TransClaims(u) /\ QueryClaims(u)' = QueryClaims(u)
            BY <1>7, <2>2, <2>5, SameClaims DEF Opened, TypeOK
        <2>9. /\ Counted(mutexQueryLock)'
              /\ \A u \in Thread : HeldBy(mutexQueryLock, u)' = QueryClaims(u)'
            BY <1>7, <2>1, <2>7, <2>8, LockCounts DEF Opened, LocksAccounted, TypeOK, Counted, HeldBy
        <2> QED
            BY <1>7, <2>6, <2>8, <2>9 DEF Opened, Claimed, LocksAccounted, Counted, HeldBy
    <1>8. ASSUME NEW t \in Thread, Begins(t)
          PROVE  Claimed'
        <2>1. Entered(t) /\ UNCHANGED <<locks, statement, result, buffered>>
            BY <1>8 DEF Begins, Works, InDriver, Entered
        <2>2. /\ pc'[t] = "idle" /\ begun'[t] = begun[t] + 1
              /\ \A u \in Thread \ {t} : pc'[u] = pc[u] /\ op'[u] = op[u] /\ begun'[u] = begun[u]
            BY <1>8 DEF Begins, Goes, TypeOK
        <2>3. TransClaims(t)' = TransClaims(t) /\ QueryClaims(t)' = QueryClaims(t)
            BY <2>1, <2>2 DEF TransClaims, QueryClaims, Reading, Holding, Entered, TypeOK
        <2>4. \A u \in Thread \ {t} : TransClaims(u)' = TransClaims(u) /\ QueryClaims(u)' = QueryClaims(u)
            BY <2>1, <2>2, SameClaims
        <2> QED
            BY <2>1, <2>3, <2>4, LocksUntouched DEF locks
    <1>9. ASSUME NEW t \in Thread, Listed(t) \/ Removed(t)
          PROVE  Claimed'
        <2>1. UNCHANGED <<locks, result, buffered, begun>>
            BY <1>9 DEF Listed, Removed
        <2>2. \A u \in Thread \ {t} : pc'[u] = pc[u] /\ op'[u] = op[u]
            BY <1>9 DEF Listed, Removed, Goes, TypeOK
        <2>3. \A u \in Thread \ {t} :
                  statement'[u] \in {"unlisted", "valid"} <=> statement[u] \in {"unlisted", "valid"}
            BY <1>9, ListedStatements, RemovedStatements
        <2>4. \A u \in Thread \ {t} : TransClaims(u)' = TransClaims(u) /\ QueryClaims(u)' = QueryClaims(u)
            BY <2>1, <2>2, <2>3, SameClaims
        <2>5. ~Entered(t) /\ ~Entered(t)' /\ pc[t] # "holding" /\ pc'[t] # "holding"
            BY <1>9 DEF Listed, Removed, Goes, Entered, TypeOK
        <2>6. TransClaims(t)' = TransClaims(t) /\ QueryClaims(t)' = QueryClaims(t)
            BY <2>1, <2>5 DEF TransClaims, QueryClaims, Reading, Holding
        <2> QED
            BY <2>1, <2>4, <2>6, LocksUntouched DEF locks
    <1>10. ASSUME NEW t \in Thread, QueryLocked(t)
          PROVE  Claimed'
        <2>1. /\ pc[t] = "queryLock" /\ ~UsesFreed(t) /\ MayLock(mutexQueryLock, t)
              /\ mutexQueryLock' = Locked(mutexQueryLock, t) /\ UNCHANGED <<m_mutexTransLock, threadVars>>
            BY <1>10 DEF QueryLocked
        <2>2. /\ pc'[t] = "holding" /\ op'[t] = op[t]
              /\ \A u \in Thread \ {t} : pc'[u] = pc[u] /\ op'[u] = op[u]
            BY <1>10 DEF QueryLocked, Goes, TypeOK
        <2>3. Holding(t)' /\ ~Holding(t) /\ (Reading(t)' <=> Reading(t))
            BY <2>1, <2>2 DEF Holding, UsesFreed, Reading, threadVars
        <2>4. QueryClaims(t)' = QueryClaims(t) + 1
            BY <2>3 DEF QueryClaims
        <2>5. TransClaims(t)' = TransClaims(t)
            BY <2>1, <2>2 DEF TransClaims, Entered, threadVars
        <2>6. \A u \in Thread \ {t} : TransClaims(u)' = TransClaims(u) /\ QueryClaims(u)' = QueryClaims(u)
            BY <2>1, <2>2, SameClaims DEF threadVars
        <2>7. /\ Counted(mutexQueryLock)'
              /\ \A u \in Thread : HeldBy(mutexQueryLock, u)' = QueryClaims(u)'
            BY <2>1, <2>4, <2>6, LockCounts DEF LocksAccounted, TypeOK, Counted, HeldBy
        <2> QED
            BY <2>1, <2>5, <2>6, <2>7 DEF Claimed, LocksAccounted, Counted, HeldBy
    <1>11. ASSUME NEW t \in Thread, QueryUnlocked(t)
          PROVE  Claimed'
        <2>1. /\ Holding(t) /\ mutexQueryLock' = Unlocked(mutexQueryLock, t)
              /\ UNCHANGED <<m_mutexTransLock, result, buffered, begun>>
            BY <1>11 DEF QueryUnlocked
        <2>2. pc'[t] = "idle" /\ \A u \in Thread \ {t} : pc'[u] = pc[u] /\ op'[u] = op[u]
            BY <1>11 DEF QueryUnlocked, Goes, TypeOK
        <2>3. \A u \in Thread \ {t} : statement'[u] = statement[u]
            BY <1>11 DEF QueryUnlocked, TypeOK
        <2>4. QueryClaims(t)' = QueryClaims(t) - 1 /\ TransClaims(t)' = TransClaims(t)
            BY <2>1, <2>2 DEF QueryClaims, TransClaims, Holding, Reading, Entered
        <2>5. \A u \in Thread \ {t} : TransClaims(u)' = TransClaims(u) /\ QueryClaims(u)' = QueryClaims(u)
            BY <2>1, <2>2, <2>3, SameClaims
        <2>6. HeldBy(mutexQueryLock, t) > 0
            BY <2>1, QueryHeld
        <2>7. /\ Counted(mutexQueryLock)'
              /\ \A u \in Thread : HeldBy(mutexQueryLock, u)' = QueryClaims(u)'
            BY <2>1, <2>4, <2>5, <2>6, UnlockCounts DEF LocksAccounted, TypeOK, Counted, HeldBy
        <2> QED
            BY <2>1, <2>4, <2>5, <2>7 DEF Claimed, LocksAccounted, Counted, HeldBy
    <1>12. ASSUME NEW t \in Thread, FreeBuffered(t) \/ FreeInvalidated(t)
          PROVE  Claimed'
        <2>1. pc[t] = "idle" /\ UNCHANGED <<locks, result, begun, pc, op>>
            BY <1>12 DEF FreeBuffered, FreeInvalidated
        <2>2. \A u \in Thread \ {t} : statement'[u] = statement[u] /\ buffered'[u] = buffered[u]
            BY <1>12 DEF FreeBuffered, FreeInvalidated, TypeOK
        <2>3. TransClaims(t)' = TransClaims(t) /\ QueryClaims(t)' = QueryClaims(t)
            BY <2>1 DEF TransClaims, QueryClaims, Entered, Reading, Holding
        <2>4. \A u \in Thread \ {t} : TransClaims(u)' = TransClaims(u) /\ QueryClaims(u)' = QueryClaims(u)
            BY <2>1, <2>2, SameClaims
        <2> QED
            BY <2>1, <2>3, <2>4, LocksUntouched DEF locks
    <1>13. ASSUME NEW t \in Thread, DBFetch(t)
          PROVE  Claimed'
        <2>1. /\ Reading(t) /\ pc[t] = "idle" /\ mutexQueryLock' = Unlocked(mutexQueryLock, t)
              /\ UNCHANGED <<m_mutexTransLock, statement, buffered, begun, pc, op>>
            BY <1>13 DEF DBFetch
        <2>2. ~Reading(t)' /\ result'[t] # NoResult
            BY <1>13, <2>1, DbAssumption DEF DBFetch, Reading, TypeOK, Results
        <2>3. QueryClaims(t)' = QueryClaims(t) - 1 /\ TransClaims(t)' = TransClaims(t)
            BY <2>1, <2>2 DEF QueryClaims, TransClaims, Holding, Reading, Entered
        <2>4. \A u \in Thread \ {t} : result'[u] = result[u]
            BY <1>13 DEF DBFetch, TypeOK
        <2>5. \A u \in Thread \ {t} : TransClaims(u)' = TransClaims(u) /\ QueryClaims(u)' = QueryClaims(u)
            BY <2>1, <2>4, SameClaims
        <2>6. HeldBy(mutexQueryLock, t) > 0
            BY <2>1, QueryHeld
        <2>7. /\ Counted(mutexQueryLock)'
              /\ \A u \in Thread : HeldBy(mutexQueryLock, u)' = QueryClaims(u)'
            BY <2>1, <2>3, <2>5, <2>6, UnlockCounts DEF LocksAccounted, TypeOK, Counted, HeldBy
        <2> QED
            BY <2>1, <2>3, <2>5, <2>7 DEF Claimed, LocksAccounted, Counted, HeldBy
    <1>14. ASSUME NEW t \in Thread, DBFreeResult(t)
          PROVE  Claimed'
        <2>1. /\ result[t] # NoResult /\ pc[t] = "idle" /\ HeldBy(m_mutexTransLock, t) > 0
              /\ UNCHANGED <<statement, buffered, begun>>
            BY <1>14, EnteredHolds DEF DBFreeResult
        <2>2. /\ result'[t] = NoResult /\ pc'[t] = "idle"
              /\ \A u \in Thread \ {t} : pc'[u] = pc[u] /\ op'[u] = op[u] /\ result'[u] = result[u]
            BY <1>14 DEF DBFreeResult, Leave, Goes, TypeOK
        <2>3. TransClaims(t)' = TransClaims(t) - 1
            BY <2>1, <2>2 DEF TransClaims, Entered, TypeOK
        <2>4. QueryClaims(t) = (IF Reading(t) THEN 1 ELSE 0) /\ QueryClaims(t)' = 0
            BY <2>1, <2>2 DEF QueryClaims, Holding, Reading
        <2>5. \A u \in Thread \ {t} : TransClaims(u)' = TransClaims(u) /\ QueryClaims(u)' = QueryClaims(u)
            BY <2>1, <2>2, SameClaims
        <2>6. /\ Counted(m_mutexTransLock)'
              /\ \A u \in Thread : HeldBy(m_mutexTransLock, u)' = TransClaims(u)'
            BY <1>14, <2>1, <2>3, <2>5, UnlockCounts
            DEF DBFreeResult, Leave, LocksAccounted, TypeOK, Counted, HeldBy
        <2>7. /\ Counted(mutexQueryLock)'
              /\ \A u \in Thread : HeldBy(mutexQueryLock, u)' = QueryClaims(u)'
            <3>1. CASE Reading(t)
                BY <1>14, <2>4, <2>5, <3>1, QueryHeld, UnlockCounts
                DEF DBFreeResult, LocksAccounted, TypeOK, Counted, HeldBy
            <3>2. CASE ~Reading(t)
                BY <1>14, <2>4, <2>5, <3>2 DEF DBFreeResult, LocksAccounted, Counted, HeldBy
            <3> QED
                BY <3>1, <3>2
        <2> QED
            BY <2>6, <2>7 DEF Claimed
    <1>15. ASSUME UNCHANGED <<locks, threadVars, pc, op>>
          PROVE  Claimed'
        BY <1>15, SameClaims, LocksUntouched DEF locks, threadVars
    <1>16. CASE Drop \/ ServerBack \/ UNCHANGED vars
        BY <1>15, <1>16 DEF Drop, ServerBack, vars
    <1> QED
        BY <1>1, <1>2, <1>3, <1>4, <1>5, <1>6, <1>7, <1>8, <1>9, <1>10, <1>11, <1>12, <1>13, <1>14, <1>16
        DEF Next, Inside

-----------------------------------------------------------------------------
(* Rows                                                                    *)

\* A step of t, in a call or between two of them.
Own(t) ==
    \/ \E k \in Calls : Call(t, k)
    \/ Inside(t)
    \/ DBFetch(t) \/ DBFreeResult(t) \/ FreeBuffered(t) \/ FreeInvalidated(t)

\* Where a thread is, its result and its transactions are its own.
LEMMA OwnSteps ==
    ASSUME TypeOK, NEW t \in Thread, Own(t)
    PROVE  \A u \in Thread \ {t} :
               pc'[u] = pc[u] /\ op'[u] = op[u] /\ result'[u] = result[u] /\ begun'[u] = begun[u]
    <1> USE DEF TypeOK, Leave, Goes
    <1>1. CASE \E k \in Calls : Call(t, k)
        BY <1>1 DEF Call, threadVars
    <1>2. CASE BeginNested(t) \/ EndNested(t) \/ Enter(t) \/ Fails(t) \/ Loses(t) \/ GivesUp(t)
        BY <1>2 DEF BeginNested, EndNested, Enter, Fails, Loses, GivesUp, threadVars
    <1>3. CASE Sent(t) \/ Prepared(t) \/ Opened(t) \/ Begins(t) \/ Ended(t)
        BY <1>3 DEF Sent, Prepared, Opened, Begins, Ended, threadVars
    <1>4. CASE InvalidatePreparedStatements(t) \/ DrvDisconnect(t) \/ DrvConnect(t)
        BY <1>4 DEF InvalidatePreparedStatements, DrvDisconnect, DrvConnect, threadVars
    <1>5. CASE Listing(t) \/ Listed(t) \/ Removed(t) \/ QueryLocked(t) \/ QueryUnlocked(t)
        BY <1>5 DEF Listing, Listed, Removed, QueryLocked, QueryUnlocked, threadVars
    <1>6. CASE DBFetch(t) \/ DBFreeResult(t) \/ FreeBuffered(t) \/ FreeInvalidated(t)
        BY <1>6 DEF DBFetch, DBFreeResult, FreeBuffered, FreeInvalidated
    <1> QED
        BY <1>1, <1>2, <1>3, <1>4, <1>5, <1>6 DEF Own, Inside

\* Every step is one of a thread, or of the server.
LEMMA WhoSteps ==
    ASSUME [Next]_vars
    PROVE  (\E t \in Thread : Own(t)) \/ Drop \/ ServerBack \/ UNCHANGED vars
    BY DEF Next, Own

\* A command that MySQL does not refuse finds nobody in the middle of a result.
LEMMA NobodyReads ==
    ASSUME IInv, NEW t \in Thread, Entered(t), ~OutOfSync(t)
    PROVE  \A u \in Thread : ~Reading(u)
    <1>1. \A u \in Thread \ {t} : ~Reading(u)
        BY Alone DEF IInv
    <1>2. ASSUME Reading(t)
          PROVE  FALSE
        <2>1. rows = [of |-> t, prepared |-> result[t].prepared] /\ rows # NoResult
            BY <1>2, DbAssumption DEF IInv, RowsOwned, TypeOK, Reading, Results
        <2>2. op[t] \in OnStatement /\ rows = [of |-> t, prepared |-> TRUE]
            BY <2>1 DEF OutOfSync
        <2>3. result[t].prepared
            BY <2>1, <2>2
        <2> QED
            BY <1>2, <2>2, <2>3 DEF IInv, CallsInOrder, CallInOrder
    <1> QED
        BY <1>1, <1>2

LEMMA NextRows == IInv /\ [Next]_vars => RowsOwned'
    <1> SUFFICES ASSUME IInv, [Next]_vars
                 PROVE  RowsOwned'
        OBVIOUS
    <1>1. ASSUME UNCHANGED <<result, rows>>
          PROVE  RowsOwned'
        BY <1>1 DEF IInv, RowsOwned, Reading
    <1>2. ASSUME UNCHANGED result, rows' = NoResult, \A u \in Thread : ~Reading(u)
          PROVE  RowsOwned'
        BY <1>2 DEF RowsOwned, Reading
    <1>3. ASSUME NEW t \in Thread, NEW k \in Calls, Call(t, k)
          PROVE  RowsOwned'
        BY <1>1, <1>3 DEF Call, threadVars, serverVars
    <1>4. ASSUME NEW t \in Thread,
                 \/ BeginNested(t) \/ EndNested(t) \/ Enter(t) \/ Loses(t) \/ GivesUp(t)
                 \/ Prepared(t) \/ Begins(t) \/ Ended(t) \/ InvalidatePreparedStatements(t) \/ DrvConnect(t)
                 \/ Listing(t) \/ Listed(t) \/ Removed(t) \/ QueryLocked(t)
                 \/ FreeBuffered(t) \/ FreeInvalidated(t)
          PROVE  RowsOwned'
        BY <1>1, <1>4
        DEF BeginNested, EndNested, Enter, Loses, GivesUp, Prepared, Begins, Ended, InvalidatePreparedStatements,
            DrvConnect, Listing, Listed, Removed, QueryLocked, FreeBuffered, FreeInvalidated, threadVars, serverVars
    <1>5. ASSUME NEW t \in Thread, Fails(t) \/ Sent(t)
          PROVE  RowsOwned'
        <2>1. Entered(t) /\ UNCHANGED result
            BY <1>5 DEF Fails, Sent, Works, InDriver, Entered, threadVars
        <2>2. CASE OutOfSync(t)
            BY <1>1, <1>5, <2>1, <2>2 DEF Fails, Sent, Works
        <2>3. CASE ~OutOfSync(t)
            BY <1>2, <1>5, <2>1, <2>3, NobodyReads DEF Fails, Sent
        <2> QED
            BY <2>2, <2>3
    <1>6. ASSUME NEW t \in Thread, DrvDisconnect(t)
          PROVE  RowsOwned'
        BY <1>2, <1>6, Alone DEF DrvDisconnect, Entered, IInv, CallsInOrder, CallInOrder, Reconnecting
    <1>7. ASSUME NEW t \in Thread, Opened(t)
          PROVE  RowsOwned'
        <2> DEFINE new == [prepared |-> op[t] \in OnStatement, noMoreRows |-> FALSE]
        <2>1. result' = [result EXCEPT ![t] = new] /\ rows' = [of |-> t, prepared |-> new.prepared]
            BY <1>7 DEF Opened
        <2>2. Entered(t)
            BY <1>7 DEF Opened, Works, InDriver, Entered
        <2>3. \A u \in Thread \ {t} : result[u] = NoResult /\ ~Reading(u)
            BY <2>2, Alone DEF IInv
        <2>4. new \in Results /\ ~new.noMoreRows
            BY DEF Results
        <2> HIDE DEF new
        <2>5. result'[t] = new /\ rows' = [of |-> t, prepared |-> result'[t].prepared]
            BY <2>1 DEF IInv, TypeOK
        <2>6. Reading(t)' /\ \A u \in Thread \ {t} : ~Reading(u)'
            BY <2>1, <2>3, <2>4, <2>5, DbAssumption DEF Reading, IInv, TypeOK, Results
        <2>7. rows'.of = t
            BY <2>5
        <2> QED
            BY <2>5, <2>6, <2>7 DEF RowsOwned
    <1>8. ASSUME NEW t \in Thread, DBFetch(t)
          PROVE  RowsOwned'
        <2>1. \A u \in Thread \ {t} : ~Reading(u)
            BY <1>8, Alone DEF DBFetch, Reading, IInv
        <2>2. \A u \in Thread : ~Reading(u)'
            BY <1>8, <2>1 DEF DBFetch, Reading, IInv, TypeOK, Results
        <2> QED
            BY <1>8, <2>2 DEF DBFetch, RowsOwned
    <1>9. ASSUME NEW t \in Thread, DBFreeResult(t)
          PROVE  RowsOwned'
        <2>1. \A u \in Thread \ {t} : ~Reading(u)
            BY <1>9, Alone DEF DBFreeResult, IInv
        <2>2. \A u \in Thread : ~Reading(u)'
            BY <1>9, <2>1 DEF DBFreeResult, Reading, IInv, TypeOK
        <2>3. ASSUME rows' # NoResult
              PROVE  rows'.prepared
            <3>1. rows' = rows /\ ~(Reading(t) /\ ~result[t].prepared)
                BY <1>9, <2>3 DEF DBFreeResult
            <3>2. ~rows.prepared => Reading(rows.of) /\ rows.of \in Thread
                BY <2>3, <3>1 DEF IInv, RowsOwned, TypeOK, Rows
            <3>3. ~rows.prepared => Reading(t) /\ rows = [of |-> t, prepared |-> result[t].prepared]
                BY <2>1, <3>2 DEF IInv, RowsOwned
            <3> QED
                BY <3>1, <3>3
        <2> QED
            BY <2>2, <2>3 DEF RowsOwned
    <1>10. ASSUME NEW t \in Thread, QueryUnlocked(t)
          PROVE  RowsOwned'
        <2>1. Holding(t) /\ UNCHANGED result
            BY <1>10 DEF QueryUnlocked
        <2>2. CASE op[t] = "getField"
            BY <1>1, <1>10, <2>1, <2>2 DEF QueryUnlocked
        <2>3. CASE op[t] # "getField"
            <3>1. op[t] = "freeStatement" /\ result[t] = NoResult
                BY <2>1, <2>3 DEF Holding, IInv, CallsInOrder, CallInOrder, Outside
            <3>2. \A u \in Thread : ~Reading(u)
                BY <2>1, <3>1, QueryHeld DEF IInv, Reading
            <3> QED
                BY <1>2, <1>10, <2>1, <2>3, <3>2 DEF QueryUnlocked
        <2> QED
            BY <2>2, <2>3
    <1>11. CASE Drop \/ ServerBack \/ UNCHANGED vars
        BY <1>1, <1>11 DEF Drop, ServerBack, vars, threadVars, serverVars
    <1> QED
        BY <1>3, <1>4, <1>5, <1>6, <1>7, <1>8, <1>9, <1>10, <1>11 DEF Next, Inside

-----------------------------------------------------------------------------
(* Calls                                                                   *)

\* A thread that does nothing keeps to the rules.
LEMMA CallKept ==
    ASSUME NEW u \in Thread, CallInOrder(u), pc'[u] = pc[u], op'[u] = op[u], result'[u] = result[u],
           buffered[u] # "none" => buffered'[u] # "none"
    PROVE  CallInOrder(u)'
    BY DEF CallInOrder, Entered, Reading, InOutside

\* So does one whose call is over.
LEMMA CallOver ==
    ASSUME NEW u \in Thread, pc'[u] = "idle", op'[u] = "none"
    PROVE  CallInOrder(u)'
    BY DEF CallInOrder, Entered, InOutside, Reconnecting

\* No result of a statement vanishes but the own one.
LEMMA ResultsStay ==
    ASSUME TypeOK, NEW t \in Thread, Own(t)
    PROVE  \A u \in Thread \ {t} : buffered[u] # "none" => buffered'[u] # "none"
    <1>1. CASE Sent(t) \/ InvalidatePreparedStatements(t) \/ DrvDisconnect(t) \/ FreeBuffered(t)
        BY <1>1 DEF Sent, InvalidatePreparedStatements, DrvDisconnect, FreeBuffered, TypeOK
    <1>2. CASE UNCHANGED buffered
        BY <1>2
    <1>3. CASE \E k \in Calls : Call(t, k)
        BY <1>2, <1>3 DEF Call, threadVars
    <1>4. CASE Inside(t)
        BY <1>1, <1>2, <1>4
        DEF Inside, BeginNested, EndNested, Enter, Fails, Loses, GivesUp, Prepared, Opened, Begins, Ended, DrvConnect,
            Listing, Listed, Removed, QueryLocked, QueryUnlocked, threadVars
    <1>5. CASE DBFetch(t) \/ DBFreeResult(t) \/ FreeInvalidated(t)
        BY <1>2, <1>5 DEF DBFetch, DBFreeResult, FreeInvalidated
    <1> QED
        BY <1>1, <1>3, <1>4, <1>5 DEF Own

LEMMA NextCalls == IInv /\ [Next]_vars => CallsInOrder'
    <1> SUFFICES ASSUME IInv, [Next]_vars
                 PROVE  CallsInOrder'
        OBVIOUS
    <1> USE DEF IInv
    <1>1. ASSUME NEW t \in Thread, Own(t)
          PROVE  CallsInOrder'
        <2>1. ASSUME NEW u \in Thread \ {t}
              PROVE  CallInOrder(u)'
            BY <1>1, OwnSteps, ResultsStay, CallKept DEF CallsInOrder
        <2>2. CallInOrder(t)
            BY DEF CallsInOrder
        <2> SUFFICES CallInOrder(t)'
            BY <2>1 DEF CallsInOrder
        <2>3. ASSUME NEW k \in Calls, Call(t, k)
              PROVE  CallInOrder(t)'
            <3>1. pc'[t] = Start(k) /\ op'[t] = k /\ UNCHANGED <<result, buffered>>
                BY <2>3 DEF Call, TypeOK, threadVars
            <3> QED
                BY <2>3, <3>1
                DEF Call, MayCall, Start, CallInOrder, Entered, Reading, InOutside, Reconnecting, Outside
        <2>4. CASE \/ BeginNested(t) \/ EndNested(t) \/ Fails(t) \/ GivesUp(t) \/ Sent(t) \/ Opened(t)
                   \/ Begins(t) \/ Ended(t) \/ Listed(t) \/ QueryUnlocked(t)
            <3>1. pc'[t] = "idle" /\ op'[t] = "none"
                BY <2>4
                DEF BeginNested, EndNested, Fails, GivesUp, Sent, Opened, Begins, Ended, Listed, QueryUnlocked,
                    Leave, Goes, TypeOK
            <3> QED
                BY <3>1, CallOver
        <2>5. CASE Enter(t) \/ Loses(t)
            <3>1. op'[t] = op[t] /\ UNCHANGED result
                BY <2>5 DEF Enter, Loses, Goes, TypeOK, threadVars
            <3>2. CASE Enter(t)
                <4>1. pc[t] = "lock" /\ pc'[t] = "driver"
                    BY <3>2 DEF Enter, MayEnter, Waits, Goes, TypeOK
                <4> QED
                    BY <2>2, <3>1, <4>1 DEF CallInOrder, Entered, Reading, InOutside, Reconnecting
            <3>3. CASE Loses(t)
                <4>1. Entered(t) /\ op[t] \notin Ends /\ pc'[t] = "reconnect" /\ ~Reading(t)
                    BY <3>3, NobodyReads DEF Loses, Lost, InDriver, Goes, Entered, TypeOK
                <4> QED
                    BY <2>2, <3>1, <4>1 DEF CallInOrder, Entered, Reading, InOutside, Reconnecting
            <3> QED
                BY <2>5, <3>2, <3>3
        <2>6. CASE Prepared(t) \/ Listing(t)
            <3>1. /\ op'[t] = op[t] /\ pc'[t] \in {"list", "push"} /\ UNCHANGED result
                BY <2>6 DEF Prepared, Listing, Leave, Goes, TypeOK, threadVars
            <3> QED
                BY <2>2, <3>1 DEF CallInOrder, Entered, InOutside, Reconnecting
        <2>7. CASE InvalidatePreparedStatements(t) \/ DrvDisconnect(t)
            <3>1. /\ pc[t] \in Reconnecting /\ op'[t] = op[t] /\ pc'[t] \in {"disconnect", "connect"}
                  /\ UNCHANGED result
                BY <2>7 DEF InvalidatePreparedStatements, DrvDisconnect, Reconnecting, Goes, TypeOK
            <3> QED
                BY <2>2, <3>1 DEF CallInOrder, Entered, InOutside, Reading, Reconnecting
        <2>8. CASE DrvConnect(t)
            <3>1. CASE op[t] \in Retried
                <4>1. pc[t] = "connect" /\ pc'[t] = "again" /\ op'[t] = op[t] /\ UNCHANGED result
                    BY <2>8, <3>1 DEF DrvConnect, Goes, TypeOK, threadVars
                <4> QED
                    BY <2>2, <3>1, <4>1 DEF CallInOrder, Entered, InOutside, Reading, Reconnecting
            <3>2. CASE op[t] \notin Retried
                BY <2>8, <3>2, CallOver DEF DrvConnect, Leave, Goes, TypeOK
            <3> QED
                BY <3>1, <3>2
        <2>9. CASE Removed(t)
            <3>1. UNCHANGED <<result, buffered>> /\ pc[t] = "remove" /\ op[t] = "freeStatement"
                BY <2>2, <2>9 DEF Removed, CallInOrder
            <3>2. \/ pc'[t] = "idle" /\ op'[t] = "none"
                  \/ pc'[t] = "queryLock" /\ op'[t] = op[t]
                BY <2>9, RemovedStatements
            <3> QED
                BY <2>2, <3>1, <3>2, CallOver DEF CallInOrder, Entered, InOutside, Reconnecting, Outside
        <2>10. CASE QueryLocked(t)
            <3>1. /\ pc[t] = "queryLock" /\ pc'[t] = "holding" /\ op'[t] = op[t]
                  /\ UNCHANGED <<result, buffered>>
                BY <2>10 DEF QueryLocked, Goes, TypeOK, threadVars
            <3> QED
                BY <2>2, <3>1 DEF CallInOrder, Entered, InOutside, Reconnecting
        <2>11. CASE DBFetch(t) \/ DBFreeResult(t) \/ FreeBuffered(t) \/ FreeInvalidated(t)
            <3>1. pc[t] = "idle" /\ pc'[t] = "idle"
                BY <2>11 DEF DBFetch, DBFreeResult, FreeBuffered, FreeInvalidated, Leave, Goes, TypeOK
            <3>2. op'[t] = "freeStatement" => op[t] = "freeStatement" /\ result'[t] = result[t]
                BY <2>2, <2>11
                DEF DBFetch, DBFreeResult, FreeBuffered, FreeInvalidated, Leave, Goes, TypeOK, CallInOrder, Reading
            <3> QED
                BY <2>2, <3>1, <3>2 DEF CallInOrder, Entered, InOutside, Reconnecting
        <2> QED
            BY <1>1, <2>3, <2>4, <2>5, <2>6, <2>7, <2>8, <2>9, <2>10, <2>11 DEF Own, Inside
    <1>2. CASE Drop \/ ServerBack \/ UNCHANGED vars
        BY <1>2, CallKept DEF Drop, ServerBack, vars, threadVars, CallsInOrder
    <1> QED
        BY <1>1, <1>2, WhoSteps

-----------------------------------------------------------------------------
(* Statements                                                              *)

\* A torn vector stays so, and only a new statement makes up for a reconnect.
LEMMA HistoriesKept ==
    ASSUME TypeOK, NEW t \in Thread, Own(t)
    PROVE  /\ Torn => Torn'
           /\ overtaken \ {t} \subseteq overtaken'
           /\ overtaken \subseteq overtaken' \/ Prepared(t)
    <1>1. CASE \E k \in Calls : Call(t, k)
        BY <1>1 DEF Call, ListEnteredBy, Torn, histories
    <1>2. CASE InvalidatePreparedStatements(t) \/ DrvDisconnect(t)
        BY <1>2 DEF InvalidatePreparedStatements, DrvDisconnect, ListEnteredBy, OvertakenBy, Torn
    <1>3. CASE BeginNested(t) \/ EndNested(t) \/ Enter(t) \/ Fails(t) \/ Loses(t) \/ GivesUp(t) \/ Sent(t)
        BY <1>3 DEF BeginNested, EndNested, Enter, Fails, Loses, GivesUp, Sent, Torn, handle, histories
    <1>4. CASE Prepared(t) \/ Opened(t) \/ Begins(t) \/ Ended(t) \/ DrvConnect(t)
        BY <1>4 DEF Prepared, Opened, Begins, Ended, DrvConnect, Torn, handle, histories
    <1>5. CASE Listing(t) \/ Listed(t) \/ Removed(t) \/ QueryLocked(t) \/ QueryUnlocked(t)
        BY <1>5 DEF Listing, Listed, Removed, QueryLocked, QueryUnlocked, ListEnteredBy, Torn, handle, histories
    <1>6. CASE DBFetch(t) \/ DBFreeResult(t) \/ FreeBuffered(t) \/ FreeInvalidated(t)
        BY <1>6 DEF DBFetch, DBFreeResult, FreeBuffered, FreeInvalidated, Torn, handle, histories
    <1> QED
        BY <1>1, <1>2, <1>3, <1>4, <1>5, <1>6 DEF Own, Inside

\* Steps between two reconnects: a thread changes its own statement, and a torn
\* vector may lose those of others.
LEMMA OthersStatements ==
    ASSUME TypeOK, NEW t \in Thread, Own(t), ~InvalidatePreparedStatements(t), ~DrvDisconnect(t)
    PROVE  \A u \in Thread \ {t} :
               \/ statement'[u] = statement[u]
               \/ Torn /\ statement[u] = "valid" /\ statement'[u] = "unlisted"
    <1>1. CASE Listed(t) \/ Removed(t)
        BY <1>1, ListedStatements, RemovedStatements
    <1>2. CASE Prepared(t) \/ QueryUnlocked(t) \/ FreeInvalidated(t)
        BY <1>2 DEF Prepared, QueryUnlocked, FreeInvalidated, TypeOK
    <1>3. CASE UNCHANGED statement
        BY <1>3
    <1>4. CASE \E k \in Calls : Call(t, k)
        BY <1>3, <1>4 DEF Call, threadVars
    <1>5. CASE Inside(t)
        BY <1>1, <1>2, <1>3, <1>5
        DEF Inside, BeginNested, EndNested, Enter, Fails, Loses, GivesUp, Sent, Opened, Begins, Ended, DrvConnect,
            Listing, QueryLocked, threadVars
    <1>6. CASE DBFetch(t) \/ DBFreeResult(t) \/ FreeBuffered(t)
        BY <1>3, <1>6 DEF DBFetch, DBFreeResult, FreeBuffered
    <1> QED
        BY <1>2, <1>4, <1>5, <1>6 DEF Own

\* They leave the statements of the other threads in order,
LEMMA StatementKept ==
    ASSUME NEW u \in Thread, StatementInOrder(u), pc'[u] = pc[u], op'[u] = op[u], Torn => Torn',
           u \in overtaken => u \in overtaken',
           \/ statement'[u] = statement[u]
           \/ Torn /\ statement[u] = "valid" /\ statement'[u] = "unlisted"
    PROVE  StatementInOrder(u)'
    BY DEF StatementInOrder, InOutside, ValidHandles

\* and a reconnect among them finds no more statements to close.
LEMMA ReconnectKept ==
    ASSUME TypeOK, ReconnectInOrder, Torn => Torn', overtaken \subseteq overtaken',
           \A u \in Thread : pc'[u] = "disconnect" => pc[u] = "disconnect",
           \A u \in Thread : statement'[u] \in {"unlisted", "valid"} => statement[u] \in {"unlisted", "valid"}
    PROVE  ReconnectInOrder'
    <1> SUFFICES ASSUME NEW t \in Thread, (pc[t] = "disconnect")', NEW u \in Thread,
                        (statement[u] \in {"unlisted", "valid"})'
                 PROVE  (Torn \/ u \in overtaken)'
        BY DEF ReconnectInOrder
    <1>1. Torn \/ u \in overtaken
        BY DEF ReconnectInOrder
    <1> QED
        BY <1>1

LEMMA NextStatements == IInv /\ [Next]_vars => StatementsInOrder'
    <1> SUFFICES ASSUME IInv, [Next]_vars
                 PROVE  StatementsInOrder'
        OBVIOUS
    <1> USE DEF IInv, StatementsInOrder
    \* A step of a call that is about no statement.
    <1>1. ASSUME NEW t \in Thread, Own(t), UNCHANGED <<statement, overtaken>>, pc'[t] # "disconnect",
                 StatementInOrder(t)'
          PROVE  StatementsInOrder'
        <2>1. \A u \in Thread \ {t} : StatementInOrder(u)'
            BY <1>1, OwnSteps, HistoriesKept, StatementKept
        <2>2. ReconnectInOrder'
            <3>1. \A u \in Thread : pc'[u] = "disconnect" => pc[u] = "disconnect"
                BY <1>1, OwnSteps
            <3> QED
                BY <1>1, <3>1, HistoriesKept, ReconnectKept
        <2> QED
            BY <1>1, <2>1, <2>2
    <1>2. ASSUME NEW t \in Thread, NEW k \in Calls, Call(t, k)
          PROVE  StatementsInOrder'
        <2>1. pc[t] = "idle" /\ pc'[t] = Start(k) /\ op'[t] = k /\ UNCHANGED <<statement, overtaken>>
            BY <1>2 DEF Call, TypeOK, threadVars, histories
        <2>2. Own(t) /\ (Torn => Torn')
            BY <1>2, HistoriesKept DEF Own
        <2>3. StatementInOrder(t)'
            BY <1>2, <2>1, <2>2 DEF Call, MayCall, Start, StatementInOrder, InOutside, OnStatement
        <2> QED
            BY <1>1, <2>1, <2>2, <2>3 DEF Start
    <1>3. ASSUME NEW t \in Thread,
                 \/ BeginNested(t) \/ EndNested(t) \/ Enter(t) \/ Fails(t) \/ Loses(t) \/ GivesUp(t)
                 \/ Sent(t) \/ Opened(t) \/ Begins(t) \/ Ended(t) \/ DrvConnect(t) \/ Listing(t) \/ QueryLocked(t)
                 \/ DBFetch(t) \/ DBFreeResult(t) \/ FreeBuffered(t)
          PROVE  StatementsInOrder'
        <2>1. Own(t) /\ UNCHANGED <<statement, overtaken>>
            BY <1>3
            DEF Own, Inside, BeginNested, EndNested, Enter, Fails, Loses, GivesUp, Sent, Opened, Begins, Ended,
                DrvConnect, Listing, QueryLocked, DBFetch, DBFreeResult, FreeBuffered, threadVars, histories
        <2>2. Torn => Torn'
            BY <2>1, HistoriesKept
        <2>3. CASE \/ BeginNested(t) \/ EndNested(t) \/ Fails(t) \/ GivesUp(t)
                   \/ Sent(t) \/ Opened(t) \/ Begins(t) \/ Ended(t)
            <3>1. pc[t] \in {"lock", "driver", "again"} /\ pc'[t] = "idle"
                BY <2>3
                DEF BeginNested, EndNested, MayEnter, Waits, Fails, GivesUp, Lost, Sent, Opened, Begins, Ended, Works,
                    InDriver, Leave, Goes, TypeOK
            <3> QED
                BY <1>1, <2>1, <2>2, <3>1 DEF StatementInOrder, InOutside
        <2>4. CASE Enter(t) \/ Loses(t)
            <3>1. /\ pc[t] \in {"lock", "driver"} /\ pc'[t] \in {"driver", "reconnect"} /\ op'[t] = op[t]
                BY <2>4 DEF Enter, MayEnter, Waits, Loses, Goes, TypeOK
            <3> QED
                BY <1>1, <2>1, <2>2, <3>1 DEF StatementInOrder, InOutside
        <2>5. CASE DrvConnect(t)
            <3>1. pc[t] = "connect" /\ pc'[t] \in {"again", "idle"}
                BY <2>5 DEF DrvConnect, Leave, Goes, TypeOK
            <3> QED
                BY <1>1, <2>1, <2>2, <3>1 DEF StatementInOrder, InOutside
        <2>6. CASE Listing(t) \/ QueryLocked(t)
            <3>1. op'[t] = op[t]
                BY <2>6 DEF Listing, QueryLocked, Goes, TypeOK
            <3>2. \/ pc[t] = "list" /\ pc'[t] = "push"
                  \/ pc[t] = "queryLock" /\ pc'[t] = "holding"
                BY <2>6 DEF Listing, QueryLocked, Goes, TypeOK
            <3> QED
                BY <1>1, <2>1, <2>2, <3>1, <3>2 DEF StatementInOrder, InOutside
        <2>7. CASE DBFetch(t) \/ DBFreeResult(t) \/ FreeBuffered(t)
            <3>1. pc[t] = "idle" /\ pc'[t] = "idle"
                BY <2>7 DEF DBFetch, DBFreeResult, FreeBuffered, Leave, Goes, TypeOK
            <3> QED
                BY <1>1, <2>1, <2>2, <3>1 DEF StatementInOrder, InOutside
        <2> QED
            BY <1>3, <2>3, <2>4, <2>5, <2>6, <2>7
    <1>4. ASSUME NEW t \in Thread, Prepared(t)
          PROVE  StatementsInOrder'
        <2>1. Own(t) /\ Entered(t) /\ ~InvalidatePreparedStatements(t) /\ ~DrvDisconnect(t)
            BY <1>4 DEF Own, Inside, Prepared, Works, InDriver, Entered, InvalidatePreparedStatements, DrvDisconnect
        <2>2. \A u \in Thread \ {t} : StatementInOrder(u)'
            BY <2>1, OwnSteps, HistoriesKept, OthersStatements, StatementKept
        <2>3. pc'[t] = "list" /\ statement'[t] = "unlisted"
            BY <1>4 DEF Prepared, Leave, Goes, TypeOK
        <2>4. StatementInOrder(t)'
            BY <2>3 DEF StatementInOrder, InOutside
        <2>5. \A u \in Thread : pc'[u] # "disconnect"
            BY <2>1, <2>3, Alone, OwnSteps DEF Entered
        <2> QED
            BY <2>2, <2>4, <2>5 DEF ReconnectInOrder
    <1>5. ASSUME NEW t \in Thread, Listed(t) \/ Removed(t)
          PROVE  StatementsInOrder'
        <2>1. /\ Own(t) /\ ~InvalidatePreparedStatements(t) /\ ~DrvDisconnect(t) /\ ~Prepared(t)
              /\ UNCHANGED overtaken
            BY <1>5
            DEF Own, Inside, Listed, Removed, InvalidatePreparedStatements, DrvDisconnect, Prepared, Works, InDriver,
                histories
        <2>2. \A u \in Thread \ {t} : StatementInOrder(u)'
            BY <2>1, OwnSteps, HistoriesKept, OthersStatements, StatementKept
        <2>3. Torn => Torn'
            BY <2>1, HistoriesKept
        <2>4. StatementInOrder(t)'
            <3>1. CASE Listed(t)
                <4>1. pc'[t] = "idle" /\ pc[t] = "push"
                    BY <3>1 DEF Listed, Goes, TypeOK
                <4> QED
                    BY <2>1, <2>3, <3>1, <4>1, ListedStatements DEF StatementInOrder, InOutside
            <3>2. CASE Removed(t)
                <4>1. pc[t] = "remove" /\ op[t] = "freeStatement"
                    BY <3>2 DEF Removed, CallsInOrder, CallInOrder
                <4> QED
                    BY <2>1, <2>3, <3>2, <4>1, RemovedStatements
                    DEF StatementInOrder, InOutside, ValidHandles
            <3> QED
                BY <1>5, <3>1, <3>2
        <2>5. pc'[t] # "disconnect"
            BY <1>5 DEF Listed, Removed, Goes, TypeOK
        <2>6. \A u \in Thread :
                  statement'[u] \in {"unlisted", "valid"} => statement[u] \in {"unlisted", "valid"}
            BY <1>5, ListedStatements, RemovedStatements
        <2>7. \A u \in Thread : pc'[u] = "disconnect" => pc[u] = "disconnect"
            BY <2>1, <2>5, OwnSteps
        <2> QED
            BY <2>1, <2>2, <2>3, <2>4, <2>6, <2>7, ReconnectKept
    <1>6. ASSUME NEW t \in Thread, QueryUnlocked(t) \/ FreeInvalidated(t)
          PROVE  StatementsInOrder'
        <2>1. /\ Own(t) /\ ~InvalidatePreparedStatements(t) /\ ~DrvDisconnect(t) /\ pc'[t] = "idle"
              /\ UNCHANGED overtaken
            BY <1>6
            DEF Own, Inside, QueryUnlocked, FreeInvalidated, Holding, InvalidatePreparedStatements, DrvDisconnect,
                Goes, TypeOK, histories
        <2>2. \A u \in Thread \ {t} : StatementInOrder(u)'
            BY <2>1, OwnSteps, HistoriesKept, OthersStatements, StatementKept
        <2>3. Torn => Torn'
            BY <2>1, HistoriesKept
        <2>4. \/ statement'[t] = "none"
              \/ QueryUnlocked(t) /\ op[t] = "getField" /\ statement'[t] = statement[t]
            BY <1>6 DEF QueryUnlocked, FreeInvalidated, TypeOK
        <2>5. StatementInOrder(t)'
            BY <2>1, <2>3, <2>4 DEF StatementInOrder, InOutside, QueryUnlocked, Holding
        <2>6. \A u \in Thread :
                  statement'[u] \in {"unlisted", "valid"} => statement[u] \in {"unlisted", "valid"}
            BY <1>6 DEF QueryUnlocked, FreeInvalidated, TypeOK
        <2>7. \A u \in Thread : pc'[u] = "disconnect" => pc[u] = "disconnect"
            BY <2>1, OwnSteps
        <2> QED
            BY <2>1, <2>2, <2>3, <2>5, <2>6, <2>7, ReconnectKept
    \* A reconnect overtakes every other thread that is in a call.
    <1>7. ASSUME NEW t \in Thread, InvalidatePreparedStatements(t) \/ DrvDisconnect(t)
          PROVE  StatementsInOrder'
        <2>1. Own(t) /\ Entered(t)
            BY <1>7 DEF Own, Inside, InvalidatePreparedStatements, DrvDisconnect, Entered
        <2>2. (Torn => Torn') /\ \A u \in Thread \ {t} : pc'[u] = pc[u] /\ op'[u] = op[u]
            BY <2>1, HistoriesKept, OwnSteps
        <2>3. overtaken' = OvertakenBy(t)
            BY <1>7 DEF InvalidatePreparedStatements, DrvDisconnect
        <2>4. \A u \in Thread \ {t} : pc[u] # "disconnect" /\ pc'[u] # "disconnect"
            BY <2>1, <2>2, Alone DEF Entered
        <2>5. CASE InvalidatePreparedStatements(t)
            <3>1. \A u \in Thread : statement'[u] = (IF statement[u] = "valid" THEN "invalid" ELSE statement[u])
                BY <2>5 DEF InvalidatePreparedStatements
            <3>2. pc[t] = "reconnect" /\ pc'[t] = "disconnect"
                BY <2>5 DEF InvalidatePreparedStatements, Goes, TypeOK
            <3>3. ASSUME NEW u \in Thread
                  PROVE  StatementInOrder(u)'
                BY <2>2, <2>3, <3>1, <3>2 DEF StatementInOrder, InOutside, OvertakenBy
            <3>4. ReconnectInOrder'
                <4> SUFFICES ASSUME NEW u \in Thread, (statement[u] \in {"unlisted", "valid"})'
                             PROVE  (Torn \/ u \in overtaken)'
                    BY DEF ReconnectInOrder
                <4>1. statement[u] = "unlisted"
                    BY <3>1
                <4> QED
                    BY <2>2, <2>3, <3>2, <4>1 DEF StatementInOrder, InOutside, OvertakenBy
            <3> QED
                BY <3>3, <3>4
        <2>6. CASE DrvDisconnect(t)
            <3>1. \A u \in Thread : statement'[u] = (IF statement[u] \in {"unlisted", "valid"} THEN "dangling"
                                                     ELSE statement[u])
                BY <2>6 DEF DrvDisconnect
            <3>2. pc[t] = "disconnect" /\ pc'[t] = "connect"
                BY <2>6 DEF DrvDisconnect, Goes, TypeOK
            <3>3. ASSUME NEW u \in Thread
                  PROVE  StatementInOrder(u)'
                <4>1. statement[u] \in {"unlisted", "valid"} => Torn \/ u \in overtaken
                    BY <3>2 DEF ReconnectInOrder
                <4> QED
                    BY <2>2, <2>3, <3>1, <3>2, <4>1 DEF StatementInOrder, InOutside, OvertakenBy
            <3> QED
                BY <2>4, <3>2, <3>3 DEF ReconnectInOrder
        <2> QED
            BY <1>7, <2>5, <2>6
    <1>8. CASE Drop \/ ServerBack \/ UNCHANGED vars
        <2>1. UNCHANGED <<pc, op, statement, overtaken, m_preparedStatements>>
            BY <1>8 DEF Drop, ServerBack, vars, handle, threadVars, histories
        <2> QED
            BY <2>1 DEF ReconnectInOrder, StatementInOrder, InOutside, Torn
    <1>9. ASSUME NEW t \in Thread, Own(t)
          PROVE  StatementsInOrder'
        BY <1>2, <1>3, <1>4, <1>5, <1>6, <1>7, <1>9 DEF Own, Inside
    <1> QED
        BY <1>8, <1>9, WhoSteps

-----------------------------------------------------------------------------
(* Transactions                                                            *)

\* Only the thread that holds the handle changes the level.
LEMMA NextLevel == IInv /\ [Next]_vars => LevelInOrder'
    <1> SUFFICES ASSUME IInv, [Next]_vars
                 PROVE  LevelInOrder'
        OBVIOUS
    <1> USE DEF IInv, LevelInOrder
    \* A call at which the transaction neither begins nor ends.
    <1>1. ASSUME NEW t \in Thread, Own(t), UNCHANGED <<m_transactionLevel, up, inTransaction>>,
                 Entered(t)' => /\ Entered(t) /\ op'[t] = op[t]
                                /\ pc'[t] \in Reconnecting => pc[t] \in Reconnecting \/ ~up
          PROVE  LevelInOrder'
        <2>1. \A u \in Thread \ {t} : pc'[u] = pc[u] /\ op'[u] = op[u]
            BY <1>1, OwnSteps
        <2>2. \A u \in Thread \ {t} : Entered(u)' <=> Entered(u)
            BY <2>1 DEF Entered
        <2>3. pc'[t] \in Reconnecting => Entered(t)'
            BY DEF Reconnecting, Entered
        <2> QED
            BY <1>1, <2>1, <2>2, <2>3
    <1>2. ASSUME NEW t \in Thread, NEW k \in Calls, Call(t, k)
          PROVE  LevelInOrder'
        <2>1. Own(t) /\ UNCHANGED <<m_transactionLevel, up, inTransaction>> /\ ~Entered(t)'
            BY <1>2 DEF Own, Call, Start, Entered, serverVars, TypeOK
        <2> QED
            BY <1>1, <2>1
    <1>3. ASSUME NEW t \in Thread, BeginNested(t) \/ EndNested(t) \/ Enter(t)
          PROVE  LevelInOrder'
        <2>1. pc[t] = "lock" /\ Own(t) /\ \A u \in Thread \ {t} : ~Entered(u)
            BY <1>3, Alone DEF BeginNested, EndNested, Enter, MayEnter, Waits, Own, Inside
        <2>2. \A u \in Thread \ {t} : ~Entered(u)'
            BY <2>1, OwnSteps DEF Entered
        <2>3. \A u \in Thread \ {t} : pc'[u] \notin Reconnecting
            BY <2>2 DEF Reconnecting, Entered
        <2>4. up' = up /\ inTransaction' = inTransaction
            BY <1>3 DEF BeginNested, EndNested, Enter, serverVars
        <2>5. CASE BeginNested(t) \/ EndNested(t)
            <3>1. pc'[t] = "idle"
                BY <2>5 DEF BeginNested, EndNested, Goes, TypeOK
            <3> QED
                BY <2>2, <2>3, <2>4, <3>1 DEF Reconnecting, Entered
        <2>6. CASE Enter(t)
            <3>1. pc'[t] = "driver" /\ op'[t] = op[t]
                BY <2>6 DEF Enter, Goes, TypeOK
            <3>2. op[t] \in Ends \cup {"begin"} => m_transactionLevel' = 0
                BY <2>6 DEF Enter, Ends
            <3> QED
                BY <2>2, <2>3, <2>4, <3>1, <3>2 DEF Reconnecting
        <2> QED
            BY <1>3, <2>5, <2>6
    <1>4. ASSUME NEW t \in Thread,
                 \/ Fails(t) \/ GivesUp(t) \/ Sent(t) \/ Prepared(t) \/ Opened(t)
                 \/ Listing(t) \/ Listed(t) \/ Removed(t) \/ QueryLocked(t) \/ QueryUnlocked(t)
                 \/ DBFetch(t) \/ DBFreeResult(t) \/ FreeBuffered(t) \/ FreeInvalidated(t)
          PROVE  LevelInOrder'
        <2>1. Own(t) /\ UNCHANGED <<m_transactionLevel, up, inTransaction>>
            BY <1>4
            DEF Own, Inside, Fails, GivesUp, Sent, Prepared, Opened, Listing, Listed, Removed, QueryLocked,
                QueryUnlocked, DBFetch, DBFreeResult, FreeBuffered, FreeInvalidated, handle, serverVars
        <2>2. ~Entered(t)'
            <3>1. CASE Fails(t) \/ GivesUp(t) \/ Sent(t) \/ Prepared(t) \/ Opened(t)
                BY <3>1 DEF Fails, GivesUp, Sent, Prepared, Opened, Leave, Goes, Entered, TypeOK
            <3>2. CASE Listing(t) \/ Listed(t) \/ Removed(t) \/ QueryLocked(t) \/ QueryUnlocked(t)
                BY <3>2 DEF Listing, Listed, Removed, QueryLocked, QueryUnlocked, Goes, Entered, TypeOK
            <3>3. CASE DBFetch(t) \/ DBFreeResult(t) \/ FreeBuffered(t) \/ FreeInvalidated(t)
                BY <3>3 DEF DBFetch, DBFreeResult, FreeBuffered, FreeInvalidated, Leave, Goes, Entered, TypeOK
            <3> QED
                BY <1>4, <3>1, <3>2, <3>3
        <2> QED
            BY <1>1, <2>1, <2>2
    <1>5. ASSUME NEW t \in Thread, Loses(t) \/ InvalidatePreparedStatements(t) \/ DrvDisconnect(t)
          PROVE  LevelInOrder'
        <2>1. Own(t) /\ UNCHANGED <<m_transactionLevel, up, inTransaction>>
            BY <1>5
            DEF Own, Inside, Loses, InvalidatePreparedStatements, DrvDisconnect, handle, serverVars
        <2>2. Entered(t) /\ op'[t] = op[t]
            BY <1>5
            DEF Loses, Lost, InDriver, InvalidatePreparedStatements, DrvDisconnect, Goes, Entered, TypeOK
        <2>3. pc[t] \in Reconnecting \/ ~up
            BY <1>5 DEF Loses, Lost, InvalidatePreparedStatements, DrvDisconnect, Reconnecting
        <2> QED
            BY <1>1, <2>1, <2>2, <2>3
    <1>6. ASSUME NEW t \in Thread, DrvConnect(t) \/ Begins(t) \/ Ended(t)
          PROVE  LevelInOrder'
        <2>1. Own(t) /\ Entered(t)
            BY <1>6 DEF Own, Inside, DrvConnect, Begins, Ended, Works, InDriver, Entered
        <2>2. \A u \in Thread \ {t} : ~Entered(u)
            BY <2>1, Alone
        <2>3. \A u \in Thread \ {t} : ~Entered(u)'
            BY <2>1, <2>2, OwnSteps DEF Entered
        <2>4. \A u \in Thread \ {t} : pc'[u] \notin Reconnecting
            BY <2>3 DEF Reconnecting, Entered
        <2>5. up'
            BY <1>6 DEF DrvConnect, Begins, Ended, Works
        <2>6. CASE DrvConnect(t)
            <3>1. /\ pc[t] = "connect" /\ pc'[t] \in {"again", "idle"}
                  /\ pc'[t] = "again" => op'[t] = op[t]
                BY <2>6 DEF DrvConnect, Leave, Goes, TypeOK
            <3>2. m_transactionLevel' = m_transactionLevel
                BY <2>6 DEF DrvConnect, handle
            <3> QED
                BY <2>1, <2>3, <2>4, <2>5, <3>1, <3>2 DEF Entered, Reconnecting
        <2>7. CASE Begins(t) \/ Ended(t)
            <3>1. pc'[t] = "idle"
                BY <2>7 DEF Begins, Ended, Leave, Goes, TypeOK
            <3> QED
                BY <2>3, <2>4, <2>5, <3>1 DEF Entered, Reconnecting
        <2> QED
            BY <1>6, <2>6, <2>7
    <1>7. CASE Drop \/ ServerBack \/ UNCHANGED vars
        <2>1. UNCHANGED <<m_transactionLevel, pc, op>>
            BY <1>7 DEF Drop, ServerBack, vars, handle
        <2>2. (~up' /\ ~inTransaction') \/ UNCHANGED <<up, inTransaction>>
            BY <1>7 DEF Drop, ServerBack, vars, serverVars
        <2> QED
            BY <2>1, <2>2 DEF Entered
    <1>8. ASSUME NEW t \in Thread, Own(t)
          PROVE  LevelInOrder'
        BY <1>2, <1>3, <1>4, <1>5, <1>6, <1>8 DEF Own, Inside
    <1> QED
        BY <1>7, <1>8, WhoSteps

\* A thread in a transaction has the lock also after it has given one back.
LEMMA StillHeld ==
    ASSUME IInv, NEW t \in Thread, Entered(t) \/ result[t] # NoResult, NEW to \in {"idle", "list"},
           Leave(t, to), UNCHANGED <<m_transactionLevel, begun>>, m_transactionLevel > 0
    PROVE  /\ m_mutexTransLock'.fHolder # None
           /\ m_transactionLevel' <= begun'[m_mutexTransLock'.fHolder]
    <1>1. m_mutexTransLock.fHolder = t
        BY EnteredHolds DEF IInv, HeldBy
    <1>2. begun[t] > 0 /\ m_transactionLevel <= begun[t]
        BY <1>1 DEF IInv, TransactionOpen, TypeOK
    <1>3. HeldBy(m_mutexTransLock, t) > 1
        BY <1>2 DEF IInv, LocksAccounted, TransClaims, Entered, TypeOK
    <1>4. /\ HeldBy(m_mutexTransLock, t) > 0 /\ HeldBy(m_mutexTransLock, t) # 1
          /\ m_mutexTransLock \in Mutex /\ Counted(m_mutexTransLock)
        BY <1>3, EnteredHolds DEF IInv, LocksAccounted, TypeOK
    <1>5. m_mutexTransLock'.fHolder = t
        BY <1>4, UnlockCounts DEF Leave
    <1> QED
        BY <1>2, <1>5, MutexAssumption

\* Nobody begins or stops sending the end of a transaction.
LEMMA EndingKept ==
    ASSUME TypeOK, NEW t \in Thread, Own(t),
           pc[t] = "driver" => op[t] \notin Ends, pc'[t] = "driver" => op'[t] \notin Ends
    PROVE  Ending' <=> Ending
    <1>1. \A u \in Thread \ {t} : pc'[u] = pc[u] /\ op'[u] = op[u]
        BY OwnSteps
    <1> QED
        BY <1>1 DEF Ending

LEMMA NextTransaction == IInv /\ [Next]_vars => TransactionOpen'
    <1> SUFFICES ASSUME IInv, [Next]_vars
                 PROVE  TransactionOpen'
        OBVIOUS
    <1> USE DEF IInv, TransactionOpen
    \* Steps that change neither the level nor the transaction.
    <1>1. ASSUME UNCHANGED <<m_transactionLevel, inTransaction, apart>>, Ending' <=> Ending,
                 \/ UNCHANGED <<m_mutexTransLock, begun>>
                 \/ m_transactionLevel > 0 => /\ m_mutexTransLock'.fHolder # None
                                             /\ m_transactionLevel' <= begun'[m_mutexTransLock'.fHolder]
          PROVE  TransactionOpen'
        BY <1>1
    <1>2. ASSUME NEW t \in Thread, NEW k \in Calls, Call(t, k)
          PROVE  TransactionOpen'
        <2>1. Ending' <=> Ending
            BY <1>2, EndingKept DEF Own, Call, Start, TypeOK
        <2> QED
            BY <1>1, <1>2, <2>1 DEF Call, locks, threadVars, serverVars, histories
    <1>3. ASSUME NEW t \in Thread, BeginNested(t) \/ EndNested(t) \/ Enter(t)
          PROVE  TransactionOpen'
        <2>1. /\ pc[t] = "lock" /\ m_mutexTransLock.fHolder \in {None, t} /\ Own(t)
              /\ \A u \in Thread : ~Entered(u)
            BY <1>3, Alone DEF BeginNested, EndNested, Enter, MayEnter, Waits, Entered, Own, Inside
        <2>2. inTransaction' = inTransaction /\ apart' = apart /\ ~Ending
            BY <1>3, <2>1 DEF BeginNested, EndNested, Enter, serverVars, histories, Ending, Entered
        <2>3. m_transactionLevel > 0 => m_mutexTransLock.fHolder = t /\ m_transactionLevel <= begun[t]
            BY <2>1
        <2>4. CASE BeginNested(t)
            <3>1. Ending' <=> Ending
                BY <2>1, <2>4, EndingKept DEF BeginNested, Goes, TypeOK
            <3>2. /\ m_transactionLevel > 0 /\ m_transactionLevel' = m_transactionLevel + 1
                  /\ m_mutexTransLock'.fHolder = t /\ begun'[t] = begun[t] + 1
                BY <2>4 DEF BeginNested, Locked, TypeOK
            <3> QED
                BY <2>2, <2>3, <3>1, <3>2, MutexAssumption DEF TypeOK
        <2>5. CASE EndNested(t)
            <3>1. Ending' <=> Ending
                BY <2>1, <2>5, EndingKept DEF EndNested, Goes, TypeOK
            <3>2. /\ m_mutexTransLock' = m_mutexTransLock /\ begun' = begun
                  /\ m_transactionLevel' = LevelAfterEnd /\ m_transactionLevel # 1
                BY <2>5 DEF EndNested, locks, threadVars
            <3> QED
                BY <2>2, <2>3, <3>1, <3>2, MutexAssumption DEF LevelAfterEnd, TypeOK
        <2>6. CASE Enter(t)
            <3>1. m_mutexTransLock'.fHolder = t /\ begun' = begun /\ pc'[t] = "driver" /\ op'[t] = op[t]
                BY <2>6 DEF Enter, Locked, Goes, TypeOK, threadVars
            <3>2. CASE op[t] \in Ends
                <4>1. Ending' /\ m_transactionLevel = 1 /\ m_transactionLevel' = 0
                    BY <2>6, <3>1, <3>2 DEF Enter, Ending
                <4> QED
                    BY <2>2, <4>1
            <3>3. CASE op[t] \notin Ends
                <4>1. Ending' <=> Ending
                    BY <2>1, <3>1, <3>3, EndingKept
                <4>2. m_transactionLevel' = m_transactionLevel
                    BY <2>6, <3>3 DEF Enter
                <4> QED
                    BY <2>2, <2>3, <3>1, <4>1, <4>2, MutexAssumption
            <3> QED
                BY <3>2, <3>3
        <2> QED
            BY <1>3, <2>4, <2>5, <2>6
    <1>4. ASSUME NEW t \in Thread, Fails(t) \/ GivesUp(t)
          PROVE  TransactionOpen'
        <2>1. Entered(t) /\ pc[t] \in {"driver", "again"} /\ Leave(t, "idle") /\ Own(t)
            BY <1>4 DEF Fails, GivesUp, Lost, InDriver, Entered, Own, Inside
        <2>2. UNCHANGED <<m_transactionLevel, inTransaction, begun>>
            BY <1>4 DEF Fails, GivesUp, handle, threadVars, serverVars
        <2>3. m_transactionLevel > 0 => /\ m_mutexTransLock'.fHolder # None
                                        /\ m_transactionLevel' <= begun'[m_mutexTransLock'.fHolder]
            BY <2>1, <2>2, StillHeld
        <2>4. CASE op[t] \in Ends
            <3>1. pc[t] = "driver"
                BY <2>1, <2>4 DEF CallsInOrder, CallInOrder, Ends, Retried
            <3>2. Ending /\ m_transactionLevel = 0
                BY <2>1, <2>4, <3>1 DEF Ending, LevelInOrder
            <3>3. apart'
                BY <1>4, <2>4, <3>2 DEF Fails, GivesUp, Lost, LevelInOrder, histories
            <3> QED
                BY <2>2, <2>3, <3>3
        <2>5. CASE op[t] \notin Ends
            <3>1. Ending' <=> Ending
                BY <2>1, <2>5, EndingKept DEF Leave, Goes, TypeOK
            <3>2. apart' = apart
                BY <1>4, <2>5 DEF Fails, GivesUp, TypeOK, histories
            <3> QED
                BY <1>1, <2>2, <2>3, <3>1, <3>2
        <2> QED
            BY <2>4, <2>5
    <1>5. ASSUME NEW t \in Thread,
                 \/ Loses(t) \/ Opened(t) \/ DBFetch(t) \/ InvalidatePreparedStatements(t) \/ DrvDisconnect(t)
                 \/ Listing(t) \/ Listed(t) \/ Removed(t) \/ QueryLocked(t) \/ QueryUnlocked(t)
                 \/ FreeBuffered(t) \/ FreeInvalidated(t)
          PROVE  TransactionOpen'
        <2>1. Own(t) /\ UNCHANGED <<m_transactionLevel, inTransaction, apart, m_mutexTransLock, begun>>
            BY <1>5
            DEF Own, Inside, Loses, Opened, DBFetch, InvalidatePreparedStatements, DrvDisconnect, Listing, Listed,
                Removed, QueryLocked, QueryUnlocked, FreeBuffered, FreeInvalidated, locks, handle, threadVars,
                serverVars, histories
        <2>2. pc[t] = "driver" => op[t] \notin Ends
            BY <1>5
            DEF Loses, Opened, DBFetch, InvalidatePreparedStatements, DrvDisconnect, Listing, Listed, Removed,
                QueryLocked, QueryUnlocked, Holding, FreeBuffered, FreeInvalidated, Unbuffered, Ends
        <2>3. pc'[t] # "driver"
            BY <1>5
            DEF Loses, Opened, DBFetch, InvalidatePreparedStatements, DrvDisconnect, Listing, Listed, Removed,
                QueryLocked, QueryUnlocked, FreeBuffered, FreeInvalidated, Goes, TypeOK
        <2> QED
            BY <1>1, <2>1, <2>2, <2>3, EndingKept
    <1>6. ASSUME NEW t \in Thread, Sent(t) \/ Prepared(t) \/ DBFreeResult(t)
          PROVE  TransactionOpen'
        <2>1. Own(t) /\ UNCHANGED <<m_transactionLevel, inTransaction, apart, begun>>
            BY <1>6 DEF Own, Inside, Sent, Prepared, DBFreeResult, handle, threadVars, serverVars, histories
        <2>2. Entered(t) \/ result[t] # NoResult
            BY <1>6 DEF Sent, Prepared, DBFreeResult, Works, InDriver, Entered
        <2>3. Leave(t, "idle") \/ Leave(t, "list")
            BY <1>6 DEF Sent, Prepared, DBFreeResult
        <2>4. pc[t] = "driver" => op[t] \notin Ends
            BY <1>6 DEF Sent, Prepared, DBFreeResult, Ends
        <2>5. Ending' <=> Ending
            BY <2>1, <2>3, <2>4, EndingKept DEF Leave, Goes, TypeOK
        <2>6. m_transactionLevel > 0 => /\ m_mutexTransLock'.fHolder # None
                                        /\ m_transactionLevel' <= begun'[m_mutexTransLock'.fHolder]
            BY <2>1, <2>2, <2>3, StillHeld
        <2> QED
            BY <1>1, <2>1, <2>5, <2>6
    <1>7. ASSUME NEW t \in Thread, DrvConnect(t)
          PROVE  TransactionOpen'
        <2>1. Own(t) /\ Entered(t) /\ UNCHANGED <<m_transactionLevel, inTransaction, apart, begun>>
            BY <1>7 DEF Own, Inside, DrvConnect, Entered, handle, threadVars, histories
        <2>2. pc[t] = "connect" /\ pc'[t] # "driver"
            BY <1>7 DEF DrvConnect, Leave, Goes, TypeOK
        <2>3. m_mutexTransLock' = m_mutexTransLock \/ Leave(t, "idle")
            BY <1>7 DEF DrvConnect
        <2>4. \/ UNCHANGED <<m_mutexTransLock, begun>>
              \/ m_transactionLevel > 0 => /\ m_mutexTransLock'.fHolder # None
                                           /\ m_transactionLevel' <= begun'[m_mutexTransLock'.fHolder]
            BY <2>1, <2>3, StillHeld
        <2> QED
            BY <1>1, <2>1, <2>2, <2>4, EndingKept
    <1>8. ASSUME NEW t \in Thread, Begins(t) \/ Ended(t)
          PROVE  TransactionOpen'
        <2>1. Entered(t) /\ Own(t) /\ m_transactionLevel = 0
            BY <1>8 DEF Begins, Ended, Works, InDriver, Entered, Own, Inside, LevelInOrder
        <2>2. pc'[t] = "idle" /\ \A u \in Thread \ {t} : pc'[u] # "driver"
            BY <1>8, <2>1, Alone, OwnSteps DEF Begins, Ended, Leave, Goes, Entered, TypeOK
        <2>3. ~Ending'
            BY <2>2 DEF Ending
        <2>4. CASE Begins(t)
            <3>1. m_mutexTransLock'.fHolder = t
                BY <2>1, <2>4, EnteredHolds DEF Begins, HeldBy, locks
            <3>2. m_transactionLevel' = 1 /\ begun'[t] >= 1 /\ inTransaction'
                BY <2>1, <2>4 DEF Begins, TypeOK
            <3> QED
                BY <3>1, <3>2, MutexAssumption
        <2>5. CASE Ended(t)
            BY <2>1, <2>3, <2>5 DEF Ended, handle
        <2> QED
            BY <1>8, <2>4, <2>5
    <1>9. CASE Drop
        <2>1. Ending' <=> Ending
            BY <1>9 DEF Drop, Ending
        <2>2. UNCHANGED <<m_transactionLevel, m_mutexTransLock, begun>>
            BY <1>9 DEF Drop, locks, handle, threadVars
        <2>3. ~inTransaction' /\ (~apart' => ~apart /\ ~(m_transactionLevel > 0) /\ ~inTransaction)
            BY <1>9 DEF Drop
        <2> QED
            BY <2>1, <2>2, <2>3
    <1>10. CASE ServerBack \/ UNCHANGED vars
        <2>1. UNCHANGED <<m_transactionLevel, inTransaction, apart, m_mutexTransLock, begun, pc, op>>
            BY <1>10 DEF ServerBack, vars, locks, handle, threadVars, serverVars, histories
        <2> QED
            BY <1>1, <2>1 DEF Ending
    <1>11. ASSUME NEW t \in Thread, Own(t)
          PROVE  TransactionOpen'
        BY <1>2, <1>3, <1>4, <1>5, <1>6, <1>7, <1>8, <1>11 DEF Own, Inside
    <1> QED
        BY <1>9, <1>10, <1>11, WhoSteps

-----------------------------------------------------------------------------
(* Results                                                                 *)

LEMMA InitInv == Init => IInv
    <1> SUFFICES ASSUME Init
                 PROVE  IInv
        OBVIOUS
    <1>1. /\ pc = [t \in Thread |-> "idle"] /\ result = [t \in Thread |-> NoResult]
          /\ op = [t \in Thread |-> "none"] /\ statement = [t \in Thread |-> "none"]
          /\ rows = NoResult /\ m_transactionLevel = 0 /\ up /\ ~inTransaction
        BY DEF Init
    <1>2. RowsOwned
        BY <1>1 DEF RowsOwned, Reading
    <1>3. CallsInOrder
        BY <1>1 DEF CallsInOrder, CallInOrder, Entered, Reading, InOutside, Reconnecting
    <1>4. StatementsInOrder
        BY <1>1 DEF StatementsInOrder, ReconnectInOrder, StatementInOrder, InOutside
    <1>5. LevelInOrder /\ TransactionOpen
        BY <1>1 DEF LevelInOrder, TransactionOpen, Entered, Ending, Reconnecting
    <1> QED
        BY <1>2, <1>3, <1>4, <1>5, InitTypes, InitLocks DEF IInv

LEMMA AlwaysInv == Spec => []IInv
    <1>1. IInv /\ [Next]_vars => IInv'
        BY NextTypes, NextLocks, NextRows, NextCalls, NextStatements, NextLevel, NextTransaction DEF IInv
    <1> QED
        BY InitInv, <1>1, PTL DEF Spec

\* The fields of the handle and of its threads keep their types (p2_dbapi.h,
\* mysqldrv.h).
THEOREM TypeCorrect == Spec => []TypeOK
    <1>1. IInv => TypeOK
        BY DEF IInv
    <1> QED
        BY AlwaysInv, <1>1, PTL

\* Every lock of m_mutexTransLock and mutexQueryLock is accounted for by a
\* call, an open unbuffered result or DBBegin, also after a reconnect has
\* deleted the query lock under getters and DrvFreeStatement, and no thread
\* that holds the query lock waits for the other one.
THEOREM AlwaysAccounted == Spec => []LocksAccounted
    <1>1. IInv => LocksAccounted
        BY DEF IInv
    <1> QED
        BY AlwaysInv, <1>1, PTL

\* A thread that reads an unbuffered result reads its own rows.
THEOREM AlwaysOwnRows == Spec => []RowsOwned
    <1>1. IInv => RowsOwned
        BY DEF IInv
    <1> QED
        BY AlwaysInv, <1>1, PTL

\* m_transactionLevel and the server agree until a connection is lost within
\* a transaction or its end fails.
THEOREM LevelMeansTransaction == Spec => []TransactionOpen
    <1>1. IInv => TransactionOpen
        BY DEF IInv
    <1> QED
        BY AlwaysInv, <1>1, PTL

\* A thread that no reconnect of another one has overtaken uses what is freed
\* only in a result that its own reconnect, or one between its calls, has
\* outlived, or in a reconnect with a stale vector, if no two threads were in
\* the vector of statements at once.
THEOREM AlwaysSafeAlone == Spec => []SafeAlone
    <1>1. IInv => SafeAlone
        <2> SUFFICES ASSUME IInv, NEW t \in Thread \ overtaken, ~Torn
                     PROVE  /\ ~Missed(t)
                            /\ UsesFreed(t) => \/ op[t] = "getField" /\ buffered[t] = "outlived"
                                               \/ pc[t] = "reconnect" /\ m_preparedStatements = "stale"
            BY DEF SafeAlone, Torn
        <2>1. StatementInOrder(t) /\ CallInOrder(t)
            BY DEF IInv, StatementsInOrder, CallsInOrder
        <2>2. ~Missed(t)
            BY <2>1 DEF Missed, StatementInOrder, InOutside
        <2>3. ~(pc[t] \in {"driver", "again"} /\ op[t] \in OnStatement /\ statement[t] \notin ValidHandles)
            BY <2>1 DEF StatementInOrder, CallInOrder, Retried, OnStatement
        <2>4. ~(pc[t] \in {"queryLock", "holding"} /\ op[t] = "freeStatement"
                /\ statement[t] \notin {"unlisted", "valid"})
            BY <2>1 DEF StatementInOrder, InOutside, ValidHandles
        <2> QED
            BY <2>2, <2>3, <2>4 DEF UsesFreed
    <1> QED
        BY AlwaysInv, <1>1, PTL

=============================================================================
