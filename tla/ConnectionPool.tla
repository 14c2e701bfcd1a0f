--------------------------- MODULE ConnectionPool ---------------------------
(***************************************************************************)
(* The database connection pool of CommonLib/ConnectionPoolThread.cpp:     *)
(* callers that acquire and release connections under m_poolAccessMutex,   *)
(* the auto-reset event m_condRelease on which they wait when all          *)
(* connections are in use, and the maintenance thread.                     *)
(*                                                                         *)
(* A connection stands for its PoolConnectionInfo and its DB_HANDLE.  What *)
(* a thread does from one Lock to the next Unlock is one step: nobody else *)
(* can look at the pool in between.                                        *)
(*                                                                         *)
(* Which of the idle connections Acquire picks, the one that was used      *)
(* least, makes no difference to anybody and is left open; the counts of   *)
(* uses are left out with it, so that callers may come back for ever.      *)
(***************************************************************************)
EXTENDS Naturals, FiniteSets

CONSTANTS
    Connection,      \* the connections DBConnect can make
    Caller,          \* the threads that use the pool
    NULL,            \* the null pointer
    m_basePoolSize,  \* connections made at start
    m_maxPoolSize    \* connections never exceeded

ASSUME PoolAssumption ==
    /\ IsFiniteSet(Connection)
    /\ NULL \notin Connection
    /\ m_basePoolSize \in Nat \ {0} /\ m_maxPoolSize \in Nat
    /\ m_basePoolSize <= m_maxPoolSize

VARIABLES
    m_connections,  \* the connections of the pool
    inUse,          \* those of them that are marked as in use
    m_condRelease,  \* is the auto-reset event set?
    pc,             \* where each caller is
    handle,         \* the connection each caller has acquired, or NULL
    crashed         \* the process is gone

poolVars == <<m_connections, inUse>>
callerVars == <<pc, handle>>
vars == <<poolVars, m_condRelease, callerVars, crashed>>

\* Mutant: the search does not look at inUse.
IdleOrNot == m_connections

Idle == m_connections \ inUse

-----------------------------------------------------------------------------
(* DBConnectionPoolAcquireConnection                                       *)

Call(t) ==
    /\ pc[t] = "idle"
    /\ pc' = [pc EXCEPT ![t] = "retry"]
    /\ UNCHANGED <<poolVars, m_condRelease, handle, crashed>>

\* Hand connection c to caller t.
Take(t, c) ==
    /\ inUse' = inUse \cup {c}
    /\ handle' = [handle EXCEPT ![t] = c]
    /\ pc' = [pc EXCEPT ![t] = "using"]
    /\ UNCHANGED <<m_condRelease, crashed>>

AcquireIdle(t, c) ==
    /\ pc[t] = "retry"
    /\ c \in Idle
    /\ Take(t, c)
    /\ UNCHANGED m_connections

\* Mutant: one connection too many.
MayGrowOnce == Cardinality(m_connections) <= m_maxPoolSize

MayGrow == Cardinality(m_connections) < m_maxPoolSize

\* Mutant: the new connection is not added to the pool.
AcquireUnlisted(t, c) ==
    /\ pc[t] = "retry"
    /\ Idle = {}
    /\ MayGrow
    /\ c \notin m_connections
    /\ Take(t, c)
    /\ UNCHANGED m_connections

\* All are in use: DBConnect makes one more.
AcquireNew(t, c) ==
    /\ pc[t] = "retry"
    /\ Idle = {}
    /\ MayGrow
    /\ c \notin m_connections
    /\ m_connections' = m_connections \cup {c}
    /\ Take(t, c)

\* All are in use and the pool is full, or DBConnect fails.
Exhausted(t) ==
    /\ pc[t] = "retry"
    /\ Idle = {}
    /\ pc' = [pc EXCEPT ![t] = "wait"]
    /\ UNCHANGED <<poolVars, m_condRelease, handle, crashed>>

\* m_condRelease.Wait returns and the caller tries again: it consumed the
\* event, or 10 s are over.
Retry(t) ==
    /\ pc[t] = "wait"
    /\ pc' = [pc EXCEPT ![t] = "retry"]
    /\ UNCHANGED <<poolVars, handle, crashed>>

Woken(t) == Retry(t) /\ m_condRelease /\ m_condRelease' = FALSE

TimedOut(t) == Retry(t) /\ UNCHANGED m_condRelease

-----------------------------------------------------------------------------
(* DBConnectionPoolReleaseConnection                                       *)

Release(t) ==
    /\ pc[t] = "using"
    /\ inUse' = inUse \ {handle[t]}
    /\ handle' = [handle EXCEPT ![t] = NULL]
    /\ pc' = [pc EXCEPT ![t] = "signal"]
    /\ UNCHANGED <<m_connections, m_condRelease, crashed>>

\* Mutant: the event is not set.
SignalNobody(t) ==
    /\ pc[t] = "signal"
    /\ pc' = [pc EXCEPT ![t] = "idle"]
    /\ UNCHANGED <<poolVars, m_condRelease, handle, crashed>>

\* The event is set after the mutex was unlocked.
SignalRelease(t) ==
    /\ pc[t] = "signal"
    /\ m_condRelease' = TRUE
    /\ pc' = [pc EXCEPT ![t] = "idle"]
    /\ UNCHANGED <<poolVars, handle, crashed>>

-----------------------------------------------------------------------------
(* The maintenance thread                                                  *)

\* The vector of connections to reset is made with one NULL per connection,
\* the idle connections that are too old are appended, and the first entry
\* that sort or the marking loop touches is a NULL.  The process ends there,
\* whatever DBConnectionPoolShrink did before.
ResetExpiredConnections ==
    /\ m_connections # {}
    /\ crashed' = TRUE
    /\ UNCHANGED <<poolVars, m_condRelease, callerVars>>

-----------------------------------------------------------------------------
\* DBConnectionPoolPopulate: some of the connections may fail, not all.
Init ==
    /\ m_connections \in {S \in SUBSET Connection :
                             S # {} /\ Cardinality(S) <= m_basePoolSize}
    /\ inUse = {}
    /\ m_condRelease = FALSE
    /\ pc = [t \in Caller |-> "idle"]
    /\ handle = [t \in Caller |-> NULL]
    /\ crashed = FALSE

Acquire(t) ==
    \/ \E c \in Connection : AcquireIdle(t, c) \/ AcquireNew(t, c)
    \/ Exhausted(t)

Step(t) ==
    \/ Call(t) \/ Acquire(t) \/ Woken(t) \/ TimedOut(t)
    \/ Release(t) \/ SignalRelease(t)

Next ==
    /\ ~crashed
    /\ (\E t \in Caller : Step(t)) \/ ResetExpiredConnections

Spec == Init /\ [][Next]_vars

\* Callers inside the pool are scheduled and give back what they acquire; a
\* waiter returns when the event is set.  No waiter depends on its timeout.
FairSpec ==
    /\ Spec
    /\ \A t \in Caller :
           WF_vars(~crashed /\ (Acquire(t) \/ Woken(t) \/ Release(t)
                                    \/ SignalRelease(t)))

-----------------------------------------------------------------------------
(* Properties                                                              *)

\* Every variable holds a value of its type.
TypeOK ==
    /\ m_connections \subseteq Connection
    /\ inUse \subseteq m_connections
    /\ m_condRelease \in BOOLEAN
    /\ pc \in [Caller -> {"idle", "retry", "wait", "using", "signal"}]
    /\ handle \in [Caller -> Connection \cup {NULL}]
    /\ crashed \in BOOLEAN

\* No connection is used by two callers at once, and one is marked as in use
\* exactly while a caller has it: none leaks, none is given out twice.
Exclusive ==
    /\ \A t, u \in Caller : handle[t] = handle[u] /\ handle[t] # NULL => t = u
    /\ inUse = {handle[t] : t \in Caller} \ {NULL}

\* However the callers race for the last slot, the pool stays within
\* m_maxPoolSize.
WithinMax == Cardinality(m_connections) <= m_maxPoolSize

Asks(t) == pc[t] \in {"retry", "wait"}

\* A caller that asks gets a connection, unless others get one after the other
\* for ever: it may be overtaken each time, but no wake-up is lost for good,
\* although the event is set outside the mutex and two settings may count as
\* one.  (Or the maintenance thread ends the process.)
ServedOrOvertaken ==
    \A t \in Caller :
        \/ Asks(t) ~> ~Asks(t) \/ crashed
        \/ []<><<\E c \in Connection : c \notin inUse /\ c \in inUse'>>_vars

=============================================================================
