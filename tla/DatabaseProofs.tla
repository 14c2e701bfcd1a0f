--------------------------- MODULE DatabaseProofs ---------------------------
(***************************************************************************)
(* Theorems about the two parts of the database layer that hand out        *)
(* things.  ConnectionPool, for any number of callers and connections:     *)
(* types, exclusive use of the connections, and the bound on the size of   *)
(* the pool.  PreparedStatements, for any number of addresses, statements  *)
(* and connections: types, that InvalidatePreparedStatements reaches every *)
(* valid statement, that a valid statement belongs to the current          *)
(* connection, and what freed memory may be used through.                  *)
(***************************************************************************)
EXTENDS ConnectionPool, PreparedStatements, FiniteSetTheorems, TLAPS

-----------------------------------------------------------------------------
(* The pool                                                                *)

(* Exclusive is not inductive alone: a caller that does not use a          *)
(* connection must not be left with a handle.                              *)
HandleInUse == \A t \in Caller : handle[t] # NULL <=> pc[t] = "using"

PoolInv ==
    /\ TypeOK
    /\ HandleInUse
    /\ Exclusive
    /\ WithinMax

-----------------------------------------------------------------------------
LEMMA InitPoolInv == Init => PoolInv
<1> SUFFICES ASSUME Init PROVE PoolInv
  OBVIOUS
<1>1. TypeOK /\ HandleInUse /\ Exclusive
  <2>1. TypeOK
    <3>1. m_connections \subseteq Connection /\ inUse \subseteq m_connections
      BY DEF Init
    <3>2. /\ pc \in [Caller -> {"idle", "retry", "wait", "using", "signal"}]
          /\ handle \in [Caller -> Connection \cup {NULL}]
      BY DEF Init
    <3>3. m_condRelease \in BOOLEAN /\ crashed \in BOOLEAN
      BY DEF Init
    <3> QED
      BY <3>1, <3>2, <3>3 DEF TypeOK
  <2>2. HandleInUse
    BY DEF Init, HandleInUse
  <2>3. {handle[t] : t \in Caller} \ {NULL} = {}
    BY DEF Init
  <2>4. Exclusive
    BY <2>3 DEF Init, Exclusive
  <2> QED
    BY <2>1, <2>2, <2>4
<1>2. WithinMax
  <2>1. m_connections \subseteq Connection /\ Cardinality(m_connections) <= m_basePoolSize
    BY DEF Init
  <2>2. Cardinality(m_connections) \in Nat
    BY <2>1, PoolAssumption, FS_Subset, FS_CardinalityType
  <2> QED
    BY <2>1, <2>2, PoolAssumption DEF WithinMax
<1> QED
  BY <1>1, <1>2 DEF PoolInv

\* Handing an idle or a new connection to a caller keeps every connection
\* with one caller at most.
LEMMA TakeExclusive ==
    ASSUME PoolInv, NEW t \in Caller, NEW c \in Connection,
           pc[t] = "retry", c \notin inUse, Take(t, c)
    PROVE  (HandleInUse /\ Exclusive)'
<1> USE DEF PoolInv
<1>1. handle[t] = NULL /\ c # NULL
  BY PoolAssumption DEF HandleInUse
<1>2. handle'[t] = c /\ \A u \in Caller : u # t => handle'[u] = handle[u]
  BY DEF Take, TypeOK
<1>3. \A u \in Caller : u # t => handle[u] # c
  BY <1>1 DEF Exclusive
<1>4. HandleInUse'
  BY <1>1, <1>2 DEF Take, HandleInUse, TypeOK
<1>5. \A u, v \in Caller : handle'[u] = handle'[v] /\ handle'[u] # NULL => u = v
  BY <1>1, <1>2, <1>3 DEF Exclusive
<1>6. {handle'[u] : u \in Caller} \ {NULL} = inUse \cup {c}
  BY <1>1, <1>2 DEF Exclusive
<1> QED
  BY <1>4, <1>5, <1>6 DEF Exclusive, Take

LEMMA AcquireIdlePoolInv ==
    ASSUME PoolInv, NEW t \in Caller, NEW c \in Connection, AcquireIdle(t, c)
    PROVE  PoolInv'
<1> USE DEF PoolInv
<1>1. pc[t] = "retry" /\ c \in m_connections /\ c \notin inUse /\ Take(t, c)
  BY DEF AcquireIdle, Idle
<1>2. TypeOK'
  BY <1>1 DEF AcquireIdle, Take, TypeOK
<1>3. WithinMax'
  BY DEF AcquireIdle, WithinMax
<1> QED
  BY <1>1, <1>2, <1>3, TakeExclusive

LEMMA AcquireNewPoolInv ==
    ASSUME PoolInv, NEW t \in Caller, NEW c \in Connection, AcquireNew(t, c)
    PROVE  PoolInv'
<1> USE DEF PoolInv
<1>1. pc[t] = "retry" /\ c \notin m_connections /\ c \notin inUse /\ Take(t, c)
  BY DEF AcquireNew, TypeOK
<1>2. TypeOK'
  BY <1>1 DEF AcquireNew, Take, TypeOK
<1>3. WithinMax'
  <2>1. IsFiniteSet(m_connections)
    BY PoolAssumption, FS_Subset DEF TypeOK
  <2>2. Cardinality(m_connections \cup {c}) = Cardinality(m_connections) + 1
    BY <1>1, <2>1, FS_AddElement
  <2>3. Cardinality(m_connections) \in Nat
    BY <2>1, FS_CardinalityType
  <2> QED
    BY <2>2, <2>3, PoolAssumption DEF AcquireNew, MayGrow, WithinMax
<1> QED
  BY <1>1, <1>2, <1>3, TakeExclusive

LEMMA ReleasePoolInv ==
    ASSUME PoolInv, NEW t \in Caller, Release(t)
    PROVE  PoolInv'
<1> USE DEF PoolInv
<1>1. pc[t] = "using" /\ handle[t] # NULL /\ handle[t] \in inUse
  BY DEF Release, HandleInUse, Exclusive
<1>2. handle'[t] = NULL /\ \A u \in Caller : u # t => handle'[u] = handle[u]
  BY DEF Release, TypeOK
<1>3. TypeOK'
  BY DEF Release, TypeOK
<1>4. HandleInUse'
  BY <1>2 DEF Release, HandleInUse, TypeOK
<1>5. Exclusive'
  <2>1. \A u, v \in Caller : handle'[u] = handle'[v] /\ handle'[u] # NULL => u = v
    BY <1>2 DEF Exclusive
  <2>2. {handle'[u] : u \in Caller} \ {NULL} = inUse \ {handle[t]}
    BY <1>1, <1>2 DEF Exclusive
  <2> QED
    BY <2>1, <2>2 DEF Release, Exclusive
<1>6. WithinMax'
  BY DEF Release, WithinMax
<1> QED
  BY <1>3, <1>4, <1>5, <1>6

\* The steps that move a caller without touching any handle.
LEMMA MovePoolInv ==
    ASSUME PoolInv, NEW t \in Caller,
           \/ Call(t) \/ Exhausted(t) \/ Woken(t) \/ TimedOut(t)
           \/ SignalRelease(t)
    PROVE  PoolInv'
<1> USE DEF PoolInv
<1>1. UNCHANGED <<poolVars, handle, crashed>>
  BY DEF Call, Exhausted, Woken, TimedOut, Retry, SignalRelease
<1>2. TypeOK'
  <2>1. m_condRelease' \in BOOLEAN
    BY DEF Call, Exhausted, Woken, TimedOut, Retry, SignalRelease, TypeOK
  <2>2. pc' \in [Caller -> {"idle", "retry", "wait", "using", "signal"}]
    BY DEF Call, Exhausted, Woken, TimedOut, Retry, SignalRelease, TypeOK
  <2> QED
    BY <1>1, <2>1, <2>2 DEF TypeOK, poolVars
<1>3. HandleInUse'
  BY <1>1
  DEF Call, Exhausted, Woken, TimedOut, Retry, SignalRelease, HandleInUse, TypeOK
<1>4. (Exclusive /\ WithinMax)'
  BY <1>1 DEF poolVars, Exclusive, WithinMax
<1> QED
  BY <1>2, <1>3, <1>4

LEMMA ResetPoolInv ==
    ASSUME PoolInv, ResetExpiredConnections
    PROVE  PoolInv'
<1> USE DEF PoolInv
<1>1. UNCHANGED <<poolVars, m_condRelease, callerVars>>
  BY DEF ResetExpiredConnections
<1>2. crashed' \in BOOLEAN
  BY DEF ResetExpiredConnections
<1> QED
  BY <1>1, <1>2
  DEF poolVars, callerVars, TypeOK, HandleInUse, Exclusive, WithinMax

LEMMA NextPoolInv ==
    ASSUME PoolInv, [Next]_vars
    PROVE  PoolInv'
<1>1. ASSUME NEW t \in Caller, Step(t)
      PROVE  PoolInv'
  <2>1. CASE Acquire(t)
    BY <2>1, AcquireIdlePoolInv, AcquireNewPoolInv, MovePoolInv DEF Acquire
  <2>2. CASE Release(t)
    BY <2>2, ReleasePoolInv
  <2>3. CASE Call(t) \/ Woken(t) \/ TimedOut(t) \/ SignalRelease(t)
    BY <2>3, MovePoolInv
  <2> QED
    BY <1>1, <2>1, <2>2, <2>3 DEF Step
<1>2. CASE ResetExpiredConnections
  BY <1>2, ResetPoolInv
<1>3. CASE UNCHANGED vars
  BY <1>3
  DEF vars, poolVars, callerVars, PoolInv, TypeOK, HandleInUse,
      Exclusive, WithinMax
<1> QED
  BY <1>1, <1>2, <1>3 DEF Next

LEMMA AlwaysPoolInv == Spec => []PoolInv
<1>1. PoolInv /\ [Next]_vars => PoolInv'
  BY NextPoolInv
<1> QED
  BY <1>1, InitPoolInv, PTL DEF Spec

-----------------------------------------------------------------------------
\* Type correctness (the whole of ConnectionPool).
THEOREM PoolTypeCorrect == Spec => []TypeOK
<1>1. PoolInv => TypeOK
  BY DEF PoolInv
<1> QED
  BY <1>1, AlwaysPoolInv, PTL

\* Acquire never gives one connection to two callers, and Release leaves none
\* marked as in use without a caller.
THEOREM AlwaysExclusive == Spec => []Exclusive
<1>1. PoolInv => Exclusive
  BY DEF PoolInv
<1> QED
  BY <1>1, AlwaysPoolInv, PTL

\* The pool never exceeds m_maxPoolSize.
THEOREM AlwaysWithinMax == Spec => []WithinMax
<1>1. PoolInv => WithinMax
  BY DEF PoolInv
<1> QED
  BY <1>1, AlwaysPoolInv, PTL

-----------------------------------------------------------------------------
(* The statements of a handle                                              *)

(* ValidIsCurrent needs ValidIsListed, which is how a reconnect finds the  *)
(* statements, and that none is left when the handle is opened again;      *)
(* ValidIsListed rests on what std::remove keeps.  A result that refers to *)
(* the connection of now refers to a valid statement, unless its owner     *)
(* freed that, since the statements become invalid with their connection.  *)
NoneWhenClosed == m_connection = 0 => Live = {} /\ Open = {}

ResultsFit ==
    /\ \A r \in Open : result[r].connection <= m_connection
    /\ \A r \in Open :
           /\ result[r].connection = m_connection
           /\ result[r].prepared /\ result[r].statement # Freed
           => IsValid(result[r].statement)

BoundIsOpen == \A s \in Statement : bound[s] # Freed => bound[s] \in Open

HandleInv ==
    /\ HandleTypeOK
    /\ ValidIsListed
    /\ ValidIsCurrent
    /\ NoneWhenClosed
    /\ ResultsFit
    /\ BoundIsOpen

-----------------------------------------------------------------------------
(* std::remove                                                             *)

LEMMA NewPositionType ==
    ASSUME NEW list, NEW n \in Nat, DOMAIN list = 1 .. n, NEW s,
           NEW i \in KeptPositions(list, s)
    PROVE  NewPosition(list, s, i) \in 1 .. n
<1> DEFINE Upto == {k \in KeptPositions(list, s) : k <= i}
<1>1. i \in 1 .. n /\ i \in Upto /\ Upto \subseteq 1 .. n
  BY DEF KeptPositions
<1>2. IsFiniteSet(1 .. n) /\ Cardinality(1 .. n) = n
  BY FS_Interval
<1>3. IsFiniteSet(Upto) /\ Cardinality(Upto) <= n
  BY <1>1, <1>2, FS_Subset
<1>4. Cardinality(Upto) \in Nat /\ Cardinality(Upto) # 0
  BY <1>1, <1>3, FS_CardinalityType, FS_EmptySet
<1> QED
  BY <1>3, <1>4 DEF NewPosition

\* No two kept elements go to the same place.
LEMMA NewPositionInjective ==
    ASSUME NEW list, NEW n \in Nat, DOMAIN list = 1 .. n, NEW s,
           NEW i \in KeptPositions(list, s), NEW j \in KeptPositions(list, s),
           NewPosition(list, s, i) = NewPosition(list, s, j)
    PROVE  i = j
<1> DEFINE Upto(m) == {k \in KeptPositions(list, s) : k <= m}
<1>1. i \in 1 .. n /\ j \in 1 .. n
  BY DEF KeptPositions
<1>2. \A p \in KeptPositions(list, s), q \in KeptPositions(list, s) :
          p < q => NewPosition(list, s, p) # NewPosition(list, s, q)
  <2> SUFFICES ASSUME NEW p \in KeptPositions(list, s),
                      NEW q \in KeptPositions(list, s),
                      p < q, NewPosition(list, s, p) = NewPosition(list, s, q)
               PROVE  FALSE
    OBVIOUS
  <2>1. p \in 1 .. n /\ q \in 1 .. n
    BY DEF KeptPositions
  <2>2. Upto(q) \subseteq 1 .. n /\ IsFiniteSet(1 .. n)
    BY FS_Interval DEF KeptPositions
  <2>3. IsFiniteSet(Upto(q))
    BY <2>2, FS_Subset
  <2>4. Upto(p) \subseteq Upto(q)
    BY <2>1 DEF KeptPositions
  <2>5. Upto(p) = Upto(q)
    BY <2>3, <2>4, FS_Subset DEF NewPosition
  <2>6. q \in Upto(q) /\ q \notin Upto(p)
    BY <2>1
  <2> QED
    BY <2>5, <2>6
<1> QED
  BY <1>1, <1>2

LEMMA RemovedKeepsOthers ==
    ASSUME NEW S, NEW list \in Seq(S), NEW s
    PROVE  /\ Removed(list, s) \in Seq(S)
           /\ \A i \in DOMAIN list : list[i] # s =>
                  \E p \in DOMAIN Removed(list, s) :
                      Removed(list, s)[p] = list[i]
<1> DEFINE n == Len(list)
<1>1. n \in Nat /\ DOMAIN list = 1 .. n /\ \A i \in 1 .. n : list[i] \in S
  OBVIOUS
<1>2. \A p \in 1 .. n : Removed(list, s)[p] \in S
  BY <1>1 DEF Removed, KeptPositions
<1>3. Removed(list, s) \in Seq(S)
  BY <1>1, <1>2 DEF Removed
<1>4. ASSUME NEW i \in DOMAIN list, list[i] # s
      PROVE  \E p \in DOMAIN Removed(list, s) :
                 Removed(list, s)[p] = list[i]
  <2> DEFINE p == NewPosition(list, s, i)
  <2>1. i \in KeptPositions(list, s)
    BY <1>4 DEF KeptPositions
  <2>2. p \in 1 .. n
    BY <1>1, <2>1, NewPositionType
  <2>3. \A j \in KeptPositions(list, s) : NewPosition(list, s, j) = p => j = i
    BY <1>1, <2>1, NewPositionInjective
  <2>4. (CHOOSE j \in KeptPositions(list, s) : NewPosition(list, s, j) = p) = i
    BY <2>1, <2>3
  <2>5. Removed(list, s)[p] = list[i]
    BY <1>1, <2>1, <2>2, <2>4 DEF Removed
  <2> QED
    BY <1>1, <2>2, <2>5 DEF Removed
<1> QED
  BY <1>3, <1>4

-----------------------------------------------------------------------------
LEMMA FreedIsNoStatement == Freed \notin DbStatement
BY StatementAssumption DEF DbStatement

LEMMA FreedIsNoResult == Freed \notin DbResult
<1>1. 1 .. MaxConnections \subseteq Nat
  BY StatementAssumption
<1> QED
  BY <1>1, StatementAssumption DEF DbResult

LEMMA DbStatements ==
    /\ NullStatement \in DbStatement /\ NullStatement # Freed
    /\ \A c \in 1 .. MaxConnections :
           LET new == [m_connection |-> TRUE, m_statement |-> c]
           IN  new \in DbStatement /\ new # Freed
<1>1. 0 \in 0 .. MaxConnections /\ 1 .. MaxConnections \subseteq 0 .. MaxConnections
  BY StatementAssumption
<1>2. NullStatement \in DbStatement
  BY <1>1 DEF NullStatement, DbStatement
<1>3. \A c \in 1 .. MaxConnections :
          [m_connection |-> TRUE, m_statement |-> c] \in DbStatement
  BY <1>1 DEF DbStatement
<1> QED
  BY <1>2, <1>3, FreedIsNoStatement

LEMMA InitHandleInv == HandleInit => HandleInv
<1> SUFFICES ASSUME HandleInit PROVE HandleInv
  OBVIOUS
<1>1. HandleTypeOK
  <2>1. m_connection \in 0 .. MaxConnections
    BY StatementAssumption DEF HandleInit
  <2>2. m_preparedStatements \in Seq(Statement)
    BY DEF HandleInit
  <2>3. statement \in [Statement -> DbStatement \cup {Freed}]
    BY DEF HandleInit
  <2> QED
    BY <2>1, <2>2, <2>3 DEF HandleInit, HandleTypeOK
<1>2. Live = {} /\ Open = {}
  BY DEF HandleInit, Live, Open
<1>3. BoundIsOpen
  BY DEF HandleInit, BoundIsOpen
<1> QED
  BY <1>1, <1>2, <1>3
     DEF HandleInv, ValidIsListed, ValidIsCurrent, NoneWhenClosed, ResultsFit,
         IsValid

\* Whoever holds a statement can free it.
LEMMA LiveCanBeFreed == HandleInv => \A s \in Live : CanFree(s)
BY DEF HandleInv, ValidIsCurrent, CanFree

\* The parts about the statements stay if the statements stay as they are.
LEMMA SameStatements ==
    ASSUME HandleInv,
           UNCHANGED <<m_connection, m_preparedStatements, statement>>
    PROVE  (ValidIsListed /\ ValidIsCurrent)'
<1>1. Live' = Live /\ Listed' = Listed
  BY DEF Live, Listed
<1> QED
  BY <1>1 DEF HandleInv, ValidIsListed, ValidIsCurrent, IsValid

\* The parts about the results stay if all stays as it is.
LEMMA SameResults ==
    ASSUME HandleInv, UNCHANGED <<m_connection, statement, result, bound>>
    PROVE  (NoneWhenClosed /\ ResultsFit /\ BoundIsOpen)'
<1>1. Live' = Live /\ Open' = Open
  BY DEF Live, Open
<1> QED
  BY <1>1
     DEF HandleInv, NoneWhenClosed, ResultsFit, BoundIsOpen, IsValid

\* A result that is not outlived can be read.
LEMMA FetchUnlessOutlived ==
    ASSUME HandleInv, NEW r \in Open, ~Outlived(r)
    PROVE  CanFetch(r)
<1> USE DEF HandleInv
<1>1. result[r] \in DbResult /\ result[r].connection = m_connection
  BY DEF HandleTypeOK, Open, Outlived
<1>2. m_connection # 0
  BY <1>1 DEF NoneWhenClosed
<1>3. ASSUME result[r].prepared
      PROVE  HasStatement(r) /\ HasLengths(r)
  <2>1. /\ result[r].statement \in Statement
        /\ bound[result[r].statement] # Freed
    BY <1>1, <1>3 DEF DbResult, Outlived
  <2>2. IsValid(result[r].statement)
    BY <1>1, <1>3, <2>1, StatementAssumption DEF ResultsFit
  <2>3. result[r].statement \in Live
    BY <2>2 DEF IsValid
  <2>4. statement[result[r].statement].m_statement = m_connection
    BY <2>2, <2>3 DEF ValidIsCurrent
  <2> QED
    BY <1>2, <2>1, <2>3, <2>4 DEF HasStatement, HasLengths, BoundIsOpen
<1> QED
  BY <1>1, <1>3 DEF CanFetch, HasConnection

LEMMA UsesFreedMemoryInv == HandleInv /\ UsesFreedMemory => HandleInv'
<1> SUFFICES ASSUME HandleInv, UsesFreedMemory PROVE HandleInv'
  OBVIOUS
<1> USE DEF HandleInv
<1>1. UNCHANGED <<statements, results>> /\ undefined' = TRUE
  BY DEF UsesFreedMemory
<1>2. HandleTypeOK'
  BY <1>1 DEF HandleTypeOK, statements, results
<1>3. (ValidIsListed /\ ValidIsCurrent)'
  BY <1>1, SameStatements DEF statements
<1>4. (NoneWhenClosed /\ ResultsFit /\ BoundIsOpen)'
  BY <1>1, SameResults DEF statements, results
<1> QED
  BY <1>2, <1>3, <1>4

\* After InvalidatePreparedStatements there is no valid statement, and no
\* statement refers to a connection.
LEMMA InvalidatedAll ==
    ASSUME HandleInv, \A s \in Listed : CanFree(s)
    PROVE  /\ Invalidated \in [Statement -> DbStatement \cup {Freed}]
           /\ \A s \in Statement :
                  Invalidated[s] = IF s \in Live THEN NullStatement ELSE Freed
<1> USE DEF HandleInv
<1>1. NullStatement \in DbStatement /\ NullStatement # Freed
  BY DbStatements
<1>2. Invalidated \in [Statement -> DbStatement \cup {Freed}]
  BY <1>1 DEF Invalidated, HandleTypeOK
<1>3. Listed \subseteq Live
  BY DEF CanFree
<1>4. ASSUME NEW s \in Live, s \notin Listed
      PROVE  statement[s] = NullStatement
  <2>1. s \in Statement /\ statement[s] \in DbStatement
    BY DEF Live, HandleTypeOK
  <2>2. ~IsValid(s) /\ statement[s].m_connection = FALSE
    BY <1>4, <2>1 DEF ValidIsListed, IsValid, DbStatement
  <2>3. statement[s].m_statement = 0
    BY <2>2 DEF ValidIsCurrent
  <2> QED
    BY <2>1, <2>2, <2>3 DEF DbStatement, NullStatement
<1>5. \A s \in Statement :
          Invalidated[s] = IF s \in Live THEN NullStatement ELSE Freed
  BY <1>3, <1>4 DEF Invalidated, Live
<1> QED
  BY <1>2, <1>5

\* The statements after InvalidatePreparedStatements.
LEMMA EmptyVectorInv ==
    ASSUME HandleInv, NEW c \in 0 .. MaxConnections,
           \A s \in Listed : CanFree(s), m_connection' = c, EmptyVector
    PROVE  /\ m_preparedStatements' \in Seq(Statement)
           /\ statement' \in [Statement -> DbStatement \cup {Freed}]
           /\ (ValidIsListed /\ ValidIsCurrent)'
           /\ Live' = Live
<1>1. /\ m_preparedStatements' = << >> /\ statement' = Invalidated
  BY DEF EmptyVector
<1>2. \A s \in Live' : statement'[s] = NullStatement
  BY <1>1, InvalidatedAll DEF Live
<1>3. \A s \in Statement : ~IsValid(s)'
  BY <1>2 DEF IsValid, NullStatement
<1>4. \A s \in Live' : statement'[s].m_statement = 0 /\ s \in Statement
  BY <1>2 DEF NullStatement, Live
<1>5. Live' = Live
  BY <1>1, InvalidatedAll, DbStatements DEF Live
<1> QED
  BY <1>1, <1>3, <1>4, <1>5, InvalidatedAll DEF ValidIsListed, ValidIsCurrent

\* After a reconnect every result is of an earlier connection.
LEMMA ResultsAfterReconnect ==
    ASSUME HandleInv, m_connection' = m_connection + 1, UNCHANGED results
    PROVE  (NoneWhenClosed /\ ResultsFit /\ BoundIsOpen)'
<1> USE DEF HandleInv
<1>1. /\ m_connection \in 0 .. MaxConnections /\ MaxConnections \in Nat
      /\ \A r \in Open : result[r].connection \in 1 .. MaxConnections
  BY StatementAssumption DEF HandleTypeOK, Open, DbResult
<1>2. Open' = Open /\ result' = result /\ bound' = bound
  BY DEF Open, results
<1>3. \A r \in Open : result[r].connection < m_connection'
  BY <1>1 DEF ResultsFit
<1>4. m_connection' # 0
  BY <1>1
<1>5. \A r \in Open :
          /\ result[r].connection <= m_connection'
          /\ result[r].connection # m_connection'
  BY <1>1, <1>3
<1> QED
  BY <1>2, <1>4, <1>5 DEF NoneWhenClosed, ResultsFit, BoundIsOpen

LEMMA ReconnectNothingPrepared ==
    ASSUME HandleInv, DBReconnect(NothingPrepared)
    PROVE  HandleInv'
<1>1. CASE ~ \A s \in Listed : CanFree(s)
  BY <1>1, UsesFreedMemoryInv DEF DBReconnect, Invalidate
<1>2. CASE \A s \in Listed : CanFree(s)
  <2>1. /\ m_connection' = m_connection + 1 /\ undefined' = undefined
        /\ EmptyVector /\ UNCHANGED results
    BY <1>2 DEF DBReconnect, Invalidate, NothingPrepared
  <2>2. m_connection + 1 \in 0 .. MaxConnections
    BY StatementAssumption DEF DBReconnect, HandleInv, HandleTypeOK
  <2>3. HandleTypeOK'
    BY <1>2, <2>1, <2>2, EmptyVectorInv
       DEF HandleInv, HandleTypeOK, results
  <2> QED
    BY <1>2, <2>1, <2>2, <2>3, EmptyVectorInv, ResultsAfterReconnect
       DEF HandleInv
<1> QED
  BY <1>1, <1>2

LEMMA DBDisconnectInv == HandleInv /\ DBDisconnect => HandleInv'
<1> SUFFICES ASSUME HandleInv, DBDisconnect PROVE HandleInv'
  OBVIOUS
<1>1. CASE ~ \A s \in Listed : CanFree(s)
  BY <1>1, UsesFreedMemoryInv DEF DBDisconnect, Invalidate
<1>2. CASE \A s \in Listed : CanFree(s)
  <2>1. /\ m_connection' = 0 /\ undefined' = undefined
        /\ EmptyVector /\ UNCHANGED results /\ Live = {} /\ Open = {}
    BY <1>2 DEF DBDisconnect, Invalidate, NothingPrepared
  <2>2. 0 \in 0 .. MaxConnections
    BY StatementAssumption
  <2>3. HandleTypeOK'
    BY <1>2, <2>1, <2>2, EmptyVectorInv DEF HandleInv, HandleTypeOK, results
  <2>4. Open' = {} /\ Live' = {}
    BY <1>2, <2>1, <2>2, EmptyVectorInv DEF Open, results
  <2>5. BoundIsOpen'
    BY <2>1, <2>4 DEF HandleInv, BoundIsOpen, results
  <2> QED
    BY <1>2, <2>1, <2>2, <2>3, <2>4, <2>5, EmptyVectorInv
       DEF HandleInv, NoneWhenClosed, ResultsFit
<1> QED
  BY <1>1, <1>2

LEMMA ConnectionLostInv == HandleInv /\ ConnectionLost => HandleInv'
BY ReconnectNothingPrepared DEF ConnectionLost

\* What the vector, the statements and the results before a new statement have
\* to do with MYSQL_CONN c, on which it is prepared.
StatementsFit(c, list, stmts) ==
    \A r \in Statement : stmts[r] # Freed =>
        /\ stmts[r].m_connection => \E i \in DOMAIN list : list[i] = r
        /\ stmts[r].m_statement = IF stmts[r].m_connection THEN c ELSE 0

ResultsFitTo(c, stmts) ==
    \A r \in Open :
        /\ result[r].connection <= c
        /\ /\ result[r].connection = c
           /\ result[r].prepared /\ result[r].statement # Freed
           => /\ result[r].statement \in Statement
              /\ stmts[result[r].statement] # Freed
              /\ stmts[result[r].statement].m_connection

\* A new statement is entered, whether or not the others were invalidated.
LEMMA NewStatementInv ==
    ASSUME NEW s \in Statement, NEW c \in 1 .. MaxConnections,
           NEW list \in Seq(Statement),
           NEW stmts \in [Statement -> DbStatement \cup {Freed}],
           StatementsFit(c, list, stmts), ResultsFitTo(c, stmts),
           HandleInv, undefined' \in BOOLEAN, m_connection' = c,
           NewStatement(s, c, list, stmts)
    PROVE  HandleInv'
<1> DEFINE new == [m_connection |-> TRUE, m_statement |-> c]
<1>1. new \in DbStatement /\ new # Freed
  BY DbStatements
<1>2. /\ statement' = [stmts EXCEPT ![s] = new]
      /\ m_preparedStatements' = Append(list, s)
      /\ result' = result /\ bound' = bound
  BY DEF NewStatement, results
<1>3. HandleTypeOK'
  BY <1>1, <1>2, StatementAssumption DEF HandleInv, HandleTypeOK
<1>4. /\ s \in Listed'
      /\ \A r \in Statement :
             (\E i \in DOMAIN list : list[i] = r) => r \in Listed'
  <2>1. /\ Len(list) \in Nat /\ DOMAIN list = 1 .. Len(list)
        /\ DOMAIN Append(list, s) = 1 .. (Len(list) + 1)
        /\ Append(list, s)[Len(list) + 1] = s
        /\ \A i \in DOMAIN list : Append(list, s)[i] = list[i]
    OBVIOUS
  <2> QED
    BY <1>2, <2>1 DEF Listed
<1>5. \A r \in Statement :
          statement'[r] = IF r = s THEN new ELSE stmts[r]
  BY <1>2
<1>6. ValidIsListed'
  BY <1>4, <1>5 DEF StatementsFit, ValidIsListed, IsValid, Live
<1>7. ValidIsCurrent'
  BY <1>1, <1>5 DEF StatementsFit, ValidIsCurrent, IsValid, Live
<1>8. Open' = Open
  BY <1>2 DEF Open
<1>9. ResultsFit'
  <2>1. \A r \in Statement :
            stmts[r] # Freed /\ stmts[r].m_connection => IsValid(r)'
    BY <1>1, <1>5 DEF IsValid, Live
  <2> QED
    BY <1>2, <1>8, <2>1 DEF ResultsFit, ResultsFitTo
<1>10. BoundIsOpen'
  BY <1>2, <1>8 DEF HandleInv, BoundIsOpen
<1> QED
  BY <1>3, <1>6, <1>7, <1>9, <1>10, StatementAssumption
     DEF HandleInv, NoneWhenClosed

LEMMA DBPrepareExInv ==
    ASSUME HandleInv, NEW s \in Statement, DBPrepareEx(s)
    PROVE  HandleInv'
<1> USE DEF HandleInv
<1>1. CASE /\ NewStatement(s, m_connection, m_preparedStatements, statement)
           /\ UNCHANGED <<m_connection, undefined>>
  <2>1. m_connection \in 1 .. MaxConnections
    BY StatementAssumption DEF DBPrepareEx, IsOpen, HandleTypeOK
  <2>2. StatementsFit(m_connection, m_preparedStatements, statement)
    BY DEF StatementsFit, ValidIsListed, ValidIsCurrent, IsValid, Live, Listed
  <2>3. ResultsFitTo(m_connection, statement)
    BY DEF ResultsFitTo, ResultsFit, IsValid, Live
  <2>4. /\ m_preparedStatements \in Seq(Statement) /\ undefined' \in BOOLEAN
        /\ statement \in [Statement -> DbStatement \cup {Freed}]
    BY <1>1 DEF HandleTypeOK
  <2> QED
    BY <1>1, <2>1, <2>2, <2>3, <2>4, NewStatementInv
<1>2. CASE DBReconnect(NewStatement(s, m_connection + 1, << >>, Invalidated))
  <2>1. CASE ~ \A r \in Listed : CanFree(r)
    BY <1>2, <2>1, UsesFreedMemoryInv DEF DBReconnect, Invalidate
  <2>2. CASE \A r \in Listed : CanFree(r)
    <3>1. /\ m_connection + 1 \in 1 .. MaxConnections
          /\ m_connection' = m_connection + 1 /\ undefined' = undefined
          /\ NewStatement(s, m_connection + 1, << >>, Invalidated)
      BY <1>2, <2>2, StatementAssumption DEF DBReconnect, Invalidate, HandleTypeOK
    <3>2. \A r \in Statement : Invalidated[r] # Freed =>
              /\ ~Invalidated[r].m_connection
              /\ Invalidated[r].m_statement = 0
      BY <2>2, InvalidatedAll DEF NullStatement
    <3>3. Invalidated \in [Statement -> DbStatement \cup {Freed}]
      BY <2>2, InvalidatedAll
    <3>4. << >> \in Seq(Statement) /\ undefined' \in BOOLEAN
      BY <3>1 DEF HandleTypeOK
    <3>5. \A r \in Open : /\ result[r].connection <= m_connection + 1
                          /\ result[r].connection # m_connection + 1
      BY <3>1, StatementAssumption DEF ResultsFit, HandleTypeOK, Open, DbResult
    <3>6. StatementsFit(m_connection + 1, << >>, Invalidated)
      BY <3>2 DEF StatementsFit
    <3>7. ResultsFitTo(m_connection + 1, Invalidated)
      BY <3>5 DEF ResultsFitTo
    <3> QED
      BY <3>1, <3>3, <3>4, <3>6, <3>7, NewStatementInv
  <2> QED
    BY <2>1, <2>2
<1>3. CASE DBReconnect(NothingPrepared)
  BY <1>3, ReconnectNothingPrepared
<1> QED
  BY <1>1, <1>2, <1>3 DEF DBPrepareEx

LEMMA DBFreeStatementInv ==
    ASSUME HandleInv, NEW s \in Statement, DBFreeStatement(s)
    PROVE  HandleInv'
<1> USE DEF HandleInv
<1>1. CanFree(s)
  BY LiveCanBeFreed DEF DBFreeStatement
<1>2. /\ m_preparedStatements' = Without(s)
      /\ statement' = [statement EXCEPT ![s] = Freed]
      /\ m_connection' = m_connection /\ undefined' = undefined
      /\ bound' = bound
      /\ result' = [r \in Result |->
             IF r \in Open /\ result[r].statement = s
             THEN [result[r] EXCEPT !.statement = Freed]
             ELSE result[r]]
  BY <1>1 DEF DBFreeStatement
<1>3. /\ Without(s) \in Seq(Statement)
      /\ \A i \in DOMAIN m_preparedStatements : m_preparedStatements[i] # s =>
             \E p \in DOMAIN Without(s) :
                 Without(s)[p] = m_preparedStatements[i]
  BY RemovedKeepsOthers DEF Without, HandleTypeOK
<1>4. \A r \in Statement : r # s /\ r \in Listed => r \in Listed'
  BY <1>2, <1>3 DEF Listed
<1>5. \A r \in Statement :
          statement'[r] = IF r = s THEN Freed ELSE statement[r]
  BY <1>2 DEF HandleTypeOK
<1>10. \A r \in Result :
           result[r] \in DbResult =>
               /\ [result[r] EXCEPT !.statement = Freed] \in DbResult
               /\ [result[r] EXCEPT !.statement = Freed].statement = Freed
               /\ [result[r] EXCEPT !.statement = Freed].connection =
                      result[r].connection
  BY DEF DbResult
<1>11. Freed \notin DbResult /\ Freed \notin Statement
  BY StatementAssumption, FreedIsNoResult
<1>12. result' \in [Result -> DbResult \cup {Freed}]
  BY <1>2, <1>10 DEF HandleTypeOK, Open
<1>6. HandleTypeOK'
  BY <1>2, <1>3, <1>12 DEF HandleTypeOK
<1>13. /\ Open' = Open
       /\ \A r \in Open : /\ result'[r].connection = result[r].connection
                          /\ result'[r].statement # Freed =>
                                 /\ result'[r] = result[r]
                                 /\ result[r].statement # s
  BY <1>2, <1>10, <1>11, <1>12 DEF HandleTypeOK, Open
<1>14. ResultsFit'
  <2>1. \A r \in Statement : r # s /\ IsValid(r) => IsValid(r)'
    BY <1>5 DEF IsValid, Live
  <2>2. \A r \in Open : IsValid(result[r].statement) =>
            result[r].statement \in Statement
    BY DEF IsValid, Live
  <2>5. m_connection' = m_connection
    BY <1>2
  <2>3. \A r \in Open' : result'[r].connection <= m_connection'
    BY <1>13, <2>5 DEF ResultsFit
  <2>4. ASSUME NEW r \in Open', result'[r].connection = m_connection',
               result'[r].prepared, result'[r].statement # Freed
        PROVE  IsValid(result[r].statement)'
    <3>1. r \in Open /\ result'[r] = result[r] /\ result[r].statement # s
      BY <1>13, <2>4
    <3>2. IsValid(result[r].statement)
      BY <2>4, <2>5, <3>1 DEF ResultsFit
    <3>4. result[r].statement \in Statement
      BY <2>2, <3>1, <3>2
    <3>5. /\ result'[r].statement \in Live'
          /\ statement'[result'[r].statement].m_connection
      BY <1>5, <3>1, <3>2, <3>4 DEF IsValid, Live
    <3> QED
      BY <3>5 DEF IsValid
  <2> QED
    BY <2>3, <2>4 DEF ResultsFit
<1>15. BoundIsOpen'
  BY <1>2, <1>13 DEF BoundIsOpen
<1>7. ValidIsListed'
  BY <1>4, <1>5 DEF ValidIsListed, IsValid, Live
<1>8. ValidIsCurrent'
  BY <1>2, <1>5 DEF ValidIsCurrent, IsValid, Live
<1>9. NoneWhenClosed'
  BY <1>2, <1>5, <1>13 DEF NoneWhenClosed, Live
<1> QED
  BY <1>6, <1>7, <1>8, <1>9, <1>14, <1>15

\* A new result, on the connection of now, of a statement that is valid now.
LEMMA NewResultInv ==
    ASSUME HandleInv, NEW r \in Result, r \notin Open,
           NEW rows \in {"stored", "pending", "noMore"},
           NEW s \in Statement \cup {Freed}, NEW prepared \in BOOLEAN,
           prepared /\ s # Freed => IsValid(s),
           UNCHANGED <<statements, undefined>>, m_connection # 0,
           NewResult(r, m_connection, rows, s, prepared),
           bound' \in [Statement -> Result \cup {Freed}],
           \A q \in Statement : bound'[q] \in {bound[q], r}
    PROVE  HandleInv'
<1> DEFINE new == [connection |-> m_connection, rows |-> rows,
                   statement |-> s, prepared |-> prepared]
<1> USE DEF HandleInv
<1>1. new \in DbResult /\ new # Freed
  BY StatementAssumption, FreedIsNoResult DEF DbResult, HandleTypeOK
<1>2. /\ result' = [result EXCEPT ![r] = new] /\ undefined' = undefined
      /\ m_connection' = m_connection /\ statement' = statement
      /\ m_preparedStatements' = m_preparedStatements
  BY DEF NewResult, statements
<1>3. HandleTypeOK'
  BY <1>1, <1>2 DEF HandleTypeOK
<1>4. (ValidIsListed /\ ValidIsCurrent)'
  BY <1>2, SameStatements
<1>5. \A q \in Result : result'[q] = IF q = r THEN new ELSE result[q]
  BY <1>2 DEF HandleTypeOK
<1>6. Open' = Open \cup {r}
  BY <1>1, <1>5 DEF Open
<1>8. ResultsFit'
  <2>1. \A q \in Open' :
            \/ q \in Open /\ result'[q] = result[q]
            \/ result'[q] = new
    BY <1>5, <1>6 DEF Open
  <2>2. m_connection <= m_connection
    BY StatementAssumption DEF HandleTypeOK
  <2>3. /\ new.connection = m_connection /\ new.statement = s
        /\ new.prepared = prepared
    OBVIOUS
  <2>5. \A q \in Open' : result'[q].connection <= m_connection'
    BY <1>2, <2>1, <2>2, <2>3 DEF ResultsFit
  <2>6. ASSUME NEW q \in Open', result'[q].connection = m_connection',
               result'[q].prepared, result'[q].statement # Freed
        PROVE  IsValid(result[q].statement)'
    <3>1. CASE result'[q] = new
      <4>1. prepared /\ s # Freed
        BY <2>3, <2>6, <3>1
      <4>2. IsValid(s)
        BY <4>1
      <4>3. s \in Live' /\ statement'[s].m_connection
        BY <1>2, <4>2 DEF IsValid, Live
      <4> QED
        BY <2>3, <3>1, <4>3 DEF IsValid
    <3>2. CASE q \in Open /\ result'[q] = result[q]
      <4>1. IsValid(result[q].statement)
        BY <1>2, <2>6, <3>2 DEF ResultsFit
      <4>2. /\ result'[q].statement \in Live'
            /\ statement'[result'[q].statement].m_connection
        BY <1>2, <3>2, <4>1 DEF IsValid, Live
      <4> QED
        BY <4>2 DEF IsValid
    <3> QED
      BY <2>1, <3>1, <3>2
  <2> QED
    BY <2>5, <2>6 DEF ResultsFit
<1>9. BoundIsOpen'
  BY <1>6 DEF BoundIsOpen
<1> QED
  BY <1>2, <1>3, <1>4, <1>8, <1>9 DEF NoneWhenClosed

LEMMA SelectInv ==
    ASSUME HandleInv, NEW s \in Statement, NEW r \in Result,
           NEW rows \in {"stored", "pending"}, Select(s, r, rows)
    PROVE  HandleInv'
<1>1. /\ bound' \in [Statement -> Result \cup {Freed}]
      /\ \A q \in Statement : bound'[q] \in {bound[q], r}
  BY DEF Select, HandleInv, HandleTypeOK
<1> QED
  BY <1>1, NewResultInv DEF Select, IsOpen

LEMMA NothingStoredInv ==
    ASSUME HandleInv, NEW s \in Statement, NothingStored(s)
    PROVE  HandleInv'
<1> USE DEF HandleInv, NothingStored, statements
<1>1. HandleTypeOK'
  BY DEF HandleTypeOK
<1>2. (ValidIsListed /\ ValidIsCurrent)'
  BY SameStatements
<1>3. Open' = Open /\ Live' = Live
  BY DEF Open, Live
<1>4. BoundIsOpen'
  BY <1>3 DEF BoundIsOpen, HandleTypeOK
<1> QED
  BY <1>1, <1>2, <1>3, <1>4 DEF NoneWhenClosed, ResultsFit, IsValid

LEMMA DBSelectUnbufferedExInv ==
    ASSUME HandleInv, NEW r \in Result, DBSelectUnbufferedEx(r)
    PROVE  HandleInv'
<1>1. CASE /\ NewResult(r, m_connection, "pending", Freed, FALSE)
           /\ UNCHANGED <<statements, bound, undefined>>
  <2>1. /\ bound' \in [Statement -> Result \cup {Freed}]
        /\ \A q \in Statement : bound'[q] \in {bound[q], r}
    BY <1>1 DEF HandleInv, HandleTypeOK
  <2> QED
    BY <1>1, <2>1, NewResultInv DEF DBSelectUnbufferedEx, IsOpen
<1>2. CASE DBReconnect(/\ EmptyVector /\ UNCHANGED bound
                       /\ NewResult(r, m_connection + 1, "pending", Freed, FALSE))
  <2>1. CASE ~ \A s \in Listed : CanFree(s)
    BY <1>2, <2>1, UsesFreedMemoryInv DEF DBReconnect, Invalidate
  <2>2. CASE \A s \in Listed : CanFree(s)
    <3> DEFINE c == m_connection + 1
               new == [connection |-> c, rows |-> "pending",
                       statement |-> Freed, prepared |-> FALSE]
    <3> USE DEF HandleInv
    <3>1. /\ m_connection' = c /\ undefined' = undefined /\ EmptyVector
          /\ bound' = bound /\ result' = [result EXCEPT ![r] = new]
      BY <1>2, <2>2 DEF DBReconnect, Invalidate, NewResult
    <3>2. c \in 1 .. MaxConnections /\ c \in 0 .. MaxConnections /\ c # 0
      BY <1>2, StatementAssumption DEF DBReconnect, HandleTypeOK
    <3>3. new \in DbResult /\ new # Freed
      <4>1. new \in DbResult
        BY <3>2 DEF DbResult
      <4> QED
        BY <4>1, FreedIsNoResult
    <3>4. HandleTypeOK'
      BY <2>2, <3>1, <3>2, <3>3, EmptyVectorInv DEF HandleTypeOK
    <3>5. \A q \in Result : result'[q] = IF q = r THEN new ELSE result[q]
      BY <3>1 DEF HandleTypeOK
    <3>6. Open' = Open \cup {r}
      BY <3>3, <3>5 DEF Open
    <3>7. \A q \in Open : /\ result[q].connection <= c
                          /\ result[q].connection # c
      BY <3>2, StatementAssumption DEF ResultsFit, HandleTypeOK, Open, DbResult
    <3>8. \A q \in Open' :
              \/ q \in Open /\ result'[q] = result[q]
              \/ result'[q] = new
      BY <3>5, <3>6 DEF Open
    <3>9. new.connection = c /\ new.prepared = FALSE /\ c <= c
      BY <3>2
    <3>10. ResultsFit'
      BY <3>1, <3>7, <3>8, <3>9 DEF ResultsFit
    <3>11. BoundIsOpen'
      BY <3>1, <3>6 DEF BoundIsOpen
    <3> QED
      BY <2>2, <3>1, <3>2, <3>4, <3>10, <3>11, EmptyVectorInv DEF NoneWhenClosed
  <2> QED
    BY <2>1, <2>2
<1>3. CASE DBReconnect(NothingPrepared)
  BY <1>3, ReconnectNothingPrepared
<1> QED
  BY <1>1, <1>2, <1>3 DEF DBSelectUnbufferedEx

LEMMA DBFetchInv ==
    ASSUME HandleInv, NEW r \in Result, DBFetch(r)
    PROVE  HandleInv'
<1>1. CASE ~CanFetch(r)
  BY <1>1, UsesFreedMemoryInv DEF DBFetch
<1>2. CASE CanFetch(r)
  <2> USE DEF HandleInv
  <2> DEFINE read == [result[r] EXCEPT !.rows = "noMore"]
  <2>1. /\ result' = [result EXCEPT ![r] = read] /\ bound' = bound
        /\ undefined' = undefined /\ m_connection' = m_connection
        /\ statement' = statement
        /\ m_preparedStatements' = m_preparedStatements
    BY <1>2 DEF DBFetch, statements
  <2>2. result[r] \in DbResult /\ r \in Open
    BY DEF DBFetch, Open, HandleTypeOK
  <2>3. /\ read \in DbResult /\ read # Freed
        /\ read.connection = result[r].connection
        /\ read.statement = result[r].statement
        /\ read.prepared = result[r].prepared
    BY <2>2, FreedIsNoResult DEF DbResult
  <2>4. HandleTypeOK'
    BY <2>1, <2>3 DEF HandleTypeOK
  <2>5. (ValidIsListed /\ ValidIsCurrent)'
    BY <2>1, SameStatements
  <2>6. \A q \in Result : result'[q] = IF q = r THEN read ELSE result[q]
    BY <2>1 DEF HandleTypeOK
  <2>7. Open' = Open /\ Live' = Live
    BY <2>1, <2>2, <2>3, <2>6 DEF Open, Live
  <2>8. \A q \in Open : /\ result'[q].connection = result[q].connection
                        /\ result'[q].statement = result[q].statement
                        /\ result'[q].prepared = result[q].prepared
    BY <2>3, <2>6 DEF Open
  <2>9. ResultsFit'
    BY <2>1, <2>7, <2>8 DEF ResultsFit, IsValid
  <2> QED
    BY <2>1, <2>4, <2>5, <2>7, <2>9 DEF NoneWhenClosed, BoundIsOpen
<1> QED
  BY <1>1, <1>2

LEMMA DBFreeResultInv ==
    ASSUME HandleInv, NEW r \in Result, DBFreeResult(r)
    PROVE  HandleInv'
<1>1. CASE ~(result[r].rows = "pending" => HasConnection(r))
  BY <1>1, UsesFreedMemoryInv DEF DBFreeResult
<1>2. CASE result[r].rows = "pending" => HasConnection(r)
  <2> USE DEF HandleInv
  <2>1. /\ result' = [result EXCEPT ![r] = Freed]
        /\ bound' = [s \in Statement |->
                         IF bound[s] = r THEN Freed ELSE bound[s]]
        /\ undefined' = undefined /\ m_connection' = m_connection
        /\ statement' = statement
        /\ m_preparedStatements' = m_preparedStatements
    BY <1>2 DEF DBFreeResult, statements
  <2>2. bound' \in [Statement -> Result \cup {Freed}]
    BY <2>1 DEF HandleTypeOK
  <2>3. HandleTypeOK'
    BY <2>1, <2>2 DEF HandleTypeOK
  <2>4. (ValidIsListed /\ ValidIsCurrent)'
    BY <2>1, SameStatements
  <2>5. \A q \in Result : result'[q] = IF q = r THEN Freed ELSE result[q]
    BY <2>1 DEF HandleTypeOK
  <2>6. Open' = Open \ {r} /\ Live' = Live
    BY <2>1, <2>5 DEF Open, Live
  <2>7. \A q \in Open' : result'[q] = result[q] /\ q \in Open
    BY <2>5, <2>6 DEF Open
  <2>8. ResultsFit'
    BY <2>1, <2>6, <2>7 DEF ResultsFit, IsValid
  <2>9. BoundIsOpen'
    BY <2>1, <2>6 DEF BoundIsOpen
  <2> QED
    BY <2>1, <2>3, <2>4, <2>6, <2>8, <2>9 DEF NoneWhenClosed
<1> QED
  BY <1>1, <1>2

LEMMA DBGetFieldInv ==
    ASSUME HandleInv, NEW r \in Result, DBGetField(r)
    PROVE  HandleInv'
BY UsesFreedMemoryInv DEF DBGetField

LEMMA DBConnectInv == HandleInv /\ DBConnect => HandleInv'
<1> SUFFICES ASSUME HandleInv, DBConnect PROVE HandleInv'
  OBVIOUS
<1> USE DEF HandleInv, DBConnect
<1>1. HandleTypeOK'
  BY StatementAssumption DEF HandleTypeOK, results
<1>2. Live' = {} /\ Open' = {}
  BY DEF NoneWhenClosed, Live, Open, results
<1>3. BoundIsOpen'
  BY <1>2 DEF BoundIsOpen, NoneWhenClosed, results
<1> QED
  BY <1>1, <1>2, <1>3
     DEF ValidIsListed, ValidIsCurrent, NoneWhenClosed, ResultsFit, IsValid

LEMMA NextHandleInv == HandleInv /\ [HandleNext]_handleVars => HandleInv'
<1> SUFFICES ASSUME HandleInv, [HandleNext]_handleVars PROVE HandleInv'
  OBVIOUS
<1>1. CASE DBConnect
  BY <1>1, DBConnectInv
<1>2. CASE DBDisconnect
  BY <1>2, DBDisconnectInv
<1>3. CASE ConnectionLost
  BY <1>3, ConnectionLostInv
<1>4. CASE DBQueryEx \/ DBSelectEx
  BY <1>3, <1>4 DEF DBQueryEx, DBSelectEx
<1>5. ASSUME NEW s \in Statement, DBExecuteEx(s)
      PROVE  HandleInv'
  BY <1>3, <1>5 DEF DBExecuteEx
<1>6. ASSUME NEW s \in Statement, DBPrepareEx(s)
      PROVE  HandleInv'
  BY <1>6, DBPrepareExInv
<1>7. ASSUME NEW s \in Statement, DBFreeStatement(s)
      PROVE  HandleInv'
  BY <1>7, DBFreeStatementInv
<1>8. ASSUME NEW s \in Statement, NEW r \in Result,
             DBSelectPreparedEx(s, r) \/ DBSelectPreparedUnbufferedEx(s, r)
      PROVE  HandleInv'
  <2>1. CASE Select(s, r, "stored") \/ Select(s, r, "pending")
    BY <2>1, SelectInv
  <2>2. CASE NothingStored(s)
    BY <2>2, NothingStoredInv
  <2> QED
    BY <1>3, <1>8, <2>1, <2>2
       DEF DBSelectPreparedEx, DBSelectPreparedUnbufferedEx
<1>9. ASSUME NEW r \in Result, DBSelectUnbufferedEx(r)
      PROVE  HandleInv'
  BY <1>9, DBSelectUnbufferedExInv
<1>10. ASSUME NEW r \in Result, DBGetField(r) \/ DBFetch(r) \/ DBFreeResult(r)
       PROVE  HandleInv'
  BY <1>10, DBGetFieldInv, DBFetchInv, DBFreeResultInv
<1>11. CASE UNCHANGED handleVars
  <2>1. HandleTypeOK'
    BY <1>11 DEF HandleInv, HandleTypeOK, handleVars, statements, results
  <2>2. (ValidIsListed /\ ValidIsCurrent)'
    BY <1>11, SameStatements DEF handleVars, statements
  <2>3. (NoneWhenClosed /\ ResultsFit /\ BoundIsOpen)'
    BY <1>11, SameResults DEF handleVars, statements, results
  <2> QED
    BY <2>1, <2>2, <2>3 DEF HandleInv
<1> QED
  BY <1>1, <1>2, <1>4, <1>5, <1>6, <1>7, <1>8, <1>9, <1>10, <1>11
     DEF HandleNext

THEOREM AlwaysHandleInv == HandleSpec => []HandleInv
BY InitHandleInv, NextHandleInv, PTL DEF HandleSpec

\* The variables of a handle always have their types: what std::remove leaves
\* in the vector are addresses of statements, live or freed.
THEOREM HandleTypeCorrect == HandleSpec => []HandleTypeOK
BY AlwaysHandleInv, PTL DEF HandleInv

\* InvalidatePreparedStatements (p2_dbapi.cpp:61) reaches every statement that
\* is still valid.
THEOREM InvalidationComplete == HandleSpec => []ValidIsListed
BY AlwaysHandleInv, PTL DEF HandleInv

\* What IS_VALID_STATEMENT_HANDLE lets through belongs to the MYSQL_CONN the
\* handle has, and no other statement refers to a MYSQL_CONN.
THEOREM ValidAreCurrent == HandleSpec => []ValidIsCurrent
BY AlwaysHandleInv, PTL DEF HandleInv

\* Every step that is possible at all is taken before freed memory was used.
LEMMA NextNeedsDefined == HandleNext => ~undefined
BY DEF HandleNext, DBConnect, DBDisconnect, DBQueryEx, DBSelectEx, DBPrepareEx,
       DBExecuteEx, DBSelectPreparedEx, DBSelectPreparedUnbufferedEx, Select,
       NothingStored, DBSelectUnbufferedEx, DBGetField, DBFetch, DBFreeResult,
       DBFreeStatement, ConnectionLost, IsOpen

\* With no freed address in the vector and no outlived result no step uses
\* freed memory.
LEMMA StepStaysDefined ==
    ASSUME HandleInv, HandleNext, Listed \subseteq Live,
           \A r \in Open : ~Outlived(r)
    PROVE  ~undefined'
<1>1. ~undefined
  BY NextNeedsDefined
<1>2. \A s \in Live : CanFree(s)
  BY LiveCanBeFreed
<1>3. \A s \in Listed : CanFree(s)
  BY <1>2
<1>4. ASSUME NEW s \in Statement, DBFreeStatement(s)
      PROVE  ~undefined'
  BY <1>1, <1>2, <1>4 DEF DBFreeStatement
<1>5. DBDisconnect \/ ConnectionLost => ~undefined'
  BY <1>1, <1>3 DEF DBDisconnect, ConnectionLost, DBReconnect, Invalidate
<1>6. ASSUME NEW s \in Statement, DBPrepareEx(s)
      PROVE  ~undefined'
  BY <1>1, <1>3, <1>6 DEF DBPrepareEx, DBReconnect, Invalidate
<1>7. DBQueryEx \/ DBSelectEx => ~undefined'
  BY <1>5 DEF DBQueryEx, DBSelectEx
<1>8. ASSUME NEW s \in Statement, DBExecuteEx(s)
      PROVE  ~undefined'
  BY <1>5, <1>8 DEF DBExecuteEx
<1>9. ASSUME NEW s \in Statement, NEW r \in Result,
             DBSelectPreparedEx(s, r) \/ DBSelectPreparedUnbufferedEx(s, r)
      PROVE  ~undefined'
  BY <1>1, <1>5, <1>9
     DEF DBSelectPreparedEx, DBSelectPreparedUnbufferedEx, Select, NothingStored
<1>10. ASSUME NEW r \in Result, DBSelectUnbufferedEx(r)
       PROVE  ~undefined'
  BY <1>1, <1>3, <1>10 DEF DBSelectUnbufferedEx, DBReconnect, Invalidate
<1>11. \A r \in Open : CanFetch(r) /\ HasConnection(r)
  BY FetchUnlessOutlived DEF CanFetch
<1>12. ASSUME NEW r \in Result, DBGetField(r) \/ DBFetch(r) \/ DBFreeResult(r)
       PROVE  ~undefined'
  BY <1>1, <1>11, <1>12 DEF DBGetField, DBFetch, DBFreeResult
<1> QED
  BY <1>1, <1>4, <1>5, <1>6, <1>7, <1>8, <1>9, <1>10, <1>12
     DEF HandleNext, DBConnect

\* Freed memory is used only through the address of a freed statement in the
\* vector, which erasing in DBFreeStatement (p2_dbapi.cpp:1062) what
\* std::remove only moves would repair, or through a result that outlived what
\* it refers to (mysqldrv.cpp:526-528, 606, 634).
THEOREM OnlyVectorOrResultDangles == HandleSpec => OnlyThroughVectorOrResult
<1>1. HandleInv /\ [HandleNext]_handleVars =>
          [undefined' => \/ Listed \ Live # {}
                        \/ \E r \in Open : Outlived(r)]_handleVars
  BY StepStaysDefined
<1> QED
  BY <1>1, AlwaysHandleInv, PTL DEF HandleSpec, OnlyThroughVectorOrResult

=============================================================================
