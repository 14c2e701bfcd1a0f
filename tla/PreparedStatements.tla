------------------------- MODULE PreparedStatements -------------------------
(***************************************************************************)
(* A handle of p2_dbapi, the statements prepared on it, the results that   *)
(* refer to it, and what happens to them when MySQL reports that the       *)
(* connection is lost.                                                     *)
(*                                                                         *)
(* The pool gives a handle to one caller at a time (ConnectionPool), so    *)
(* calls do not overlap here.  Statements and results outlive the loss of  *)
(* their connection: their owner still has the pointers.  A buffered       *)
(* result of a text query refers to its own rows only and is left out.     *)
(***************************************************************************)
EXTENDS Naturals, Sequences, FiniteSets

CONSTANTS
    Statement,       \* the addresses malloc gives to a db_statement_t
    Result,          \* the addresses malloc gives to a result
    Freed,           \* what is at an address that holds none
    MaxConnections,  \* bound: the MYSQL_CONNs of a handle, one after the other
    MaxPrepares      \* bound: statements prepared between two of them

ASSUME StatementAssumption ==
    /\ MaxConnections \in Nat \ {0} /\ MaxPrepares \in Nat
    /\ Freed \notin Statement \cup Result
    /\ Freed \notin [m_connection : BOOLEAN, m_statement : Nat]
    /\ Freed \notin [connection : Nat, rows : {"stored", "pending", "noMore"},
                      statement : Statement \cup {Freed}, prepared : BOOLEAN]

VARIABLES
    m_connection,          \* the number of the MYSQL_CONN; 0: no handle
    m_preparedStatements,  \* the addresses in the vector of the handle
    statement,             \* what is at each address of a statement
    result,                \* what is at each address of a result
    bound,                 \* the result whose lengthFields mysql_stmt_fetch
                           \* writes to, for each statement
    undefined              \* freed memory was used; anything may follow

results == <<result, bound>>
statements == <<m_connection, m_preparedStatements, statement>>
handleVars == <<statements, results, undefined>>

\* m_connection is FALSE for NULL.  m_statement is the number of the MYSQL_CONN
\* the MYSQL_STATEMENT refers to, 0 for NULL.
DbStatement ==
    [m_connection : BOOLEAN, m_statement : 0 .. MaxConnections]

NullStatement == [m_connection |-> FALSE, m_statement |-> 0]

\* The rows are stored in the MYSQL_STMT (MYSQL_RESULT), or are fetched one by
\* one (MYSQL_UNBUFFERED_RESULT): some are pending, or noMoreRows.  statement
\* is the owner of the MYSQL_STMT the result refers to, Freed when that was
\* freed; the result of a text query has none.
DbResult ==
    [connection : 1 .. MaxConnections, rows : {"stored", "pending", "noMore"},
     statement : Statement \cup {Freed}, prepared : BOOLEAN]

Open == {r \in Result : result[r] # Freed}

Live == {s \in Statement : statement[s] # Freed}

\* The macro IS_VALID_STATEMENT_HANDLE.
IsValid(s) == s \in Live /\ statement[s].m_connection

Listed == {m_preparedStatements[i] : i \in DOMAIN m_preparedStatements}

-----------------------------------------------------------------------------
(* std::remove, which does not shorten the vector                          *)

KeptPositions(list, s) == {i \in DOMAIN list : list[i] # s}

\* Where the element at a kept position goes.
NewPosition(list, s, i) ==
    Cardinality({k \in KeptPositions(list, s) : k <= i})

\* The elements other than s move to the front, and what is behind them stays
\* as it was.
Removed(list, s) ==
    [p \in DOMAIN list |->
        IF \E i \in KeptPositions(list, s) : NewPosition(list, s, i) = p
        THEN list[CHOOSE i \in KeptPositions(list, s) :
                      NewPosition(list, s, i) = p]
        ELSE list[p]]

-----------------------------------------------------------------------------
(* Losing the connection                                                   *)

\* DrvFreeStatement locks a mutex of the MYSQL_CONN the statement refers to.
CanFree(s) == s \in Live /\ statement[s].m_statement \in {0, m_connection}

UsesFreedMemory == undefined' = TRUE /\ UNCHANGED <<statements, results>>

\* Mutant: the pointer to the MYSQL_STATEMENT stays.
InvalidatedKeeps ==
    [s \in Statement |->
        IF s \in Listed THEN [statement[s] EXCEPT !.m_connection = FALSE]
        ELSE statement[s]]

\* Mutant: the pointer to the handle stays, so the statement passes for valid.
InvalidatedStaysValid ==
    [s \in Statement |->
        IF s \in Listed THEN [statement[s] EXCEPT !.m_statement = 0]
        ELSE statement[s]]

\* What InvalidatePreparedStatements makes of the statements.
Invalidated ==
    [s \in Statement |-> IF s \in Listed THEN NullStatement ELSE statement[s]]

\* The handle gets MYSQL_CONN c and an empty vector, if all that is in the
\* vector can be freed.
Invalidate(c, Then) ==
    IF \A s \in Listed : CanFree(s)
    THEN m_connection' = c /\ Then /\ UNCHANGED undefined
    ELSE UsesFreedMemory

\* DBReconnect tries until DrvConnect succeeds; Then is what the call that met
\* the loss does afterwards.
DBReconnect(Then) ==
    /\ m_connection < MaxConnections
    /\ Invalidate(m_connection + 1, Then)

EmptyVector == m_preparedStatements' = << >> /\ statement' = Invalidated

NothingPrepared == EmptyVector /\ UNCHANGED results

-----------------------------------------------------------------------------
(* Calls on a handle.  Those that change nothing are left out, the ones    *)
(* that fail for another reason than a lost connection among them.         *)

IsOpen == m_connection # 0 /\ ~undefined

\* Mutant: what DrvPrepare returned is entered in the vector.
NewStatementOfDriver(s, c, list, stmts) ==
    /\ statement' =
           [stmts EXCEPT ![s] = [m_connection |-> TRUE, m_statement |-> c]]
    /\ m_preparedStatements' = Append(list, statement'[s])
    /\ UNCHANGED results

\* A new statement at address s, on MYSQL_CONN c.
NewStatement(s, c, list, stmts) ==
    /\ statement' =
           [stmts EXCEPT ![s] = [m_connection |-> TRUE, m_statement |-> c]]
    /\ m_preparedStatements' = Append(list, s)
    /\ UNCHANGED results

\* A statement is prepared at once, or on the second attempt, made after a
\* reconnect, or not at all.
DBPrepareEx(s) ==
    /\ IsOpen /\ s \notin Live
    /\ \/ /\ Len(m_preparedStatements) < MaxPrepares
          /\ NewStatement(s, m_connection, m_preparedStatements, statement)
          /\ UNCHANGED <<m_connection, undefined>>
       \/ DBReconnect(NewStatement(s, m_connection + 1, << >>, Invalidated))
       \/ DBReconnect(NothingPrepared)

\* MySQL reports that the connection is lost, and the call reconnects.
ConnectionLost == IsOpen /\ DBReconnect(NothingPrepared)

\* A text query is sent again after that, a statement cannot be.
DBQueryEx == ConnectionLost
DBSelectEx == ConnectionLost
DBExecuteEx(s) == IsValid(s) /\ ConnectionLost

\* A new result at address r that refers to MYSQL_CONN c.
NewResult(r, c, rows, s, prepared) ==
    result' = [result EXCEPT ![r] =
        [connection |-> c, rows |-> rows, statement |-> s,
         prepared |-> prepared]]

\* Also on the second attempt, after a reconnect.
DBSelectUnbufferedEx(r) ==
    /\ IsOpen /\ r \notin Open
    /\ \/ /\ NewResult(r, m_connection, "pending", Freed, FALSE)
          /\ UNCHANGED <<statements, bound, undefined>>
       \/ DBReconnect(/\ EmptyVector /\ UNCHANGED bound
                      /\ NewResult(r, m_connection + 1, "pending", Freed, FALSE))
       \/ DBReconnect(NothingPrepared)

\* mysql_stmt_bind_result lets the MYSQL_STMT write to the lengthFields of the
\* new result, and of no other from now on.
Select(s, r, rows) ==
    /\ IsOpen /\ IsValid(s) /\ r \notin Open
    /\ NewResult(r, m_connection, rows, s, TRUE)
    /\ bound' = [bound EXCEPT ![s] = r]
    /\ UNCHANGED <<statements, undefined>>

\* If mysql_stmt_store_result fails, the lengthFields are freed and stay bound.
NothingStored(s) ==
    /\ IsOpen /\ IsValid(s)
    /\ bound' = [bound EXCEPT ![s] = Freed]
    /\ UNCHANGED <<statements, result, undefined>>

DBSelectPreparedEx(s, r) ==
    \/ Select(s, r, "stored")
    \/ NothingStored(s)
    \/ IsValid(s) /\ ConnectionLost

DBSelectPreparedUnbufferedEx(s, r) ==
    \/ Select(s, r, "pending")
    \/ IsValid(s) /\ ConnectionLost

-----------------------------------------------------------------------------
(* The use of a result.  Nobody is told that its connection is gone.       *)

\* The query lock is locked, or unlocked, and rows come from the MYSQL.
HasConnection(r) == result[r].connection = m_connection

\* The MYSQL_STMT was not closed.
HasStatement(r) ==
    LET s == result[r].statement
    IN  s \in Live /\ statement[s].m_statement # 0

\* mysql_stmt_fetch writes the lengths of a row to memory that is still there.
HasLengths(r) == bound[result[r].statement] \in Open

CanFetch(r) ==
    /\ HasConnection(r)
    /\ result[r].prepared => HasStatement(r) /\ HasLengths(r)

\* Another row of a buffered result, through the MYSQL_STMT that stored it.
DBGetField(r) ==
    /\ ~undefined /\ r \in Open /\ result[r].rows = "stored"
    /\ ~CanFetch(r)
    /\ UsesFreedMemory

\* The next row, or none.
DBFetch(r) ==
    /\ ~undefined /\ r \in Open /\ result[r].rows = "pending"
    /\ IF CanFetch(r)
       THEN /\ result' = [result EXCEPT ![r].rows = "noMore"]
            /\ UNCHANGED <<statements, bound, undefined>>
       ELSE UsesFreedMemory

\* An unbuffered result that was not read to the end still has the query lock,
\* and the rest of its rows is read.
DBFreeResult(r) ==
    /\ ~undefined /\ r \in Open
    /\ IF result[r].rows = "pending" => HasConnection(r)
       THEN /\ result' = [result EXCEPT ![r] = Freed]
            /\ bound' = [s \in Statement |->
                             IF bound[s] = r THEN Freed ELSE bound[s]]
            /\ UNCHANGED <<statements, undefined>>
       ELSE UsesFreedMemory

-----------------------------------------------------------------------------
\* Mutant: the last element is erased, whichever it is.
WithoutLast(s) ==
    IF IsValid(s)
    THEN SubSeq(m_preparedStatements, 1, Len(m_preparedStatements) - 1)
    ELSE m_preparedStatements

\* The vector after s is freed.  A statement that was invalidated has lost the
\* way to it.
Without(s) ==
    IF IsValid(s) THEN Removed(m_preparedStatements, s)
    ELSE m_preparedStatements

\* The owner of a statement frees it, whether or not it is still valid.
DBFreeStatement(s) ==
    /\ ~undefined /\ s \in Live
    /\ IF CanFree(s)
       THEN /\ m_preparedStatements' = Without(s)
            /\ statement' = [statement EXCEPT ![s] = Freed]
            /\ result' = [r \in Result |->
                   IF r \in Open /\ result[r].statement = s
                   THEN [result[r] EXCEPT !.statement = Freed]
                   ELSE result[r]]
            /\ UNCHANGED <<m_connection, bound, undefined>>
       ELSE UsesFreedMemory

\* The pool closes only handles that nobody uses.
DBDisconnect ==
    IsOpen /\ Live = {} /\ Open = {} /\ Invalidate(0, NothingPrepared)

DBConnect ==
    /\ ~undefined /\ m_connection = 0
    /\ m_connection' = 1
    /\ UNCHANGED <<m_preparedStatements, statement, results, undefined>>

-----------------------------------------------------------------------------
HandleInit ==
    /\ m_connection = 0
    /\ m_preparedStatements = << >>
    /\ statement = [s \in Statement |-> Freed]
    /\ result = [r \in Result |-> Freed]
    /\ bound = [s \in Statement |-> Freed]
    /\ undefined = FALSE

HandleNext ==
    \/ DBConnect \/ DBDisconnect \/ DBQueryEx \/ DBSelectEx
    \/ \E s \in Statement :
           \/ DBPrepareEx(s) \/ DBFreeStatement(s) \/ DBExecuteEx(s)
           \/ \E r \in Result :
                  DBSelectPreparedEx(s, r) \/ DBSelectPreparedUnbufferedEx(s, r)
    \/ \E r \in Result :
           \/ DBSelectUnbufferedEx(r)
           \/ DBGetField(r) \/ DBFetch(r) \/ DBFreeResult(r)

HandleSpec == HandleInit /\ [][HandleNext]_handleVars

-----------------------------------------------------------------------------
(* Properties                                                              *)

\* Every variable holds a value of its type.
HandleTypeOK ==
    /\ m_connection \in 0 .. MaxConnections
    /\ m_preparedStatements \in Seq(Statement)
    /\ statement \in [Statement -> DbStatement \cup {Freed}]
    /\ result \in [Result -> DbResult \cup {Freed}]
    /\ bound \in [Statement -> Result \cup {Freed}]
    /\ undefined \in BOOLEAN

\* InvalidatePreparedStatements reaches every statement that needs it: a
\* valid one is in the vector, whatever std::remove moved and although freed
\* addresses stay in the vector and are given out again.
ValidIsListed == \A s \in Statement : IsValid(s) => s \in Listed

\* A statement that passes IS_VALID_STATEMENT_HANDLE belongs to the connection
\* the handle has now, and no other refers to any connection: nothing is
\* executed on, or freed through, a MYSQL_CONN that DBReconnect deleted.
ValidIsCurrent ==
    \A s \in Live :
        statement[s].m_statement = IF IsValid(s) THEN m_connection ELSE 0

\* What makes a result unusable, as its owner sees it: a call had to reconnect
\* since, or the owner freed the statement before the result, or freed a later
\* result of the statement.
Outlived(r) ==
    \/ result[r].connection # m_connection
    \/ result[r].prepared /\ result[r].statement = Freed
    \/ result[r].prepared /\ bound[result[r].statement] = Freed

\* Freed memory is used through an address that stayed in the vector when its
\* statement was freed, or through a result that outlived its connection, its
\* statement or a later result, and in no other way.  An owner can always free
\* its own statement, and read a result that is not outlived, whatever
\* happened to other statements and to earlier connections.
OnlyThroughVectorOrResult ==
    [][undefined' => \/ Listed \ Live # {}
                     \/ \E r \in Open : Outlived(r)]_handleVars

=============================================================================
