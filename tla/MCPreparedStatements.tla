------------------------ MODULE MCPreparedStatements ------------------------
(***************************************************************************)
(* The instance of PreparedStatements that TLC checks, and a check of      *)
(* Removed against the definition of std::remove by SelectSeq.             *)
(***************************************************************************)
EXTENDS PreparedStatements, TLC

Symmetry == Permutations(Statement) \cup Permutations(Result)

SmallLists == UNION {[1 .. n -> 1 .. 3] : n \in 0 .. 5}

\* The kept elements in order, then the tail of the vector unchanged.
RemovedReference(list, s) ==
    LET kept == SelectSeq(list, LAMBDA x : x # s)
    IN  kept \o SubSeq(list, Len(kept) + 1, Len(list))

ASSUME RemovedAsReference ==
    \A list \in SmallLists, s \in 1 .. 3 :
        Removed(list, s) = RemovedReference(list, s)

=============================================================================
