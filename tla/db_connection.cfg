SPECIFICATION Spec
CONSTANTS
    Thread = {t1, t2}
    None = None
    NoResult = NoResult
    MaxBegun = 2
SYMMETRY Symmetry
INVARIANTS
    TypeOK
    LocksAccounted
    RowsOwned
    TransactionOpen
    SafeAlone
CHECK_DEADLOCK FALSE
