\* A handle with three connections, three addresses of statements, two of
\* results and five statements.
CONSTANTS
    Statement = {s1, s2, s3}
    Result = {r1, r2}
    Freed = Freed
    MaxConnections = 3
    MaxPrepares = 5

SPECIFICATION HandleSpec

INVARIANTS
    HandleTypeOK
    ValidIsListed
    ValidIsCurrent
PROPERTY
    OnlyThroughVectorOrResult

SYMMETRY Symmetry

CHECK_DEADLOCK FALSE
