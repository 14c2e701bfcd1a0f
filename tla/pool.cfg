\* Four callers compete for a pool that grows from one connection to two.
SPECIFICATION FairSpec
CONSTANTS
    Connection = {d1, d2, d3}
    Caller = {t1, t2, t3, t4}
    NULL = NULL
    m_basePoolSize = 1
    m_maxPoolSize = 2
INVARIANTS
    TypeOK
    Exclusive
    WithinMax
PROPERTY
    ServedOrOvertaken
CHECK_DEADLOCK FALSE
