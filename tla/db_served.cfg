SPECIFICATION FairSpec
CONSTANTS
    Thread = {t1, t2}
    None = None
    NoResult = NoResult
    MaxBegun = 0
PROPERTY
    Served
CHECK_DEADLOCK FALSE
