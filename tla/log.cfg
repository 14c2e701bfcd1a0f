\* Both policies; a history of three files; a day that is longer than 86400
\* seconds; one fault, one restart.
SPECIFICATION FairSpec
CONSTANTS
    Writer = {w1, w2}
    RotationPolicies = {"daily", "by_size"}
    fMaxLogSize = 1
    fLogHistorySize = 2
    Day86400 = 2
    DayBegins <- MCDayBegins
    MaxClock = 5
    MaxRecords = 5
    MaxFaults = 1
    MaxCrashes = 1
INVARIANTS
    TypeOK
    InOrder
    NothingLost
    FlagMatchesFile
PROPERTIES
    Drained
CHECK_DEADLOCK FALSE
