\* Two clients, one after the other, and a server that may crash once.
SPECIFICATION Spec
CONSTANTS
    Form = {f1, f2}
    None = None
    DBFails = TRUE
    MaxClicks = 2
    MaxStarts = 2
    MaxSeconds = 2
    MaxCrashes = 1
INVARIANTS
    TypeOK
    DispatchedAsSent
    ToldAccountExists
CHECK_DEADLOCK FALSE
