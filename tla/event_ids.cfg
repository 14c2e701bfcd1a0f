\* Three ids for five events: the counter wraps, onto the listener's id too.
SPECIFICATION Spec
CONSTANTS
    Event = {l, e1, e2, e3, e4}
    Listener = l
    None = None
    WM_USER = 1
    MaxEventID = 3
    MaxSessions = 2
INVARIANTS
    TypeOK
    NoDangling
    ListenerStays
    FoundUntilWrap
CHECK_DEADLOCK FALSE
