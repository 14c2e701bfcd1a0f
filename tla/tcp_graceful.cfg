\* No peer resets while data is unread; handles may be reused.
SPECIFICATION FairSpec
CONSTANTS
    Conn = {c1, c2}
    Handle = {h1, h2}
    Listener = Listener
    None = None
    AbruptReset = FALSE
    NumTaskThreads = 2
    MaxSends = 2
    Task <- MCTask
INVARIANTS
    TypeOK
    OneTurn
    NoUseAfterFree
    OnlySignalOutlivesTask
    DeletedWhenAllRefTasksFinished
PROPERTIES
    SwitchedOffByOwnMessage
    ServesConnections
    Reclaimed
CHECK_DEADLOCK FALSE
