\* The peer may reset its connection while data is unread.
SPECIFICATION Spec
CONSTANTS
    Conn = {c1}
    Handle = {h1}
    Listener = Listener
    None = None
    AbruptReset = TRUE
    NumTaskThreads = 2
    MaxSends = 1
    Task <- MCTask
INVARIANT
    DeletedWhenAllRefTasksFinished
CHECK_DEADLOCK FALSE
