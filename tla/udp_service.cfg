\* Two task threads serve two clients.
SPECIFICATION FairSpec
CONSTANTS
    Client = {c1, c2}
    Task = {k1, k2, k3}
    None = None
    NumTaskThreads = 2
    MaxArrivals = 3
INVARIANTS
    TypeOK
    OneTurn
    ReadIsReady
PROPERTY
    ServesInOrder
CHECK_DEADLOCK FALSE
