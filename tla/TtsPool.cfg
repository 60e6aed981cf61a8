SPECIFICATION FairSpec
CONSTANTS
    c1 = c1
    c2 = c2
    c3 = c3
    c4 = c4
    e1 = e1
    e2 = e2
    NoConn = NoConn
    Clients <- MCTwo
    Conns <- MCTwoConns
    MaxConnections = 1
    Cancellable <- MCTwo
    Blanks = TRUE
    MaxCalls = 2
CHECK_DEADLOCK FALSE
INVARIANTS
    TypeOK
    ConnectionsBounded
    LeaseHolds
    ReplyReachesAsker
    SlotsAccounted
    IdleAccounted
    GaugeAccounted
    RoomTold
PROPERTIES
    AcquireEnds
    PoolDrains
