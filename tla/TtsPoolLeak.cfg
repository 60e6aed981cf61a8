SPECIFICATION Spec
CONSTANTS
    c1 = c1
    c2 = c2
    c3 = c3
    c4 = c4
    e1 = e1
    e2 = e2
    NoConn = NoConn
    Clients <- MCOne
    Conns <- MCTwoConns
    MaxConnections = 1
    Cancellable <- MCOne
    Blanks = FALSE
    MaxCalls = 1
CHECK_DEADLOCK FALSE
INVARIANTS
    NoSlotLost
