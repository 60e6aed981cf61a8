SPECIFICATION Spec
CONSTANTS
    c1 = c1
    c2 = c2
    c3 = c3
    c4 = c4
    e1 = e1
    e2 = e2
    NoConn = NoConn
    Clients <- MCFour
    Conns <- MCTwoConns
    MaxConnections = 2
    Cancellable <- MCNone
    Blanks = FALSE
    MaxCalls = 2
CHECK_DEADLOCK FALSE
INVARIANTS
    NoReleaseLost
SYMMETRY MCSymFour
