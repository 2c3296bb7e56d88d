SPECIFICATION Spec
CONSTANTS
    Setups <- MCRing
    SocketCapacity = 1
INVARIANT RowReduced
CHECK_DEADLOCK FALSE
