SPECIFICATION Spec
CONSTANTS
    Setups <- MCTp1
    SocketCapacity = 1
INVARIANT WholePipeToAll
CHECK_DEADLOCK FALSE
