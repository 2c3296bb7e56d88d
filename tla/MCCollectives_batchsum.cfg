SPECIFICATION Spec
CONSTANTS
    Setups <- MCChunk
    SocketCapacity = 1
INVARIANT AllReduced
CHECK_DEADLOCK FALSE
