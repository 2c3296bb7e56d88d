SPECIFICATION FairSpec
CONSTANTS
    Threads = {t1, t2}
    nSteps = 2
    MaxRuns = 2
INVARIANTS
    TypeOK
    Barrier
    SuccessMeansComplete
    QuiescentBetweenRuns
    TimerOutlivesSteps
PROPERTIES
    ImplementsContract
    FailedStepIsFinal
    ReturnsAfterSteps
    ReturnsAfterStall
    ShutdownJoins
