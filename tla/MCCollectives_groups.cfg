SPECIFICATION FairSpec
CONSTANTS
    Setups <- MCGroups
    SocketCapacity = 1
INVARIANTS StarReduced SlicesGathered RootRowsEverywhere KvGathered WiresDrained
PROPERTY SyncsComplete
CHECK_DEADLOCK FALSE
