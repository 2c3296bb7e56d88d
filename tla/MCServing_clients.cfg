SPECIFICATION FairSpec
CONSTANTS
    nClients = 3
    nBackends = 2
    maxQueue = 2
    maxInflightPerBackend = 1
    Workloads <- MCConversations
    Contents <- MCContents
    Answers <- MCAnswers
    seqLen = 6
    prefillBatchCap = 2
INVARIANTS TypeOK InflightExact ActiveExact AdmissionBound LoadIsCounted CacheBacked
PROPERTY EveryClientLeaves
CHECK_DEADLOCK FALSE
