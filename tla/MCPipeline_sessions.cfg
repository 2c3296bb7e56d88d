SPECIFICATION FairSpec
CONSTANTS ppSize = 4
          Sessions <- MCSessions
INVARIANTS TypeOK CleanSession LogitsAnswerRequest DeltaMeetsItsBase KvPrefixIsReal SkipsAreBounded
PROPERTY SessionEnds
CHECK_DEADLOCK FALSE
