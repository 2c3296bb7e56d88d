SPECIFICATION FairSpec
CONSTANTS ppSize = 4
          Sessions <- MCPoll
PROPERTY PollReturns
CHECK_DEADLOCK FALSE
