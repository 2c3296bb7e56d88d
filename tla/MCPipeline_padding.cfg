SPECIFICATION Spec
CONSTANTS ppSize = 2
          Sessions <- MCPadding
INVARIANT PositionsInRange
CHECK_DEADLOCK FALSE
