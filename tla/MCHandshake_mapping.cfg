SPECIFICATION Spec
CONSTANTS nWorkers = 3
          maxCrashes = 0
INVARIANT PeersAreWhereMapped
CHECK_DEADLOCK FALSE
