SPECIFICATION StartupFairSpec
CONSTANTS nWorkers = 3
          maxCrashes = 1
          nLayers = 2
          spSizes = {1}
          socketBuffer = 1
INVARIANTS TypeOK MeshComplete WeightsInPlace RootRunsLast
PROPERTY StartupCompletes
CHECK_DEADLOCK FALSE
