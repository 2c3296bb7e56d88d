SPECIFICATION StartupSpec
CONSTANTS nWorkers = 3
          maxCrashes = 0
          nLayers = 2
          spSizes = {2}
          socketBuffer = 1
INVARIANT WeightsInPlace
CHECK_DEADLOCK FALSE
