SPECIFICATION FairSpec
CONSTANTS
  Node = {1, 2, 3, 4, 5}
  InitialGraphs <- ControlGraphs
  Patches <- NoPatches
  Signals <- AllSignals
  MaxQueue = 1
  MaxPatches = 0
  MaxCrashes = 1
  ReattachMayThrow = FALSE
INVARIANT DepsRespected
PROPERTIES CancelConverges RunSettles
