SPECIFICATION Spec
CONSTANTS
  Node = {1, 2, 3, 4}
  InitialGraphs <- ShortGraphs
  Patches <- NoPatches
  Signals <- StartOnly
  MaxQueue = 1
  MaxPatches = 0
  MaxCrashes = 1
  ReattachMayThrow = FALSE
INVARIANTS PausesOnFailure
