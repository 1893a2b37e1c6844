SPECIFICATION Spec
CONSTANTS
  Node = {1, 2, 3, 4}
  InitialGraphs <- ShortGraphs
  Patches <- ShortPatches
  Signals <- PatchSignals
  MaxQueue = 1
  MaxPatches = 2
  MaxCrashes = 1
  ReattachMayThrow = TRUE
INVARIANT FirstCause
PROPERTIES StartedNodesFrozen ConfirmAppliesPreview
