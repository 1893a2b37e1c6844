SPECIFICATION Spec
CONSTANTS
  Node = {1, 2, 3, 4}
  InitialGraphs <- LifecycleGraphs
  Patches <- NoPatches
  Signals <- AllSignals
  MaxQueue = 2
  MaxPatches = 0
  MaxCrashes = 1
  ReattachMayThrow = FALSE
INVARIANTS TypeOK NoStuckGraph NoLostTerminal NoSilentRedispatch
PROPERTIES DispatchOnlyWhileRunning TerminalIsFinal ImplementsLifecycle
