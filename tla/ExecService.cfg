SPECIFICATION Spec
CONSTANTS
    a = a
    b = b
    Run = {a, b}
    Requests <- MCRequests
    Sizes = {1, 2}
    MaxRetainedEvents = 2
    MaxRetainedBytes = 3
    MaxCompletedRuns = 1
    MaxCompletedBytes = 2
INVARIANTS TypeOK NoOrphan ActiveSeen OneDesktop ReaderComplete
PROPERTIES TerminalFinal CloseEnds CancelTakes ReaderEnds
CHECK_DEADLOCK FALSE
