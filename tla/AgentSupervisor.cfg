SPECIFICATION Spec
CONSTANTS
    a = a
    b = b
    c = c
    dir = dir
    file = file
    Exec = {a, b, c}
    Writer = {a, b}
    RepoOf <- MCRepoOf
    Writes <- MCWrites
    Inside <- MCInside
    MaxConcurrent = 1
    MaxRestarts = 1
INVARIANTS OneWriter Supervised NoOrphan NoStranded
PROPERTIES TerminalFinal StopTakes
CHECK_DEADLOCK FALSE
