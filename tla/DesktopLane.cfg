SPECIFICATION LaneSpec
CONSTANTS
    r1 = r1
    r2 = r2
    r3 = r3
    r4 = r4
    t1 = t1
    t2 = t2
    t3 = t3
    Run <- MCRun
    OwnerOf <- MCOwnerOf
    Adopted = {t1}
INVARIANTS OneOwner PositionTrue
PROPERTIES Fifo WaitEnds
CHECK_DEADLOCK FALSE
