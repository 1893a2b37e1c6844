---------------------------- MODULE MCDesktopLane ----------------------------
EXTENDS DesktopLane

CONSTANTS r1, r2, r3, r4, t1, t2, t3

\* Two attempts of one task and two runs of other owners.
MCRun == {r1, r2, r3, r4}
MCOwnerOf == r1 :> t1 @@ r2 :> t1 @@ r3 :> t2 @@ r4 :> t3
=============================================================================
