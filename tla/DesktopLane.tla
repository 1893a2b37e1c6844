----------------------------- MODULE DesktopLane -----------------------------
(***************************************************************************)
(* The host-wide desktop lane: one FIFO queue for the user's real desktop  *)
(* session, shared by every run that drives the desktop or a headed        *)
(* browser.                                                                *)
(* Source: apps/daemon/lib/daemon/execution/operation-adapter.mts.         *)
(*                                                                         *)
(* A run acquires the lane for an owner: the run itself for exec.start,    *)
(* the task for a supervised execution, so that a retry of a task may join *)
(* the lane while the previous attempt has not yet let go of it.  Every    *)
(* method is synchronous and is one action.                                *)
(***************************************************************************)
EXTENDS Naturals, Sequences, SequencesExt

CONSTANTS
    Run,        \* the runs that ask for the lane
    OwnerOf,    \* [Run -> owner]: the owner a run acquires the lane for
    Adopted     \* owners of live processes a startup may find; {} when none

Owner  == {OwnerOf[r] : r \in Run} \cup Adopted
NoOwner == "nobody"

ASSUME OwnerAssumption == NoOwner \notin Owner

VARIABLES
    lane,       \* [owner, holds, queue, closed]: the DesktopLane object
    phase,      \* what the acquire() promise of each run came to
    position,   \* the position each run was last told, 0 for none
    aborted,    \* the runs whose AbortSignal fired
    adopted     \* whether startup adopted the lane for a surviving process

laneVars == <<lane, phase, position, aborted, adopted>>

Phases == {"idle", "waiting", "held", "released", "refused"}

\* The 1-based place of a run in the queue, 0 when it is not waiting.
PositionOf(r, queue) ==
    IF Contains(queue, r) THEN CHOOSE i \in DOMAIN queue : queue[i] = r ELSE 0

\* #updatePositions tells every waiter its place; others keep what they know.
Told(queue) ==
    [r \in Run |-> IF Contains(queue, r) THEN PositionOf(r, queue) ELSE position[r]]

LaneInit ==
    /\ lane \in [owner : {NoOwner} \cup Adopted, holds : {0, 1}, queue : {<<>>},
                 closed : {FALSE}]
    /\ lane.holds = IF lane.owner = NoOwner THEN 0 ELSE 1    \* adoptOwner
    /\ adopted = (lane.owner # NoOwner)
    /\ phase = [r \in Run |-> "idle"]
    /\ position = [r \in Run |-> 0]
    /\ aborted = {}

-----------------------------------------------------------------------------
\* acquire(): refused, joined, taken at once or queued.

Refuse(r) ==
    /\ lane.closed \/ r \in aborted
    /\ phase' = [phase EXCEPT ![r] = "refused"]
    /\ UNCHANGED <<lane, position>>

Join(r) ==
    /\ lane.owner = OwnerOf[r]
    /\ lane' = [lane EXCEPT !.holds = @ + 1]
    /\ phase' = [phase EXCEPT ![r] = "held"]
    /\ UNCHANGED position

Take(r) ==
    /\ lane.owner = NoOwner /\ lane.queue = <<>>
    /\ lane' = [lane EXCEPT !.owner = OwnerOf[r], !.holds = 1]
    /\ phase' = [phase EXCEPT ![r] = "held"]
    /\ UNCHANGED position

Enqueue(r) ==
    /\ lane.owner # OwnerOf[r]
    /\ lane.owner # NoOwner \/ lane.queue # <<>>
    /\ lane' = [lane EXCEPT !.queue = Append(@, r)]
    /\ phase' = [phase EXCEPT ![r] = "waiting"]
    /\ position' = Told(lane'.queue)

Acquire(r) ==
    /\ phase[r] = "idle"
    /\ \/ Refuse(r)
       \/ ~lane.closed /\ r \notin aborted /\ (Join(r) \/ Take(r) \/ Enqueue(r))
    /\ UNCHANGED <<aborted, adopted>>

\* A queue of distinct runs after rs left it: the others, in their order.  There
\* is exactly one.
Without(queue, rs) ==
    {q \in SetToSeqs(ToSet(queue) \ rs) :
        \A i, j \in DOMAIN q : i < j => PositionOf(q[i], queue) < PositionOf(q[j], queue)}

AbortSilent(rs) ==      \* mutant of Abort: the others keep their old positions
    /\ aborted' = aborted \cup rs
    /\ \E queue \in Without(lane.queue, rs) : lane' = [lane EXCEPT !.queue = queue]
    /\ phase' = [r \in Run |-> IF r \in rs /\ phase[r] = "waiting" THEN "refused"
                               ELSE phase[r]]
    /\ UNCHANGED <<position, adopted>>

\* Abort signals fire: a waiter leaves the queue and is refused.
Abort(rs) ==
    /\ aborted' = aborted \cup rs
    /\ \E queue \in Without(lane.queue, rs) :
         /\ lane' = [lane EXCEPT !.queue = queue]
         /\ position' = Told(queue)
    /\ phase' = [r \in Run |-> IF r \in rs /\ phase[r] = "waiting" THEN "refused"
                               ELSE phase[r]]
    /\ UNCHANGED adopted

-----------------------------------------------------------------------------
\* release(): drops one hold, the last one hands the lane to the next waiter.

KeepHeld(r) ==
    /\ lane.holds > 1
    /\ lane' = [lane EXCEPT !.holds = @ - 1]
    /\ phase' = [phase EXCEPT ![r] = "released"]
    /\ UNCHANGED position

GrantKeepsOwner(r) ==   \* mutant of GrantNext: the owner is not reset
    /\ lane.holds = 1
    /\ lane' = [lane EXCEPT !.holds = 0]
    /\ phase' = [phase EXCEPT ![r] = "released"]
    /\ UNCHANGED position

GrantNobody(r) ==       \* mutant of GrantNext: the lane is freed, nobody is granted
    /\ lane.holds = 1
    /\ lane' = [lane EXCEPT !.owner = NoOwner, !.holds = 0]
    /\ phase' = [phase EXCEPT ![r] = "released"]
    /\ UNCHANGED position

GrantLast(r) ==         \* mutant of GrantNext: the newest waiter is granted
    /\ lane.holds = 1 /\ lane.queue # <<>>
    /\ lane' = [lane EXCEPT !.owner = OwnerOf[Last(lane.queue)], !.queue = Front(@)]
    /\ phase' = [phase EXCEPT ![r] = "released", ![Last(lane.queue)] = "held"]
    /\ UNCHANGED position

\* The first waiter that was not aborted gets the lane; the aborted ones before
\* it are refused.
GrantTo(r, i) ==
    LET next    == lane.queue[i]
        skipped == {lane.queue[j] : j \in 1..(i - 1)}
        rest    == SubSeq(lane.queue, i + 1, Len(lane.queue))
    IN /\ next \notin aborted /\ skipped \subseteq aborted
       /\ lane' = [lane EXCEPT !.owner = OwnerOf[next], !.holds = 1, !.queue = rest]
       /\ phase' = [w \in Run |-> IF w = r THEN "released" ELSE IF w = next THEN "held"
                                  ELSE IF w \in skipped THEN "refused" ELSE phase[w]]
       /\ position' = [Told(rest) EXCEPT ![next] = 0]

NobodyNext(r) ==
    /\ ToSet(lane.queue) \subseteq aborted
    /\ lane' = [lane EXCEPT !.owner = NoOwner, !.holds = 0, !.queue = <<>>]
    /\ phase' = [w \in Run |-> IF w = r THEN "released"
                               ELSE IF Contains(lane.queue, w) THEN "refused" ELSE phase[w]]
    /\ UNCHANGED position

GrantNext(r) ==
    /\ lane.holds = 1
    /\ NobodyNext(r) \/ \E i \in DOMAIN lane.queue : GrantTo(r, i)

Release(r) ==
    /\ phase[r] = "held"
    /\ KeepHeld(r) \/ GrantNext(r)
    /\ UNCHANGED <<aborted, adopted>>

\* close(): waiters are rejected, the holder is left to finish.
CloseLane ==
    /\ ~lane.closed
    /\ lane' = [lane EXCEPT !.closed = TRUE, !.queue = <<>>]
    /\ phase' = [r \in Run |-> IF phase[r] = "waiting" THEN "refused" ELSE phase[r]]
    /\ UNCHANGED <<position, aborted, adopted>>

LaneNext ==
    \/ \E r \in Run : Acquire(r) \/ Abort({r}) \/ Release(r)
    \/ CloseLane

\* A holder's run ends and its preparation is released; nothing else is owed.
LaneSpec ==
    LaneInit /\ [][LaneNext]_laneVars /\ \A r \in Run : WF_laneVars(Release(r))

-----------------------------------------------------------------------------
Holders == {r \in Run : phase[r] = "held"}

LaneTypeOK ==
    /\ lane \in [owner : Owner \cup {NoOwner}, holds : Nat, queue : Seq(Run), closed : BOOLEAN]
    /\ phase \in [Run -> Phases]
    /\ position \in [Run -> Nat]
    /\ aborted \subseteq Run
    /\ adopted \in BOOLEAN

(* One owner at a time has the desktop, however attempts of one task join  *)
(* and leave, waiters give up and the lane closes; while a process that    *)
(* survived a restart was adopted, no run of another owner gets it.  And   *)
(* the lane is never held by nobody: without an adopted process, an owner  *)
(* is recorded only while one of its runs still has to release it.         *)
OneOwner ==
    /\ \A r \in Holders : OwnerOf[r] = lane.owner
    /\ lane.owner = NoOwner => Holders = {}
    /\ lane.owner # NoOwner => adopted \/ Holders # {}

(* The position a waiting run shows is its real place in the queue, after  *)
(* any order of arrivals, cancellations and grants before it.              *)
PositionTrue ==
    /\ \A i \in DOMAIN lane.queue : position[lane.queue[i]] = i
    /\ \A r \in Holders : position[r] = 0

(* First come, first served: a waiting run is passed over only by the      *)
(* attempts of the task that has the lane, never by a later waiter.        *)
Fifo ==
    [][\A i, j \in DOMAIN lane.queue :
         (i < j /\ phase'[lane.queue[j]] = "held") => phase'[lane.queue[i]] # "waiting"]_laneVars

(* Nobody waits for ever: every waiter is granted the lane or refused once *)
(* holders release what they hold, unless startup adopted the lane for a   *)
(* surviving process (nothing ever releases it then).                      *)
WaitEnds ==
    \A r \in Run : (phase[r] = "waiting" /\ ~adopted) ~> phase[r] # "waiting"
=============================================================================
