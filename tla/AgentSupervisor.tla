--------------------------- MODULE AgentSupervisor ---------------------------
(***************************************************************************)
(* Supervised executions: the attempts of task runs, their rows in the     *)
(* database, the queue they wait in, the repository write locks they need  *)
(* and the agent processes they become.                                    *)
(* Source: apps/daemon/lib/daemon/execution/agent-supervisor.mts and       *)
(* repo-write-locks.mts.                                                   *)
(*                                                                         *)
(* Code between two awaits is one action.  promoteQueued() is a loop that  *)
(* awaits every launch: while promoter.pc is "scan" it runs and nothing    *)
(* else does, at "await" it is suspended in a launch.  A session belongs   *)
(* to exactly the registered executions whose row is running.  Database    *)
(* transactions do not fail, except where a stream's consumer writes one.  *)
(*                                                                         *)
(* child[e] is "live" while somebody has the process in hand.  "loose":    *)
(* its session tried to stop it and could not confirm that it did.         *)
(* "left": the consumer of its stream failed, and nobody stopped it.       *)
(* "stray": alive after a restart, with no active row to find it by.       *)
(***************************************************************************)
EXTENDS Naturals, Sequences, SequencesExt, FiniteSets

CONSTANTS
    Exec,               \* executions, each admitted at most once
    Writer,             \* those that need a repository write lock
    RepoOf,             \* [Exec -> repository]
    Writes,             \* [Exec -> SUBSET path]: the exact files, {} for the whole repository
    Inside,             \* pairs <<path, directory it is in>>
    MaxConcurrent,      \* MAX_CONCURRENT_EXECUTIONS
    MaxRestarts         \* bound: restarts of the daemon

ASSUME ExecAssumption == IsFiniteSet(Exec) /\ Writer \subseteq Exec
ASSUME LimitAssumption == MaxConcurrent \in Nat \ {0} /\ MaxRestarts \in Nat

VARIABLES
    row,        \* status of each executions row, "none" before it is inserted
    queue,      \* the queued rows by created_at
    registry,   \* the executions in the in-memory registry
    intent,     \* terminalIntent of each registry entry
    starting,   \* launches suspended in execService.start
    locks,      \* the holders of repository write locks
    child,      \* the agent process of each execution
    killed,     \* executions whose session was told to stop
    bounds,     \* <<execution, kind>>: bounded settlements under way
    promoter,   \* promoteQueued: [pc, cur, todo, promoted]
    owed,       \* a settlement freed a slot or lock and promoted nobody
    stage,      \* shutdown(): "open", "grace", "sweep", then "down" or "failed"
    awaited,    \* the entry whose kill the sweep of shutdown() awaits
    restarts

entryVars == <<row, queue, registry, intent, locks, bounds>>    \* what Commit changes
procVars  == <<starting, child, killed>>
loopVars  == <<promoter, owed>>
downVars  == <<stage, awaited, restarts>>
vars == <<entryVars, procVars, loopVars, downVars>>

Terminal == {"done", "failed", "cancelled", "timeout", "interrupted"}
Active   == {"queued", "starting", "running"}

-----------------------------------------------------------------------------
\* RepoWriteLocks.

pathsInside(a, b) ==        \* mutant of pathsOverlap: not the other way round
    a = b \/ <<a, b>> \in Inside

pathsOverlap(a, b) == a = b \/ <<a, b>> \in Inside \/ <<b, a>> \in Inside

locksConflict(e, f) ==
    /\ RepoOf[e] = RepoOf[f]
    /\ \/ Writes[e] = {} \/ Writes[f] = {}
       \/ \E a \in Writes[e], b \in Writes[f] : pathsOverlap(a, b)

\* tryAcquire succeeds.
Acquirable(e) == e \in locks \/ \A f \in locks : ~locksConflict(e, f)

\* The locks after tryAcquire, for an execution that needs one.
Acquired(e) == IF e \in Writer /\ Acquirable(e) THEN locks \cup {e} ELSE locks

HasLock(e) == e \notin Writer \/ Acquirable(e)

-----------------------------------------------------------------------------
\* The queue and the terminal transaction.

runningCount == Cardinality({e \in registry : row[e] = "running"})

SlotFree == runningCount < MaxConcurrent

NoCandidates == [pc |-> "idle", cur |-> {}, todo |-> <<>>, promoted |-> FALSE]

Scanning(q) == [NoCandidates EXCEPT !.pc = "scan", !.todo = q]

\* promoteQueued() is called when the queue is q; a loop that runs is left alone.
promoteQueued(q) ==
    IF promoter.pc = "idle"
    THEN promoter' = Scanning(q) /\ owed' = FALSE
    ELSE UNCHANGED <<promoter, owed>>

\* Only the loop runs while it runs.
Yielded == promoter.pc # "scan"

Dequeued(e) ==
    IF \E i \in DOMAIN queue : queue[i] = e
    THEN RemoveAt(queue, CHOOSE i \in DOMAIN queue : queue[i] = e)
    ELSE queue

\* resolveAndForget: the entry goes, with its intent and its timers.
Forget(e) ==
    /\ registry' = registry \ {e}
    /\ intent' = [intent EXCEPT ![e] = "none"]
    /\ bounds' = {x \in bounds : x[1] # e}

CommitKeepsLock(e, status) ==   \* mutant of Commit: the lock is not released
    /\ row[e] \in Active
    /\ row' = [row EXCEPT ![e] = status] /\ queue' = Dequeued(e)
    /\ locks' = locks
    /\ Forget(e)

\* The terminal transaction: compare-and-set from an active status and release
\* of the lock.
Commit(e, status) ==
    /\ row[e] \in Active
    /\ row' = [row EXCEPT ![e] = status] /\ queue' = Dequeued(e)
    /\ locks' = locks \ {e}
    /\ Forget(e)

\* A launch returned: the loop goes on if it was the loop's.
Resumed(p, e) == IF p.cur = {e} THEN [p EXCEPT !.pc = "scan", !.cur = {}] ELSE p

Init ==
    /\ row = [e \in Exec |-> "none"] /\ queue = <<>>
    /\ registry = {} /\ intent = [e \in Exec |-> "none"]
    /\ starting = {} /\ locks = {}
    /\ child = [e \in Exec |-> "none"] /\ killed = {} /\ bounds = {}
    /\ promoter = NoCandidates /\ owed = FALSE
    /\ stage = "open" /\ awaited = {} /\ restarts = 0

-----------------------------------------------------------------------------
\* startExecution and launchExecution.

\* requestKillOnce of the sessions of es.
Kill(es) == killed' = killed \cup {e \in es : child[e] = "live"}

\* The row is inserted; with a slot and the lock it is launched at once.
startExecution(e) ==
    /\ Yielded /\ stage = "open" /\ row[e] = "none"
    /\ LET now == SlotFree /\ HasLock(e)
       IN /\ row' = [row EXCEPT ![e] = IF now THEN "starting" ELSE "queued"]
          /\ starting' = IF now THEN starting \cup {e} ELSE starting
          /\ queue' = IF now THEN queue ELSE Append(queue, e)
    /\ registry' = registry \cup {e}
    /\ locks' = Acquired(e)
    /\ UNCHANGED <<intent, bounds, child, killed, loopVars, downVars>>

\* The task ended before the execution could be attached to it.
startDetached(e) ==
    /\ Yielded /\ stage = "open" /\ row[e] = "none"
    /\ row' = [row EXCEPT ![e] = "cancelled"]
    /\ promoteQueued(queue)
    /\ UNCHANGED <<queue, registry, intent, locks, bounds, procVars, downVars>>

\* The agent process appears before execService.start resolves.
Spawn(e) ==
    /\ Yielded /\ e \in starting /\ child[e] = "none"
    /\ child' = [child EXCEPT ![e] = "live"]
    /\ UNCHANGED <<entryVars, starting, killed, loopVars, downVars>>

StartOkUnguarded(e) ==      \* mutant of StartOk: not a compare-and-set
    /\ Yielded /\ e \in starting /\ child[e] # "none"
    /\ row' = [row EXCEPT ![e] = "running"]
    /\ starting' = starting \ {e}
    /\ promoter' = Resumed(promoter, e)
    /\ UNCHANGED <<queue, registry, intent, locks, bounds, child, killed, owed, downVars>>

\* execService.start resolves and the row is claimed as running.
StartOk(e) ==
    /\ Yielded /\ e \in starting /\ child[e] # "none" /\ row[e] = "starting"
    /\ row' = [row EXCEPT ![e] = "running"]
    /\ starting' = starting \ {e}
    /\ promoter' = Resumed(promoter, e)
    /\ UNCHANGED <<queue, registry, intent, locks, bounds, child, killed, owed, downVars>>

StartLateLeft(e) ==         \* mutant of StartLate: the session is not cancelled
    /\ Yielded /\ e \in starting /\ child[e] # "none" /\ row[e] # "starting"
    /\ starting' = starting \ {e}
    /\ UNCHANGED <<entryVars, child, killed, loopVars, downVars>>

\* ... or it ended meanwhile: the session is cancelled, nobody waits for that.
StartLate(e) ==
    /\ Yielded /\ e \in starting /\ child[e] # "none" /\ row[e] # "starting"
    /\ starting' = starting \ {e}
    /\ Kill({e})
    /\ IF promoter.cur = {e}
       THEN promoter' = Resumed(promoter, e) /\ UNCHANGED owed
       ELSE promoteQueued(queue)
    /\ UNCHANGED <<entryVars, child, downVars>>

\* execService.start rejects, when no process is left or its session gave up
\* stopping it.  An execution that has an intent was ended by who set it;
\* otherwise it fails, or is cancelled by the closed desktop lane.
StartFails(e) ==
    /\ Yielded /\ e \in starting
    /\ starting' = starting \ {e}
    /\ child' = [child EXCEPT ![e] = IF @ = "live" THEN "loose" ELSE @]
    /\ IF row[e] # "starting"
       THEN promoter' = Resumed(promoter, e) /\ UNCHANGED <<entryVars, owed>>
       ELSE /\ \E status \in {"failed"} \cup (IF stage = "open" THEN {} ELSE {"cancelled"}) :
                  Commit(e, status)
            /\ IF promoter.cur = {e}
               THEN promoter' = Resumed(promoter, e) /\ UNCHANGED owed
               ELSE promoteQueued(queue')
    /\ UNCHANGED <<killed, downVars>>

-----------------------------------------------------------------------------
\* promoteQueued.

\* The first candidate that is registered, queued and gets its lock.
Launchable(e) == e \in registry /\ row[e] = "queued" /\ HasLock(e)

FirstLaunchable(i) ==
    /\ Launchable(promoter.todo[i])
    /\ \A j \in 1..(i - 1) : ~Launchable(promoter.todo[j])

SomeLaunchable == SlotFree /\ \E i \in DOMAIN promoter.todo : Launchable(promoter.todo[i])

Rest(i) == SubSeq(promoter.todo, i + 1, Len(promoter.todo))

PromoteLaunch ==
    /\ promoter.pc = "scan" /\ SlotFree
    /\ \E i \in DOMAIN promoter.todo :
         LET e == promoter.todo[i]
         IN /\ FirstLaunchable(i)
            /\ row' = [row EXCEPT ![e] = "starting"]
            /\ starting' = starting \cup {e}
            /\ queue' = Dequeued(e)
            /\ locks' = Acquired(e)
            /\ promoter' = [pc |-> "await", cur |-> {e}, todo |-> Rest(i), promoted |-> TRUE]
    /\ UNCHANGED <<registry, intent, bounds, child, killed, owed, downVars>>

\* launchExecution finds the state volume low and fails the execution.
PromoteLowDisk ==
    /\ promoter.pc = "scan" /\ SlotFree
    /\ \E i \in DOMAIN promoter.todo :
         /\ FirstLaunchable(i)
         /\ Commit(promoter.todo[i], "failed")
         /\ promoter' = [promoter EXCEPT !.todo = Rest(i), !.promoted = TRUE]
    /\ UNCHANGED <<procVars, owed, downVars>>

PromoteEndOnce ==           \* mutant of PromoteEnd: the queue is read once
    /\ promoter.pc = "scan" /\ ~SomeLaunchable
    /\ promoter' = NoCandidates
    /\ UNCHANGED <<entryVars, procVars, owed, downVars>>

\* The end of the candidates: read the queue again if anything was launched.
PromoteEnd ==
    /\ promoter.pc = "scan" /\ ~SomeLaunchable
    /\ promoter' = IF promoter.promoted /\ SlotFree THEN Scanning(queue) ELSE NoCandidates
    /\ UNCHANGED <<entryVars, procVars, owed, downVars>>

\* Free space is back on the state volume.  A scan that finds nobody is one step.
promoteQueuedAfterGuardChange ==
    /\ Yielded /\ promoter.pc = "idle"
    /\ IF SlotFree /\ \E e \in Exec : Launchable(e)
       THEN promoteQueued(queue)
       ELSE owed' = FALSE /\ UNCHANGED promoter
    /\ UNCHANGED <<entryVars, procVars, downVars>>

-----------------------------------------------------------------------------
\* Cancellation, timeout and the end of the stream.

claimTerminalIntent(e, kind) == [intent EXCEPT ![e] = IF @ = "none" THEN kind ELSE @]

\* cancelExecution without a session: the execution is cancelled where it is,
\* even if its start is under way.
cancelQueued(e) ==
    /\ Yielded /\ e \in registry /\ row[e] # "running"
    /\ Commit(e, "cancelled")
    /\ promoteQueued(queue')
    /\ UNCHANGED <<procVars, downVars>>

cancelFlagOnly(e) ==        \* mutant of cancelRunning: nobody is told
    /\ Yielded /\ e \in registry /\ row[e] = "running"
    /\ intent' = claimTerminalIntent(e, "cancel")
    /\ UNCHANGED <<row, queue, registry, locks, bounds, procVars, loopVars, downVars>>

\* cancelExecution with one: kill, and wait for the end or for the bound.  A kill
\* that rejects rejects the cancellation; the intent stays.
cancelRunning(e) ==
    /\ Yielded /\ e \in registry /\ row[e] = "running"
    /\ intent' = claimTerminalIntent(e, "cancel")
    /\ Kill({e})
    /\ bounds' = IF child[e] = "loose" THEN bounds ELSE bounds \cup {<<e, "cancel">>}
    /\ UNCHANGED <<row, queue, registry, locks, starting, child, loopVars, downVars>>

\* The attempt's deadline overrides the intent.
timeout(e) ==
    /\ Yielded /\ e \in registry /\ row[e] = "running" /\ <<e, "timeout">> \notin bounds
    /\ intent' = [intent EXCEPT ![e] = "timeout"]
    /\ Kill({e})
    /\ bounds' = bounds \cup {<<e, "timeout">>}
    /\ UNCHANGED <<row, queue, registry, locks, starting, child, loopVars, downVars>>

\* settleRegisteredCancellation, for a process that is gone; settleAttemptTimeout,
\* for any.  Neither promotes.
settleBound(e, kind) ==
    /\ Yielded /\ <<e, kind>> \in bounds
    /\ kind = "cancel" => child[e] = "dead"
    /\ Commit(e, IF kind = "cancel" THEN "cancelled" ELSE "timeout")
    /\ owed' = (owed \/ promoter.pc = "idle")
    /\ UNCHANGED <<procVars, promoter, downVars>>

\* "done" stands for done and for failed, as the client reported.
closeStatus(e) ==
    CASE intent[e] = "shutdown" -> "interrupted"
      [] intent[e] = "cancel"   -> "cancelled"
      [] intent[e] = "timeout"  -> "timeout"
      [] OTHER                  -> "done"

\* The stream ended, after the process or after its session gave up stopping it:
\* terminalizeRunning.
handleChildClose(e) ==
    /\ Yielded /\ e \in registry /\ row[e] = "running" /\ child[e] \in {"dead", "loose"}
    /\ Commit(e, closeStatus(e))
    /\ promoteQueued(queue')
    /\ UNCHANGED <<procVars, downVars>>

\* The consumer of the stream throws (its cursor expired, or its transaction
\* failed): the same end, though the process lives and nobody tells it to stop.
streamConsumerFails(e) ==
    /\ Yielded /\ e \in registry /\ row[e] = "running" /\ child[e] = "live"
    /\ Commit(e, closeStatus(e))
    /\ child' = [child EXCEPT ![e] = IF e \in killed THEN @ ELSE "left"]
    /\ promoteQueued(queue')
    /\ UNCHANGED <<starting, killed, downVars>>

\* The session of a running execution, told to or by itself, tried to stop its
\* process tree and could not confirm it.  A cancellation that awaits the kill
\* rejects.  (One of an ended execution stays "live" and told.)
terminationFails(e) ==
    /\ Yielded /\ e \in registry /\ row[e] = "running" /\ child[e] = "live"
    /\ child' = [child EXCEPT ![e] = "loose"]
    /\ killed' = killed \ {e}
    /\ bounds' = bounds \ {<<e, "cancel">>}
    /\ UNCHANGED <<row, queue, registry, intent, locks, starting, loopVars, downVars>>

\* The agent process ends.
Die(e) ==
    /\ Yielded /\ child[e] = "live"
    /\ child' = [child EXCEPT ![e] = "dead"]
    /\ killed' = killed \ {e}
    /\ UNCHANGED <<entryVars, starting, loopVars, downVars>>

\* A row that survived a restart: the recorded process is killed and verified.
cancelUnregistered(e) ==
    /\ Yielded /\ row[e] \in Active /\ e \notin registry
    /\ child' = [child EXCEPT ![e] = "dead"]
    /\ Commit(e, "cancelled")
    /\ promoteQueued(queue')
    /\ UNCHANGED <<starting, killed, downVars>>

-----------------------------------------------------------------------------
\* shutdown and the next start.

shutdown ==
    /\ Yielded /\ stage = "open"
    /\ stage' = "grace"
    /\ LET active == {e \in registry : row[e] = "running"}
       IN /\ intent' = [e \in Exec |-> IF e \in active /\ intent[e] = "none" THEN "shutdown"
                                       ELSE intent[e]]
          /\ Kill(active)
    /\ UNCHANGED <<row, queue, registry, locks, bounds, starting, child, loopVars, awaited,
                   restarts>>

graceEnds ==
    /\ Yielded /\ stage = "grace"
    /\ stage' = "sweep"
    /\ UNCHANGED <<entryVars, procVars, loopVars, awaited, restarts>>

\* An entry the sweep still has to do something about; it does one at a time.
Unswept(e) == e \in registry /\ (row[e] # "running" \/ intent[e] = "none" \/ child[e] # "dead")

KillAwaited == \A f \in awaited : child[f] = "dead"

\* An entry with a session: its kill is awaited.
sweepSession(e) ==
    /\ Yielded /\ stage = "sweep" /\ KillAwaited /\ Unswept(e) /\ row[e] = "running"
    /\ awaited' = {e}
    /\ intent' = claimTerminalIntent(e, "shutdown")
    /\ Kill({e})
    /\ UNCHANGED <<row, queue, registry, locks, bounds, starting, child, loopVars, stage, restarts>>

\* An entry without one is interrupted where it is.
sweepQueued(e) ==
    /\ Yielded /\ stage = "sweep" /\ KillAwaited /\ Unswept(e) /\ row[e] # "running"
    /\ Commit(e, "interrupted")
    /\ promoteQueued(queue')
    /\ UNCHANGED <<procVars, downVars>>

shutdownEnds ==
    /\ Yielded /\ stage = "sweep" /\ KillAwaited /\ ~\E e \in Exec : Unswept(e)
    /\ stage' = "down" /\ awaited' = {}
    /\ UNCHANGED <<entryVars, procVars, loopVars, restarts>>

\* The awaited kill rejects, and with it shutdown(): the rest is not visited.  The
\* execution may have ended meanwhile.
sweepRejects ==
    /\ Yielded /\ stage = "sweep"
    /\ \E f \in awaited : child[f] = "loose" \/ f \in killed \ registry
    /\ stage' = "failed" /\ awaited' = {}
    /\ UNCHANGED <<entryVars, procVars, loopVars, restarts>>

\* The daemon dies or has shut down and starts again: markInterruptedOnStartup
\* kills the recorded processes; the rows of those that resist, or whose kill
\* throws (also for a process that is gone), stay active.  A process without an
\* active row that records it is on its own.
Alive(e) == child[e] \notin {"none", "dead"}

restart ==
    /\ restarts < MaxRestarts /\ restarts' = restarts + 1
    /\ \E kept \in SUBSET {e \in Exec : row[e] = "running"} :
         /\ row' = [e \in Exec |-> IF row[e] \in Active /\ e \notin kept
                                   THEN "interrupted" ELSE row[e]]
         /\ child' = [e \in Exec |-> IF e \in kept THEN IF Alive(e) THEN "live" ELSE "dead"
                                     ELSE IF Alive(e) /\ row[e] # "running" THEN "stray"
                                     ELSE "none"]
    /\ registry' = {} /\ intent' = [e \in Exec |-> "none"] /\ starting' = {} /\ locks' = {}
    /\ killed' = {} /\ bounds' = {} /\ promoter' = NoCandidates /\ owed' = FALSE
    /\ stage' = "open" /\ awaited' = {} /\ queue' = <<>>

-----------------------------------------------------------------------------
Next ==
    \/ \E e \in Exec :
         \/ startExecution(e) \/ startDetached(e) \/ Spawn(e) \/ StartOk(e) \/ StartLate(e)
         \/ StartFails(e) \/ cancelQueued(e) \/ cancelRunning(e) \/ timeout(e)
         \/ settleBound(e, "cancel") \/ settleBound(e, "timeout")
         \/ handleChildClose(e) \/ streamConsumerFails(e) \/ terminationFails(e)
         \/ Die(e) \/ cancelUnregistered(e)
         \/ sweepSession(e) \/ sweepQueued(e)
    \/ PromoteLaunch \/ PromoteLowDisk \/ PromoteEnd
    \/ promoteQueuedAfterGuardChange
    \/ shutdown \/ graceEnds \/ shutdownEnds \/ sweepRejects \/ restart

\* A stop goes on: the killed process dies, the stream of a session that gave up
\* ends, or the timer of a bound fires.
stopGoesOn(e) ==
    \/ e \in killed \cap registry /\ Die(e)
    \/ child[e] = "loose" /\ handleChildClose(e)
    \/ settleBound(e, "cancel") \/ settleBound(e, "timeout")

\* The loop runs on and so does every stop.  No other end of a stream is assumed:
\* the bounds are there because it may never come.  Nor is the death of a process
\* whose execution has ended.
Fairness ==
    /\ WF_vars(PromoteLaunch \/ PromoteEnd)
    /\ \A e \in Exec : WF_vars(stopGoesOn(e))

Spec == Init /\ [][Next]_vars /\ Fairness

-----------------------------------------------------------------------------
TypeOK ==
    /\ row \in [Exec -> Active \cup Terminal \cup {"none"}]
    /\ queue \in Seq(Exec)
    /\ registry \subseteq Exec /\ starting \subseteq Exec /\ locks \subseteq Writer
    /\ intent \in [Exec -> {"none", "cancel", "timeout", "shutdown"}]
    /\ child \in [Exec -> {"none", "live", "loose", "left", "dead", "stray"}] /\ killed \subseteq Exec
    /\ bounds \subseteq Exec \X {"cancel", "timeout"}
    /\ promoter \in [pc : {"idle", "scan", "await"}, cur : SUBSET Exec, todo : Seq(Exec),
                     promoted : BOOLEAN]
    /\ owed \in BOOLEAN /\ restarts \in 0..MaxRestarts
    /\ stage \in {"open", "grace", "sweep", "down", "failed"} /\ awaited \subseteq Exec

Writing(e) == e \in Writer /\ row[e] \in {"starting", "running"}

(* Two executions of this daemon's lifetime that may write the same files  *)
(* are never starting or running at once, however admissions, promotions,  *)
(* cancellations, timeouts and failures of others release and take the     *)
(* locks.  An execution whose row was kept by a restart is not covered: it *)
(* has no lock (WriteProtected).  Nor is a process that outlives its row.  *)
OneWriter ==
    \A e, f \in registry : (e # f /\ Writing(e) /\ Writing(f)) => ~locksConflict(e, f)

(* What markInterruptedOnStartup says of the rows it could not end, that   *)
(* they stay active and keep their repository write protection: no         *)
(* execution starts or runs beside one whose files it may write.  The code *)
(* does not keep this: the locks are memory and are not taken again.       *)
WriteProtected ==
    \A e, f \in Exec : (e # f /\ Writing(e) /\ Writing(f)) => ~locksConflict(e, f)

(* The registry is the active rows: none is forgotten while active (except *)
(* one that survived a restart), none is kept after its end; and no lock   *)
(* outlives its execution, so nobody waits for a holder that is gone.      *)
Supervised ==
    /\ \A e \in registry : row[e] \in Active
    /\ \A e \in Exec \ registry : row[e] \in Active => row[e] = "running" /\ restarts > 0
    /\ locks \subseteq registry

(* The process of an execution that ended, or of a supervisor that shut    *)
(* down, has been told to stop, unless its start is still to return; and   *)
(* shutdown() leaves nothing registered that was not told so.  Excepted    *)
(* are, by name: a row kept by a restart, whose process is its record; a   *)
(* process whose stream's consumer failed ("left"), which ends with its    *)
(* work or with the exec service; and a "stray".  A "loose" one was told.  *)
NoOrphan ==
    /\ \A e \in Exec : (Alive(e) /\ (row[e] \in Terminal \/ stage = "down"))
         => \/ e \in killed \/ e \in starting \/ child[e] = "loose"
            \/ row[e] = "running" /\ e \notin registry
            \/ child[e] \in {"left", "stray"}
    /\ stage = "down" => \A e \in registry : intent[e] # "none"

(* The queue is never left standing by a loop that has ended: an execution *)
(* that could run is waiting only if the settlement that made room for it  *)
(* does not promote (a stalled stream), and then only until the next call. *)
(* Nothing is said while the loop is suspended in a launch, which may wait *)
(* long (for the desktop lane): the queue then waits with it.              *)
NoStranded ==
    (promoter.pc = "idle" /\ SlotFree /\ \E e \in Exec : Launchable(e)) => owed

(* An execution that ended keeps its status: neither a late start, a       *)
(* deadline, the end of the stream nor a restart changes it.               *)
TerminalFinal == [][\A e \in Exec : row[e] \in Terminal => row'[e] = row[e]]_vars

(* A cancel or a deadline ends the execution even if the stream of its     *)
(* process never ends, unless the daemon restarts first: again and again   *)
(* nobody registered is being stopped.  (An execution is stopped at most   *)
(* once, so none can be stuck behind the others.)                          *)
StopTakes == []<>(\A e \in registry : intent[e] \notin {"cancel", "timeout"})
=============================================================================
