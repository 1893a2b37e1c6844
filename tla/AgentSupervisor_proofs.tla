------------------------ MODULE AgentSupervisor_proofs ------------------------
(***************************************************************************)
(* Proofs about AgentSupervisor: for every set of executions, repositories *)
(* and paths, every concurrency limit and any number of restarts,          *)
(* registered writers that conflict never run together, no lock or         *)
(* registry entry is left behind, no process that the supervisor has in    *)
(* hand goes on untold, and an end is final.                               *)
(***************************************************************************)
EXTENDS AgentSupervisor, SequenceTheorems, FiniteSetTheorems, TLAPS

(***************************************************************************)
(* Types.                                                                  *)
(***************************************************************************)

\* An execution that leaves the queue leaves a queue.
LEMMA DequeuedTyped ==
    ASSUME NEW e, queue \in Seq(Exec)
    PROVE  Dequeued(e) \in Seq(Exec)
<1>1. ASSUME NEW i \in DOMAIN queue
      PROVE  RemoveAt(queue, i) \in Seq(Exec)
  <2>1. /\ i \in 1..Len(queue) /\ Len(queue) \in Nat
        /\ \A j \in 1..Len(queue) : queue[j] \in Exec
    BY <1>1
  <2>2. SubSeq(queue, 1, i - 1) \in Seq(Exec)
    BY <2>1, SubSeqProperties
  <2>3. SubSeq(queue, i + 1, Len(queue)) \in Seq(Exec)
    BY <2>1, SubSeqProperties
  <2>. QED  BY <2>2, <2>3, ConcatProperties DEF RemoveAt
<1>2. ASSUME \E i \in DOMAIN queue : queue[i] = e
      PROVE  (CHOOSE i \in DOMAIN queue : queue[i] = e) \in DOMAIN queue
  BY <1>2
<1>. QED  BY <1>1, <1>2 DEF Dequeued

Promoter == [pc : {"idle", "scan", "await"}, cur : SUBSET Exec, todo : Seq(Exec),
             promoted : BOOLEAN]

\* No loop, and a loop over q.
LEMMA LoopTyped ==
    /\ NoCandidates \in Promoter
    /\ \A q \in Seq(Exec) : Scanning(q) \in Promoter
<1>1. <<>> \in Seq(Exec) /\ {} \in SUBSET Exec
  OBVIOUS
<1>2. NoCandidates \in Promoter
  BY <1>1 DEF NoCandidates, Promoter
<1>. QED  BY <1>2 DEF Scanning, Promoter

\* A call of promoteQueued makes a loop over the queue it was given, or none.
LEMMA PromoteTyped ==
    ASSUME NEW q \in Seq(Exec), promoter \in Promoter, owed \in BOOLEAN, promoteQueued(q)
    PROVE  promoter' \in Promoter /\ owed' \in BOOLEAN
BY DEF promoteQueued, Scanning, NoCandidates, Promoter

\* A launch that returns lets the loop go on.
LEMMA ResumedTyped ==
    ASSUME NEW e, promoter \in Promoter
    PROVE  Resumed(promoter, e) \in Promoter
BY DEF Resumed, Promoter

\* The candidates after one of them are candidates.
LEMMA RestTyped ==
    ASSUME promoter \in Promoter, NEW i \in DOMAIN promoter.todo
    PROVE  Rest(i) \in Seq(Exec) /\ promoter.todo[i] \in Exec
<1>1. promoter.todo \in Seq(Exec)
  BY DEF Promoter
<1>2. /\ i \in 1..Len(promoter.todo) /\ Len(promoter.todo) \in Nat
      /\ \A j \in 1..Len(promoter.todo) : promoter.todo[j] \in Exec
  BY <1>1
<1>3. SubSeq(promoter.todo, i + 1, Len(promoter.todo)) \in Seq(Exec)
  BY <1>2, SubSeqProperties
<1>. QED  BY <1>2, <1>3 DEF Rest

\* The types of what the terminal transaction changes.
EntryType ==
    /\ row \in [Exec -> Active \cup Terminal \cup {"none"}]
    /\ queue \in Seq(Exec)
    /\ registry \subseteq Exec /\ locks \subseteq Writer
    /\ intent \in [Exec -> {"none", "cancel", "timeout", "shutdown"}]
    /\ bounds \subseteq Exec \X {"cancel", "timeout"}

\* The types of the processes, and of shutdown.
ProcType ==
    /\ starting \subseteq Exec
    /\ child \in [Exec -> {"none", "live", "loose", "left", "dead", "stray"}]
    /\ killed \subseteq Exec

LoopType == promoter \in Promoter /\ owed \in BOOLEAN

DownType ==
    /\ restarts \in 0..MaxRestarts
    /\ stage \in {"open", "grace", "sweep", "down", "failed"} /\ awaited \subseteq Exec

\* The terminal transaction keeps its types.
LEMMA CommitTyped ==
    ASSUME EntryType, NEW e \in Exec, NEW status \in Terminal, Commit(e, status)
    PROVE  EntryType'
<1>1. queue' \in Seq(Exec)
  BY DequeuedTyped DEF EntryType, Commit
<1>. QED  BY <1>1 DEF EntryType, Commit, Forget

\* The end of a stream is one of the ends.
LEMMA CloseTyped ==
    ASSUME EntryType, NEW e \in Exec
    PROVE  closeStatus(e) \in Terminal
BY DEF EntryType, closeStatus, Terminal

\* Every step keeps the types.
LEMMA TypeStep == TypeOK /\ [Next]_vars => TypeOK'
<1>. SUFFICES ASSUME EntryType, ProcType, LoopType, DownType, [Next]_vars
              PROVE  EntryType' /\ ProcType' /\ LoopType' /\ DownType'
  BY DEF TypeOK, EntryType, ProcType, LoopType, DownType, Promoter
<1>. USE DEF LoopType
<1>q. queue \in Seq(Exec)
  BY DEF EntryType
<1>0. CASE UNCHANGED vars
  BY <1>0 DEF vars, entryVars, procVars, loopVars, downVars, EntryType, ProcType, DownType
<1>1. ASSUME NEW e \in Exec, startExecution(e)
      PROVE  EntryType' /\ ProcType' /\ LoopType' /\ DownType'
  <2>1. queue' \in Seq(Exec)
    BY <1>1, <1>q DEF startExecution
  <2>2. EntryType'
    BY <1>1, <2>1 DEF startExecution, EntryType, Acquired, Active
  <2>. QED  BY <1>1, <2>2 DEF startExecution, ProcType, DownType, loopVars, downVars
<1>2. ASSUME NEW e \in Exec, startDetached(e)
      PROVE  EntryType' /\ ProcType' /\ LoopType' /\ DownType'
  <2>1. EntryType'
    BY <1>2 DEF startDetached, EntryType, Terminal
  <2>. QED  BY <1>2, <1>q, <2>1, PromoteTyped DEF startDetached, ProcType, DownType, procVars, downVars
<1>3. ASSUME NEW e \in Exec, Spawn(e) \/ Die(e) \/ terminationFails(e)
      PROVE  EntryType' /\ ProcType' /\ LoopType' /\ DownType'
  BY <1>3 DEF Spawn, Die, terminationFails, EntryType, ProcType, DownType, entryVars, loopVars, downVars
<1>4. ASSUME NEW e \in Exec, StartOk(e)
      PROVE  EntryType' /\ ProcType' /\ LoopType' /\ DownType'
  <2>1. EntryType'
    BY <1>4 DEF StartOk, EntryType, Active
  <2>. QED  BY <1>4, <2>1, ResumedTyped DEF StartOk, ProcType, DownType, downVars
<1>5. ASSUME NEW e \in Exec, StartLate(e)
      PROVE  EntryType' /\ ProcType' /\ LoopType' /\ DownType'
  <2>1. LoopType'
    BY <1>5, <1>q, ResumedTyped, PromoteTyped DEF StartLate
  <2>. QED  BY <1>5, <2>1 DEF StartLate, Kill, EntryType, ProcType, DownType, entryVars, downVars
<1>6. ASSUME NEW e \in Exec, StartFails(e)
      PROVE  EntryType' /\ ProcType' /\ LoopType' /\ DownType'
  <2>1. CASE row[e] # "starting"
    BY <1>6, <2>1, ResumedTyped DEF StartFails, EntryType, ProcType, DownType, entryVars, downVars
  <2>2. CASE row[e] = "starting"
    <3>1. PICK status \in Terminal : Commit(e, status)
      BY <1>6, <2>2 DEF StartFails, Terminal
    <3>2. EntryType' /\ queue' \in Seq(Exec)
      BY <3>1, CommitTyped DEF EntryType
    <3>3. LoopType'
      BY <1>6, <2>2, <3>2, ResumedTyped, PromoteTyped DEF StartFails
    <3>. QED  BY <1>6, <3>2, <3>3 DEF StartFails, ProcType, DownType, downVars
  <2>. QED  BY <2>1, <2>2
<1>7. ASSUME NEW e \in Exec, \/ cancelQueued(e) \/ handleChildClose(e) \/ streamConsumerFails(e)
                             \/ cancelUnregistered(e) \/ sweepQueued(e)
      PROVE  EntryType' /\ ProcType' /\ LoopType' /\ DownType'
  <2>1. PICK status \in Terminal : Commit(e, status)
    BY <1>7, CloseTyped DEF cancelQueued, handleChildClose, streamConsumerFails,
                            cancelUnregistered, sweepQueued, Terminal
  <2>2. EntryType' /\ queue' \in Seq(Exec)
    BY <2>1, CommitTyped DEF EntryType
  <2>3. LoopType'
    BY <1>7, <2>2, PromoteTyped DEF cancelQueued, handleChildClose, streamConsumerFails,
                                    cancelUnregistered, sweepQueued
  <2>. QED  BY <1>7, <2>2, <2>3 DEF cancelQueued, handleChildClose, streamConsumerFails,
                                    cancelUnregistered, sweepQueued, ProcType, DownType, procVars, downVars
<1>8. ASSUME NEW e \in Exec, cancelRunning(e) \/ timeout(e) \/ sweepSession(e)
      PROVE  EntryType' /\ ProcType' /\ LoopType' /\ DownType'
  <2>1. EntryType'
    <3>1. intent' \in [Exec -> {"none", "cancel", "timeout", "shutdown"}]
      BY <1>8 DEF cancelRunning, timeout, sweepSession, claimTerminalIntent, EntryType
    <3>2. bounds' \subseteq Exec \X {"cancel", "timeout"}
      BY <1>8 DEF cancelRunning, timeout, sweepSession, EntryType
    <3>. QED  BY <1>8, <3>1, <3>2 DEF cancelRunning, timeout, sweepSession, EntryType
  <2>. QED  BY <1>8, <2>1 DEF cancelRunning, timeout, sweepSession, Kill, ProcType, DownType,
                              loopVars, downVars
<1>9. ASSUME NEW e \in Exec, NEW kind \in {"cancel", "timeout"}, settleBound(e, kind)
      PROVE  EntryType' /\ ProcType' /\ LoopType' /\ DownType'
  <2>1. PICK status \in Terminal : Commit(e, status)
    BY <1>9 DEF settleBound, Terminal
  <2>. QED  BY <1>9, <2>1, CommitTyped DEF settleBound, ProcType, DownType, procVars, downVars
<1>10. ASSUME PromoteLaunch
       PROVE  EntryType' /\ ProcType' /\ LoopType' /\ DownType'
  <2>1. PICK i \in DOMAIN promoter.todo :
          LET e == promoter.todo[i]
          IN /\ row' = [row EXCEPT ![e] = "starting"]
             /\ starting' = starting \cup {e}
             /\ queue' = Dequeued(e)
             /\ locks' = Acquired(e)
             /\ promoter' = [pc |-> "await", cur |-> {e}, todo |-> Rest(i), promoted |-> TRUE]
    BY <1>10 DEF PromoteLaunch
  <2>2. promoter.todo[i] \in Exec /\ Rest(i) \in Seq(Exec)
    BY RestTyped
  <2>3. queue' \in Seq(Exec)
    BY <2>1, <1>q, DequeuedTyped
  <2>4. promoter' \in Promoter
    BY <2>1, <2>2 DEF Promoter
  <2>. QED  BY <1>10, <2>1, <2>2, <2>3, <2>4
               DEF PromoteLaunch, Acquired, EntryType, ProcType, DownType, Active, downVars
<1>11. ASSUME PromoteLowDisk
       PROVE  EntryType' /\ ProcType' /\ LoopType' /\ DownType'
  <2>1. PICK i \in DOMAIN promoter.todo :
          /\ Commit(promoter.todo[i], "failed")
          /\ promoter' = [promoter EXCEPT !.todo = Rest(i), !.promoted = TRUE]
    BY <1>11 DEF PromoteLowDisk
  <2>2. promoter.todo[i] \in Exec /\ Rest(i) \in Seq(Exec)
    BY RestTyped
  <2>3. EntryType'
    BY <2>1, <2>2, CommitTyped DEF Terminal
  <2>4. promoter' \in Promoter
    BY <2>1, <2>2 DEF Promoter
  <2>. QED  BY <1>11, <2>3, <2>4 DEF PromoteLowDisk, ProcType, DownType, procVars, downVars
<1>12. ASSUME PromoteEnd \/ promoteQueuedAfterGuardChange
       PROVE  EntryType' /\ ProcType' /\ LoopType' /\ DownType'
  <2>1. NoCandidates \in Promoter /\ Scanning(queue) \in Promoter
    BY <1>q, LoopTyped
  <2>2. CASE PromoteEnd
    <3>1. promoter' = Scanning(queue) \/ promoter' = NoCandidates
      BY <2>2 DEF PromoteEnd
    <3>. QED  BY <2>1, <2>2, <3>1 DEF PromoteEnd, EntryType, ProcType, DownType, entryVars,
                                      procVars, downVars
  <2>3. CASE promoteQueuedAfterGuardChange
    <3>1. CASE promoteQueued(queue)
      BY <2>3, <3>1, <1>q, PromoteTyped
         DEF promoteQueuedAfterGuardChange, EntryType, ProcType, DownType, entryVars, procVars,
             downVars
    <3>2. CASE owed' = FALSE /\ UNCHANGED promoter
      BY <2>3, <3>2 DEF promoteQueuedAfterGuardChange, EntryType, ProcType, DownType, entryVars,
                        procVars, downVars
    <3>. QED  BY <2>3, <3>1, <3>2 DEF promoteQueuedAfterGuardChange
  <2>. QED  BY <1>12, <2>2, <2>3
<1>13. ASSUME shutdown
       PROVE  EntryType' /\ ProcType' /\ LoopType' /\ DownType'
  BY <1>13 DEF shutdown, Kill, EntryType, ProcType, DownType, loopVars
<1>14. ASSUME graceEnds \/ shutdownEnds \/ sweepRejects
       PROVE  EntryType' /\ ProcType' /\ LoopType' /\ DownType'
  BY <1>14 DEF graceEnds, shutdownEnds, sweepRejects, EntryType, ProcType, DownType, entryVars, procVars, loopVars
<1>15. ASSUME restart
       PROVE  EntryType' /\ ProcType' /\ LoopType' /\ DownType'
  <2>1. NoCandidates \in Promoter
    BY LoopTyped
  <2>2. restarts' \in 0..MaxRestarts
    BY <1>15, LimitAssumption DEF restart, DownType
  <2>3. EntryType'
    BY <1>15 DEF restart, EntryType, Terminal
  <2>. QED  BY <1>15, <2>1, <2>2, <2>3 DEF restart, ProcType, DownType
<1>. QED
  BY <1>0, <1>1, <1>2, <1>3, <1>4, <1>5, <1>6, <1>7, <1>8, <1>9, <1>10, <1>11, <1>12, <1>13,
     <1>14, <1>15 DEF Next

\* Every variable of the supervisor keeps its type, for every set of executions and
\* every limit (the executions table, the registry, the promotion loop, shutdown).
THEOREM SupervisorTypeCorrect == Spec => []TypeOK
<1>1. Init => TypeOK
  <2>. HAVE Init
  <2>1. promoter \in Promoter /\ owed \in BOOLEAN
    BY LoopTyped DEF Init
  <2>2. restarts \in 0..MaxRestarts
    BY LimitAssumption DEF Init
  <2>. QED  BY <2>1, <2>2 DEF Init, TypeOK, Promoter
<1>. QED  BY <1>1, TypeStep, PTL DEF Spec

(***************************************************************************)
(* The inductive invariant.  OneWriter needs the locks: their holders are  *)
(* compatible, and who writes holds one.  NoOrphan needs the way a process *)
(* goes from its start to a kill, and what shutdown() leaves registered.   *)
(***************************************************************************)

\* Two holders never conflict, and a registered writer that starts or runs is one.
Locked ==
    /\ \A e, f \in locks : e # f => ~locksConflict(e, f)
    /\ \A e \in registry : Writing(e) => e \in locks

\* A starting row has a start under way; a start under way has such a row or one
\* that ended.
Launches ==
    \A e \in Exec :
        /\ row[e] = "starting" => e \in starting
        /\ e \in starting => row[e] \in {"starting"} \cup Terminal

\* A process in somebody's hand is starting, running, or was told to stop when its
\* execution ended.
Processes ==
    \A e \in Exec : child[e] = "live" =>
        e \in starting \/ row[e] = "running" \/ (row[e] \in Terminal /\ e \in killed)

\* Who is stopped with a bound is running and was killed.
Bounded ==
    \A x \in bounds :
        /\ x[1] \in registry /\ row[x[1]] = "running"
        /\ child[x[1]] = "live" => x[1] \in killed

\* What shutdown() leaves registered is running, marked and dead.
Swept ==
    stage = "down" =>
        \A e \in registry : row[e] = "running" /\ intent[e] # "none" /\ child[e] = "dead"

IInv == TypeOK /\ Supervised /\ Locked /\ Launches /\ Processes /\ Bounded /\ Swept

\* A conflict is mutual.
LEMMA ConflictMutual ==
    ASSUME NEW e, NEW f
    PROVE  locksConflict(e, f) <=> locksConflict(f, e)
BY DEF locksConflict, pathsOverlap

\* tryAcquire keeps the holders compatible, and makes a holder of a writer that
\* may start.
LEMMA AcquiredLocked ==
    ASSUME Locked, NEW e \in Exec
    PROVE  /\ \A f, g \in Acquired(e) : f # g => ~locksConflict(f, g)
           /\ locks \subseteq Acquired(e) /\ Acquired(e) \subseteq locks \cup {e}
           /\ HasLock(e) /\ e \in Writer => e \in Acquired(e)
BY ConflictMutual DEF Locked, Acquired, Acquirable, HasLock

\* The terminal transaction keeps the locks, the registry and the bounds of the
\* others in step.
LEMMA CommitKeeps ==
    ASSUME IInv, NEW e \in Exec, NEW status \in Terminal, Commit(e, status),
           restarts' = restarts
    PROVE  /\ Supervised' /\ Locked'
           /\ \A f \in Exec : f # e => row'[f] = row[f] /\ intent'[f] = intent[f]
           /\ row'[e] = status /\ row[e] \in Active
           /\ registry' = registry \ {e}
           /\ \A x \in bounds' : x \in bounds /\ x[1] \in Exec /\ x[1] # e
<1>1. /\ \A f \in Exec : f # e => row'[f] = row[f] /\ intent'[f] = intent[f]
      /\ row'[e] = status /\ row[e] \in Active
      /\ registry' = registry \ {e} /\ locks' = locks \ {e}
      /\ bounds' = {x \in bounds : x[1] # e}
  BY DEF IInv, TypeOK, Commit, Forget
<1>2. \A x \in bounds' : x \in bounds /\ x[1] \in Exec /\ x[1] # e
  BY <1>1 DEF IInv, TypeOK
<1>3. Supervised'
  BY <1>1 DEF IInv, TypeOK, Supervised, Terminal, Active
<1>4. Locked'
  BY <1>1 DEF IInv, TypeOK, Locked, Writing
<1>. QED  BY <1>1, <1>2, <1>3, <1>4

\* Ending an execution leaves no process behind, if its own was told to stop, is
\* not alive or is still starting.
LEMMA CommitClean ==
    ASSUME IInv, NEW e \in Exec, NEW status \in Terminal, Commit(e, status),
           UNCHANGED <<starting, killed, stage, restarts>>,
           \A f \in Exec : f # e => child'[f] = child[f],
           child'[e] = "live" => e \in killed \/ e \in starting
    PROVE  Supervised' /\ Locked' /\ Launches' /\ Processes' /\ Bounded' /\ Swept'
<1>0. /\ Supervised' /\ Locked'
      /\ \A f \in Exec : f # e => row'[f] = row[f] /\ intent'[f] = intent[f]
      /\ row'[e] = status /\ row[e] \in Active
      /\ registry' = registry \ {e}
      /\ \A x \in bounds' : x \in bounds /\ x[1] \in Exec /\ x[1] # e
  BY CommitKeeps
<1>2. Launches'
  BY <1>0 DEF IInv, Launches, Terminal
<1>3. Processes'
  BY <1>0 DEF IInv, Processes
<1>4. Bounded'
  BY <1>0 DEF IInv, Bounded
<1>5. Swept'
  BY <1>0 DEF IInv, TypeOK, Swept
<1>. QED  BY <1>0, <1>2, <1>3, <1>4, <1>5

\* Every step keeps the invariant.
LEMMA InvStep == IInv /\ [Next]_vars => IInv'
<1>. SUFFICES ASSUME IInv, [Next]_vars
              PROVE  Supervised' /\ Locked' /\ Launches' /\ Processes' /\ Bounded' /\ Swept'
  BY TypeStep DEF IInv
<1>. DEFINE Kept == Supervised' /\ Locked' /\ Launches' /\ Processes' /\ Bounded' /\ Swept'
<1>r. registry \subseteq Exec /\ Swept
  BY DEF IInv, TypeOK
<1>0. CASE UNCHANGED vars
  BY <1>0 DEF vars, entryVars, procVars, loopVars, downVars, IInv, Supervised, Locked, Writing,
              Launches, Processes, Bounded, Swept
<1>1. ASSUME NEW e \in Exec, startExecution(e)  PROVE Kept
  <2>1. /\ \A f \in Exec : f # e => row'[f] = row[f]
        /\ row[e] = "none" /\ row'[e] \in {"starting", "queued"} /\ e \notin registry
        /\ registry' = registry \cup {e} /\ locks' = Acquired(e)
        /\ row'[e] = "starting" => HasLock(e) /\ starting' = starting \cup {e}
        /\ row'[e] # "starting" => starting' = starting
        /\ stage = "open"
    BY <1>1 DEF startExecution, IInv, TypeOK, Supervised, Active
  <2>2. UNCHANGED <<intent, bounds, child, killed, stage, restarts>>
    BY <1>1 DEF startExecution, downVars
  <2>3. Supervised'
    BY <2>1, <2>2, AcquiredLocked DEF IInv, TypeOK, Supervised, Active
  <2>4. Locked'
    BY <2>1, AcquiredLocked DEF IInv, TypeOK, Locked, Writing
  <2>5. Launches' /\ Processes'
    BY <2>1, <2>2 DEF IInv, TypeOK, Launches, Processes, Terminal
  <2>6. Bounded' /\ Swept'
    BY <2>1, <2>2 DEF IInv, TypeOK, Bounded, Swept
  <2>. QED  BY <2>3, <2>4, <2>5, <2>6
<1>2. ASSUME NEW e \in Exec, startDetached(e)  PROVE Kept
  <2>1. /\ \A f \in Exec : f # e => row'[f] = row[f]
        /\ row[e] = "none" /\ row'[e] = "cancelled" /\ e \notin registry
        /\ UNCHANGED <<registry, intent, locks, bounds, starting, child, killed, stage, restarts>>
    BY <1>2 DEF startDetached, procVars, downVars, IInv, TypeOK, Supervised, Active
  <2>2. Supervised' /\ Locked'
    BY <2>1 DEF IInv, TypeOK, Supervised, Locked, Writing, Active
  <2>3. Launches' /\ Processes'
    BY <2>1 DEF IInv, Launches, Processes, Terminal
  <2>4. Bounded' /\ Swept'
    BY <2>1 DEF IInv, TypeOK, Bounded, Swept
  <2>. QED  BY <2>2, <2>3, <2>4
<1>3. ASSUME NEW e \in Exec, Spawn(e)  PROVE Kept
  <2>1. /\ UNCHANGED <<row, registry, intent, locks, bounds, starting, killed, stage, restarts>>
        /\ e \in starting /\ \A f \in Exec : f # e => child'[f] = child[f]
    BY <1>3 DEF Spawn, entryVars, downVars, IInv, TypeOK
  <2>2. row[e] # "running"
    BY <2>1 DEF IInv, Launches, Terminal
  <2>3. Supervised' /\ Locked' /\ Launches'
    BY <2>1 DEF IInv, Supervised, Locked, Writing, Launches
  <2>4. Processes' /\ Bounded' /\ Swept'
    BY <2>1, <2>2 DEF IInv, TypeOK, Processes, Bounded, Swept
  <2>. QED  BY <2>3, <2>4
<1>4. ASSUME NEW e \in Exec, Die(e) \/ terminationFails(e)  PROVE Kept
  <2>1. /\ UNCHANGED <<row, registry, intent, locks, starting, stage, restarts>>
        /\ bounds' \subseteq bounds /\ killed' = killed \ {e}
        /\ child[e] = "live" /\ child'[e] # "live"
        /\ \A f \in Exec : f # e => child'[f] = child[f]
    BY <1>4 DEF Die, terminationFails, entryVars, downVars, IInv, TypeOK
  <2>2. Supervised' /\ Locked' /\ Launches'
    BY <2>1 DEF IInv, Supervised, Locked, Writing, Launches
  <2>3. Processes' /\ Bounded'
    BY <2>1 DEF IInv, TypeOK, Processes, Bounded
  <2>4. Swept'
    BY <1>r, <2>1 DEF Swept
  <2>. QED  BY <2>2, <2>3, <2>4
<1>5. ASSUME NEW e \in Exec, StartOk(e)  PROVE Kept
  <2>1. /\ UNCHANGED <<registry, intent, locks, bounds, child, killed, stage, restarts>>
        /\ row[e] = "starting" /\ row'[e] = "running" /\ starting' = starting \ {e}
        /\ \A f \in Exec : f # e => row'[f] = row[f]
    BY <1>5 DEF StartOk, downVars, IInv, TypeOK
  <2>2. Supervised' /\ Locked'
    BY <2>1 DEF IInv, TypeOK, Supervised, Locked, Writing, Active
  <2>3. Launches' /\ Processes'
    BY <2>1 DEF IInv, Launches, Processes
  <2>4. Bounded'
    BY <2>1 DEF IInv, TypeOK, Bounded
  <2>5. Swept'
    BY <1>r, <2>1 DEF Swept
  <2>. QED  BY <2>2, <2>3, <2>4, <2>5
<1>6. ASSUME NEW e \in Exec, StartLate(e)  PROVE Kept
  <2>1. /\ UNCHANGED <<row, registry, intent, locks, bounds, child, stage, restarts>>
        /\ e \in starting /\ row[e] # "starting" /\ starting' = starting \ {e}
        /\ killed \subseteq killed' /\ (child[e] = "live" => e \in killed')
    BY <1>6 DEF StartLate, Kill, entryVars, downVars
  <2>2. Supervised' /\ Locked'
    BY <2>1 DEF IInv, Supervised, Locked, Writing
  <2>3. Launches' /\ Processes'
    BY <2>1 DEF IInv, Launches, Processes
  <2>4. Bounded' /\ Swept'
    BY <2>1 DEF IInv, Bounded, Swept
  <2>. QED  BY <2>2, <2>3, <2>4
<1>7. ASSUME NEW e \in Exec, StartFails(e)  PROVE Kept
  <2>0. /\ e \in starting /\ starting' = starting \ {e}
        /\ child'[e] # "live" /\ \A f \in Exec : f # e => child'[f] = child[f]
        /\ UNCHANGED <<killed, stage, restarts>>
    BY <1>7 DEF StartFails, downVars, IInv, TypeOK
  <2>1. CASE row[e] # "starting"
    <3>1. UNCHANGED <<row, registry, intent, locks, bounds>>
      BY <1>7, <2>1 DEF StartFails, entryVars
    <3>2. row[e] # "running"
      BY <2>0 DEF IInv, Launches, Terminal
    <3>3. Supervised' /\ Locked' /\ Launches'
      BY <2>0, <2>1, <3>1 DEF IInv, Supervised, Locked, Writing, Launches
    <3>4. Processes' /\ Bounded'
      BY <2>0, <3>1 DEF IInv, TypeOK, Processes, Bounded
    <3>5. Swept'
      BY <1>r, <2>0, <3>1, <3>2 DEF Swept
    <3>. QED  BY <3>3, <3>4, <3>5
  <2>2. CASE row[e] = "starting"
    <3>1. PICK status \in Terminal : Commit(e, status)
      BY <1>7, <2>2 DEF StartFails, Terminal
    <3>2. /\ Supervised' /\ Locked'
          /\ \A f \in Exec : f # e => row'[f] = row[f] /\ intent'[f] = intent[f]
          /\ row'[e] \in Terminal /\ registry' = registry \ {e}
          /\ \A x \in bounds' : x \in bounds /\ x[1] \in Exec /\ x[1] # e
      BY <2>0, <3>1, CommitKeeps
    <3>3. Launches' /\ Processes'
      BY <2>0, <3>2 DEF IInv, Launches, Processes, Terminal
    <3>4. Bounded' /\ Swept'
      BY <2>0, <3>2 DEF IInv, TypeOK, Bounded, Swept
    <3>. QED  BY <3>2, <3>3, <3>4
  <2>. QED  BY <2>1, <2>2
<1>8. ASSUME NEW e \in Exec, cancelQueued(e)  PROVE Kept
  <2>1. /\ Commit(e, "cancelled") /\ row[e] # "running"
        /\ UNCHANGED <<starting, child, killed, stage, restarts>>
    BY <1>8 DEF cancelQueued, procVars, downVars
  <2>2. child[e] = "live" => e \in starting
    BY <2>1 DEF IInv, Processes, Commit, Terminal, Active
  <2>. QED  BY <2>1, <2>2, CommitClean DEF Terminal
<1>9. ASSUME NEW e \in Exec, cancelRunning(e) \/ timeout(e)  PROVE Kept
  <2>1. /\ UNCHANGED <<row, registry, locks, starting, child, stage, restarts>>
        /\ e \in registry /\ row[e] = "running"
        /\ killed \subseteq killed' /\ (child[e] = "live" => e \in killed')
        /\ \A x \in bounds' : x \in bounds \/ x[1] = e
        /\ \A f \in Exec : intent[f] # "none" => intent'[f] # "none"
    BY <1>9 DEF cancelRunning, timeout, Kill, claimTerminalIntent, downVars, IInv, TypeOK
  <2>2. Supervised' /\ Locked' /\ Launches'
    BY <2>1 DEF IInv, Supervised, Locked, Writing, Launches
  <2>3. Processes' /\ Bounded'
    BY <2>1 DEF IInv, TypeOK, Processes, Bounded
  <2>4. Swept'
    BY <1>r, <2>1 DEF Swept
  <2>. QED  BY <2>2, <2>3, <2>4
<1>10. ASSUME NEW e \in Exec, NEW kind \in {"cancel", "timeout"}, settleBound(e, kind)
       PROVE  Kept
  <2>1. PICK status \in Terminal : Commit(e, status)
    BY <1>10 DEF settleBound, Terminal
  <2>2. child[e] = "live" => e \in killed
    BY <1>10 DEF settleBound, IInv, Bounded
  <2>3. UNCHANGED <<starting, child, killed, stage, restarts>>
    BY <1>10 DEF settleBound, procVars, downVars
  <2>. QED  BY <2>1, <2>2, <2>3, CommitClean
<1>11. ASSUME NEW e \in Exec, handleChildClose(e) \/ streamConsumerFails(e)  PROVE Kept
  <2>1. PICK status \in Terminal : Commit(e, status)
    BY <1>11, CloseTyped DEF handleChildClose, streamConsumerFails, IInv, TypeOK, EntryType
  <2>2. /\ UNCHANGED <<starting, killed, stage, restarts>>
        /\ child'[e] = "live" => e \in killed
        /\ \A f \in Exec : f # e => child'[f] = child[f]
    BY <1>11 DEF handleChildClose, streamConsumerFails, procVars, downVars, IInv, TypeOK
  <2>. QED  BY <2>1, <2>2, CommitClean
<1>12. ASSUME NEW e \in Exec, cancelUnregistered(e)  PROVE Kept
  <2>1. /\ Commit(e, "cancelled") /\ child' = [child EXCEPT ![e] = "dead"]
        /\ UNCHANGED <<starting, killed, stage, restarts>>
    BY <1>12 DEF cancelUnregistered, downVars
  <2>2. child'[e] # "live" /\ \A f \in Exec : f # e => child'[f] = child[f]
    BY <2>1 DEF IInv, TypeOK
  <2>. QED  BY <2>1, <2>2, CommitClean DEF Terminal
<1>13. ASSUME NEW e \in Exec, sweepSession(e)  PROVE Kept
  <2>1. /\ UNCHANGED <<row, registry, locks, bounds, starting, child, stage, restarts>>
        /\ stage = "sweep" /\ killed \subseteq killed'
        /\ \A f \in Exec : intent[f] # "none" => intent'[f] # "none"
    BY <1>13 DEF sweepSession, Kill, claimTerminalIntent, IInv, TypeOK
  <2>2. Supervised' /\ Locked' /\ Launches'
    BY <2>1 DEF IInv, Supervised, Locked, Writing, Launches
  <2>3. Processes' /\ Bounded'
    BY <2>1 DEF IInv, TypeOK, Processes, Bounded
  <2>4. Swept'
    BY <1>r, <2>1 DEF Swept
  <2>. QED  BY <2>2, <2>3, <2>4
<1>14. ASSUME NEW e \in Exec, sweepQueued(e)  PROVE Kept
  <2>1. /\ Commit(e, "interrupted") /\ row[e] # "running"
        /\ UNCHANGED <<starting, child, killed, stage, restarts>>
    BY <1>14 DEF sweepQueued, procVars, downVars
  <2>2. child[e] = "live" => e \in starting
    BY <2>1 DEF IInv, Processes, Commit, Terminal, Active
  <2>. QED  BY <2>1, <2>2, CommitClean DEF Terminal
<1>15. ASSUME PromoteLaunch  PROVE Kept
  <2>1. PICK i \in DOMAIN promoter.todo :
          LET e == promoter.todo[i]
          IN /\ Launchable(e)
             /\ row' = [row EXCEPT ![e] = "starting"]
             /\ starting' = starting \cup {e}
             /\ locks' = Acquired(e)
    BY <1>15 DEF PromoteLaunch, FirstLaunchable
  <2>. DEFINE e == promoter.todo[i]
  <2>2. /\ e \in Exec /\ e \in registry /\ row[e] = "queued" /\ HasLock(e)
        /\ \A f \in Exec : f # e => row'[f] = row[f]
        /\ row'[e] = "starting" /\ starting' = starting \cup {e} /\ locks' = Acquired(e)
        /\ UNCHANGED <<registry, intent, bounds, child, killed, stage, restarts>>
    BY <1>15, <2>1 DEF PromoteLaunch, Launchable, downVars, IInv, TypeOK
  <2>. HIDE DEF e
  <2>3. Supervised' /\ Locked'
    BY <2>2, AcquiredLocked DEF IInv, TypeOK, Supervised, Locked, Writing, Active
  <2>4. Launches' /\ Processes'
    BY <2>2 DEF IInv, Launches, Processes, Terminal
  <2>5. Bounded' /\ Swept'
    BY <2>2 DEF IInv, TypeOK, Bounded, Swept
  <2>. QED  BY <2>3, <2>4, <2>5
<1>16. ASSUME PromoteLowDisk  PROVE Kept
  <2>1. PICK i \in DOMAIN promoter.todo :
          Launchable(promoter.todo[i]) /\ Commit(promoter.todo[i], "failed")
    BY <1>16 DEF PromoteLowDisk, FirstLaunchable
  <2>2. /\ promoter.todo[i] \in Exec /\ row[promoter.todo[i]] = "queued"
        /\ UNCHANGED <<starting, child, killed, stage, restarts>>
    BY <1>16, <2>1 DEF PromoteLowDisk, Launchable, procVars, downVars, IInv, TypeOK
  <2>3. child[promoter.todo[i]] = "live" => promoter.todo[i] \in starting
    BY <2>2 DEF IInv, Processes, Terminal
  <2>. QED  BY <2>1, <2>2, <2>3, CommitClean DEF Terminal
<1>17. ASSUME PromoteEnd \/ promoteQueuedAfterGuardChange  PROVE Kept
  <2>1. UNCHANGED <<row, registry, intent, locks, bounds, starting, child, killed, stage, restarts>>
    BY <1>17 DEF PromoteEnd, promoteQueuedAfterGuardChange, entryVars, procVars, downVars
  <2>. QED  BY <2>1 DEF IInv, Supervised, Locked, Writing, Launches, Processes, Bounded, Swept
<1>18. ASSUME shutdown  PROVE Kept
  <2>1. /\ UNCHANGED <<row, registry, locks, bounds, starting, child, restarts>>
        /\ stage' = "grace" /\ killed \subseteq killed'
    BY <1>18 DEF shutdown, Kill
  <2>. QED  BY <2>1 DEF IInv, Supervised, Locked, Writing, Launches, Processes, Bounded, Swept
<1>19. ASSUME graceEnds \/ shutdownEnds \/ sweepRejects  PROVE Kept
  <2>1. /\ UNCHANGED <<row, registry, intent, locks, bounds, starting, child, killed, restarts>>
        /\ stage' = "down" => ~\E e \in Exec : Unswept(e)
    BY <1>19 DEF graceEnds, shutdownEnds, sweepRejects, entryVars, procVars
  <2>2. Swept'
    BY <1>r, <2>1 DEF Swept, Unswept
  <2>. QED  BY <2>1, <2>2 DEF IInv, Supervised, Locked, Writing, Launches, Processes, Bounded
<1>20. ASSUME restart  PROVE Kept
  <2>1. PICK kept \in SUBSET {e \in Exec : row[e] = "running"} :
          /\ row' = [e \in Exec |-> IF row[e] \in Active /\ e \notin kept
                                    THEN "interrupted" ELSE row[e]]
          /\ \A e \in Exec : child'[e] = "live" => e \in kept
    BY <1>20 DEF restart
  <2>2. /\ registry' = {} /\ locks' = {} /\ bounds' = {} /\ starting' = {}
        /\ stage' = "open" /\ restarts' > 0
    BY <1>20 DEF restart, IInv, TypeOK
  <2>3. Supervised'
    BY <2>1, <2>2 DEF Supervised, Active
  <2>4. Launches' /\ Processes'
    BY <2>1, <2>2 DEF Launches, Processes, Active
  <2>. QED  BY <2>2, <2>3, <2>4 DEF Locked, Writing, Bounded, Swept
<1>. QED
  BY <1>0, <1>1, <1>2, <1>3, <1>4, <1>5, <1>6, <1>7, <1>8, <1>9, <1>10, <1>11, <1>12, <1>13,
     <1>14, <1>15, <1>16, <1>17, <1>18, <1>19, <1>20 DEF Next

LEMMA InitInv == Init => IInv
<1>. HAVE Init
<1>1. TypeOK
  <2>1. promoter \in Promoter /\ owed \in BOOLEAN
    BY LoopTyped DEF Init
  <2>2. restarts \in 0..MaxRestarts
    BY LimitAssumption DEF Init
  <2>. QED  BY <2>1, <2>2 DEF Init, TypeOK, Promoter
<1>2. Supervised /\ Locked /\ Bounded /\ Swept
  BY DEF Init, Supervised, Locked, Writing, Bounded, Swept, Active
<1>3. Launches /\ Processes
  BY DEF Init, Launches, Processes
<1>. QED  BY <1>1, <1>2, <1>3 DEF IInv

LEMMA SupervisorInvariance == Spec => []IInv
BY InitInv, InvStep, PTL DEF Spec

\* For any number of executions, repositories and paths, and however the locks are
\* taken at admission and promotion and released by ends of every kind: two
\* registered executions that may write the same files never start or run at once.
\* A row that a restart kept is not registered and not covered (WriteProtected).
THEOREM OneWriterHolds == Spec => []OneWriter
<1>1. IInv => OneWriter
  BY DEF IInv, TypeOK, Locked, OneWriter, Writing
<1>. QED  BY <1>1, SupervisorInvariance, PTL

\* For any number of executions and restarts: the registry is the active rows of
\* this daemon, and every lock has its registered holder.
THEOREM SupervisedHolds == Spec => []Supervised
<1>1. IInv => Supervised
  BY DEF IInv
<1>. QED  BY <1>1, SupervisorInvariance, PTL

\* For any number of executions, and a start, a cancel, a deadline, a stop that
\* fails and a shutdown in any order: no process of an ended execution goes on
\* untold, except those NoOrphan names, which a failed consumer of the stream or a
\* restart left.
THEOREM NoOrphanHolds == Spec => []NoOrphan
<1>1. ASSUME IInv  PROVE NoOrphan
  <2>1. ASSUME NEW e \in Exec, child[e] = "live", row[e] \in Terminal \/ stage = "down"
        PROVE  e \in killed \/ e \in starting \/ (row[e] = "running" /\ e \notin registry)
    <3>1. CASE row[e] \in Terminal
      BY <1>1, <2>1, <3>1 DEF IInv, Processes, Terminal
    <3>2. CASE stage = "down"
      BY <1>1, <2>1, <3>2 DEF IInv, Processes, Swept
    <3>. QED  BY <2>1, <3>1, <3>2
  <2>2. stage = "down" => \A e \in registry : intent[e] # "none"
    BY <1>1 DEF IInv, Swept
  <2>3. \A e \in Exec : Alive(e) => child[e] \in {"live", "loose", "left", "stray"}
    BY <1>1 DEF IInv, TypeOK, Alive
  <2>. QED  BY <2>1, <2>2, <2>3 DEF NoOrphan
<1>. QED  BY <1>1, SupervisorInvariance, PTL

(***************************************************************************)
(* The queue is never left standing.  A call of promoteQueued() that finds *)
(* the loop idle starts it over the whole queue; one that finds it running *)
(* relies on the loop to read the queue again, which it does because it    *)
(* has launched somebody.                                                  *)
(***************************************************************************)

\* Every queued row is in the queue.
Listed == \A e \in Exec : row[e] = "queued" => \E i \in DOMAIN queue : queue[i] = e

\* A loop that was suspended has promoted, and one that has not goes through the
\* whole queue.
Loops ==
    /\ promoter.pc # "await" => promoter.cur = {}
    /\ promoter.pc = "await" => promoter.promoted
    /\ promoter.pc = "scan" /\ ~promoter.promoted => promoter.todo = queue

QInv == IInv /\ Listed /\ Loops /\ NoStranded

\* An execution that leaves the queue leaves the others in it.
LEMMA DequeuedKeeps ==
    ASSUME queue \in Seq(Exec), NEW e, NEW f, f # e, NEW k \in DOMAIN queue, queue[k] = f
    PROVE  \E i \in DOMAIN Dequeued(e) : Dequeued(e)[i] = f
<1>1. CASE ~\E i \in DOMAIN queue : queue[i] = e
  BY <1>1 DEF Dequeued
<1>2. CASE \E i \in DOMAIN queue : queue[i] = e
  <2>. DEFINE c == CHOOSE i \in DOMAIN queue : queue[i] = e
  <2>1. c \in DOMAIN queue /\ queue[c] = e
    BY <1>2
  <2>2. Dequeued(e) = SubSeq(queue, 1, c - 1) \o SubSeq(queue, c + 1, Len(queue))
    BY <1>2 DEF Dequeued, RemoveAt
  <2>. HIDE DEF c
  <2>3. c # k /\ c \in 1..Len(queue) /\ k \in 1..Len(queue) /\ Len(queue) \in Nat
    BY <2>1
  <2>. DEFINE s == SubSeq(queue, 1, c - 1)
              t == SubSeq(queue, c + 1, Len(queue))
  <2>4. /\ s \in Seq(Exec) /\ Len(s) = c - 1 /\ \A i \in 1..(c - 1) : s[i] = queue[i]
        /\ t \in Seq(Exec) /\ Len(t) = Len(queue) - c
        /\ \A i \in 1..(Len(queue) - c) : t[i] = queue[c + i]
    BY <2>3
  <2>. HIDE DEF s, t
  <2>5. /\ DOMAIN (s \o t) = 1..(Len(s) + Len(t))
        /\ \A i \in 1..(Len(s) + Len(t)) :
             (s \o t)[i] = IF i <= Len(s) THEN s[i] ELSE t[i - Len(s)]
    <3>1. s \in Seq(Exec) /\ t \in Seq(Exec)
      BY <2>4
    <3>. QED  BY <3>1, ConcatProperties
  <2>6. Dequeued(e) = s \o t
    BY <2>2 DEF s, t
  <2>7. CASE k < c
    <3>1. k \in 1..(c - 1) /\ k \in 1..(Len(s) + Len(t)) /\ k <= Len(s)
      BY <2>3, <2>4, <2>7
    <3>. QED  BY <2>4, <2>5, <2>6, <3>1
  <2>8. CASE k > c
    <3>. DEFINE m == k - 1
                n == Len(queue)
    <3>1. /\ m \in 1..(Len(s) + Len(t)) /\ ~(m <= Len(s)) /\ m - Len(s) = k - c
          /\ k - c \in 1..(n - c) /\ c + (k - c) = k
      <4>1. Len(s) = c - 1 /\ Len(t) = n - c /\ c \in 1..n /\ k \in 1..n /\ n \in Nat
        BY <2>3, <2>4
      <4>2. Len(s) + Len(t) = n - 1
        BY <4>1
      <4>. HIDE DEF n
      <4>. QED  BY <2>8, <4>1, <4>2
    <3>2. (s \o t)[m] = t[k - c]
      BY <2>5, <3>1
    <3>3. t[k - c] = queue[k]
      BY <2>4, <3>1
    <3>. QED  BY <2>5, <2>6, <3>1, <3>2, <3>3
  <2>. QED  BY <2>3, <2>7, <2>8
<1>. QED  BY <1>1, <1>2

\* A queue that is left by an execution that is no longer queued lists the others.
LEMMA DequeuedListed ==
    ASSUME queue \in Seq(Exec), Listed, NEW e \in Exec, queue' = Dequeued(e),
           row'[e] # "queued", \A f \in Exec : f # e => row'[f] = row[f]
    PROVE  Listed'
<1>. SUFFICES ASSUME NEW f \in Exec, row'[f] = "queued"
              PROVE  \E i \in DOMAIN queue' : queue'[i] = f
  BY DEF Listed
<1>1. f # e /\ row[f] = "queued"
  OBVIOUS
<1>2. PICK k \in DOMAIN queue : queue[k] = f
  BY <1>1 DEF Listed
<1>. DEFINE D == Dequeued(e)
<1>3. \E i \in DOMAIN D : D[i] = f
  <2>1. f # e
    BY <1>1
  <2>2. k \in DOMAIN queue /\ queue[k] = f
    BY <1>2
  <2>. QED  BY ONLY queue \in Seq(Exec), <2>1, <2>2, DequeuedKeeps
<1>4. queue' = D
  OBVIOUS
<1>. HIDE DEF D
<1>. QED  BY <1>3, <1>4

LEMMA CommitListed ==
    ASSUME QInv, NEW e \in Exec, NEW status \in Terminal, Commit(e, status)
    PROVE  Listed'
<1>1. /\ queue \in Seq(Exec) /\ queue' = Dequeued(e)
      /\ row'[e] = status /\ \A f \in Exec : f # e => row'[f] = row[f]
  BY DEF QInv, IInv, TypeOK, Commit
<1>. QED  BY <1>1, DequeuedListed DEF QInv, Terminal

\* After a call of promoteQueued the loop runs.
LEMMA PromoteLoops ==
    ASSUME Loops, promoter \in Promoter, promoteQueued(queue'), Yielded
    PROVE  Loops' /\ NoStranded'
<1>1. CASE promoter.pc = "idle"
  <2>1. promoter' = Scanning(queue')
    BY <1>1 DEF promoteQueued
  <2>2. promoter'.pc = "scan" /\ promoter'.cur = {} /\ promoter'.todo = queue'
    BY <2>1 DEF Scanning, NoCandidates
  <2>. QED  BY <2>2 DEF Loops, NoStranded
<1>2. CASE promoter.pc # "idle"
  <2>1. promoter.pc = "await" /\ promoter' = promoter
    BY <1>2 DEF promoteQueued, Yielded, Promoter
  <2>. QED  BY <2>1 DEF Loops, NoStranded
<1>. QED  BY <1>1, <1>2

\* After a launch returned, the loop it belongs to goes on.
LEMMA ResumedLoops ==
    ASSUME Loops, NoStranded, promoter \in Promoter, NEW e, promoter' = Resumed(promoter, e), Yielded,
           owed' = owed, promoter.pc = "idle" => (SlotFree' => SlotFree),
           \A f \in Exec : Launchable(f)' => Launchable(f)
    PROVE  Loops' /\ NoStranded'
<1>1. CASE promoter.cur = {e}
  <2>1. promoter.pc = "await" /\ promoter.promoted
    BY <1>1 DEF Loops
  <2>2. promoter' = [promoter EXCEPT !.pc = "scan", !.cur = {}]
    BY <1>1 DEF Resumed
  <2>3. promoter'.pc = "scan" /\ promoter'.cur = {} /\ promoter'.promoted
    BY <2>1, <2>2 DEF Promoter
  <2>. QED  BY <2>3 DEF Loops, NoStranded
<1>2. CASE promoter.cur # {e}
  <2>1. promoter' = promoter
    BY <1>2 DEF Resumed
  <2>. QED  BY <2>1 DEF Loops, NoStranded, Yielded
<1>. QED  BY <1>1, <1>2

\* A step that leaves the loop, the queue and the locks alone.
LEMMA QuietLoops ==
    ASSUME QInv, UNCHANGED <<row, queue, registry, locks, promoter, owed>>
    PROVE  Listed' /\ Loops' /\ NoStranded'
BY DEF QInv, Listed, Loops, NoStranded, SlotFree, runningCount, Launchable, HasLock, Acquirable

\* More running executions leave no more slots.
LEMMA SlotsShrink ==
    ASSUME QInv, {f \in registry : row[f] = "running"} \subseteq {f \in registry' : row'[f] = "running"},
           registry' \subseteq Exec, SlotFree'
    PROVE  SlotFree
<1>. DEFINE A == {f \in registry : row[f] = "running"}
            B == {f \in registry' : row'[f] = "running"}
<1>1. IsFiniteSet(B)
  BY ExecAssumption, FS_Subset
<1>2. A \in SUBSET B
  OBVIOUS
<1>. HIDE DEF A, B
<1>3. Cardinality(A) \in Nat /\ Cardinality(B) \in Nat /\ Cardinality(A) <= Cardinality(B)
  BY <1>1, <1>2, FS_Subset, FS_CardinalityType
<1>4. Cardinality(B) < MaxConcurrent
  BY DEF SlotFree, runningCount, B
<1>5. Cardinality(A) < MaxConcurrent
  BY <1>3, <1>4, LimitAssumption
<1>. QED  BY <1>5 DEF SlotFree, runningCount, A

\* Every step keeps the queue moving.
LEMMA QueueStep == QInv /\ [Next]_vars => QInv'
<1>. SUFFICES ASSUME QInv, [Next]_vars PROVE Listed' /\ Loops' /\ NoStranded'
  BY InvStep DEF QInv
<1>. DEFINE Kept == Listed' /\ Loops' /\ NoStranded'
<1>t. /\ row \in [Exec -> Active \cup Terminal \cup {"none"}] /\ queue \in Seq(Exec)
      /\ promoter \in Promoter /\ registry \subseteq Exec /\ Listed /\ Loops /\ NoStranded /\ IInv
  BY DEF QInv, IInv, TypeOK, Promoter
<1>0. CASE UNCHANGED vars
  BY <1>0, QuietLoops DEF vars, entryVars, loopVars
<1>1. ASSUME NEW e \in Exec, startExecution(e)  PROVE Kept
  <2>1. /\ \A f \in Exec : f # e => row'[f] = row[f]
        /\ row[e] = "none" /\ e \notin registry
        /\ registry' = registry \cup {e} /\ locks' = Acquired(e)
        /\ promoter' = promoter /\ owed' = owed /\ promoter.pc # "scan"
        /\ row'[e] \in {"starting", "queued"}
        /\ row'[e] = "queued" => ~(SlotFree /\ HasLock(e)) /\ queue' = Append(queue, e)
        /\ row'[e] # "queued" => queue' = queue
    BY <1>1, <1>t DEF startExecution, IInv, Supervised, Active, loopVars, Yielded
  <2>2. Listed'
    <3>. SUFFICES ASSUME NEW f \in Exec, row'[f] = "queued"
                  PROVE  \E i \in DOMAIN queue' : queue'[i] = f
      BY DEF Listed
    <3>1. CASE f = e
      <4>1. queue' = Append(queue, e)
        BY <2>1, <3>1
      <4>2. Len(queue) + 1 \in DOMAIN queue' /\ queue'[Len(queue) + 1] = e
        BY <1>t, <4>1
      <4>. QED  BY <3>1, <4>2
    <3>2. CASE f # e
      <4>1. PICK k \in DOMAIN queue : queue[k] = f
        BY <1>t, <2>1, <3>2 DEF Listed
      <4>2. queue' = queue \/ queue' = Append(queue, e)
        BY <2>1
      <4>3. k \in DOMAIN queue' /\ queue'[k] = f
        BY <1>t, <4>1, <4>2
      <4>. QED  BY <4>3
    <3>. QED  BY <3>1, <3>2
  <2>3. Loops'
    BY <1>t, <2>1 DEF Loops
  <2>4. {f \in registry : row[f] = "running"} = {f \in registry' : row'[f] = "running"}
    BY <1>t, <2>1
  <2>5. SlotFree' <=> SlotFree
    BY <2>4 DEF SlotFree, runningCount
  <2>6. ASSUME NEW f \in Exec, f # e, Launchable(f)' PROVE Launchable(f)
    <3>1. locks \subseteq locks' /\ locks' \subseteq locks \cup {e}
      BY <2>1 DEF Acquired
    <3>2. HasLock(f)' => HasLock(f)
      BY <2>6, <3>1 DEF HasLock, Acquirable
    <3>. QED  BY <2>1, <2>6, <3>2 DEF Launchable
  <2>7. ASSUME Launchable(e)', SlotFree' PROVE FALSE
    <3>1. row'[e] = "queued" /\ HasLock(e)'
      BY <2>7 DEF Launchable
    <3>2. ~HasLock(e)
      BY <2>1, <2>5, <2>7, <3>1
    <3>3. locks' = locks
      BY <2>1, <3>2 DEF HasLock, Acquired
    <3>. QED  BY <3>1, <3>2, <3>3 DEF HasLock, Acquirable
  <2>8. NoStranded'
    BY <1>t, <2>1, <2>5, <2>6, <2>7 DEF NoStranded
  <2>. QED  BY <2>2, <2>3, <2>8
<1>2. ASSUME NEW e \in Exec, startDetached(e)  PROVE Kept
  <2>1. /\ \A f \in Exec : f # e => row'[f] = row[f]
        /\ row'[e] = "cancelled" /\ queue' = queue /\ promoteQueued(queue') /\ Yielded
    BY <1>2, <1>t DEF startDetached, promoteQueued
  <2>2. Listed'
    BY <1>t, <2>1 DEF Listed
  <2>. QED  BY <1>t, <2>1, <2>2, PromoteLoops
<1>3. ASSUME NEW e \in Exec, \/ Spawn(e) \/ Die(e) \/ terminationFails(e)
                             \/ cancelRunning(e) \/ timeout(e) \/ sweepSession(e)
      PROVE  Kept
  BY <1>3, QuietLoops DEF Spawn, Die, terminationFails, cancelRunning, timeout, sweepSession,
                          entryVars, loopVars
<1>4. ASSUME NEW e \in Exec, StartOk(e)  PROVE Kept
  <2>1. /\ \A f \in Exec : f # e => row'[f] = row[f]
        /\ row[e] = "starting" /\ row'[e] = "running"
        /\ UNCHANGED <<queue, registry, locks, owed>>
        /\ promoter' = Resumed(promoter, e) /\ Yielded
    BY <1>4, <1>t DEF StartOk
  <2>2. Listed'
    BY <1>t, <2>1 DEF Listed
  <2>3. {f \in registry : row[f] = "running"} \subseteq {f \in registry' : row'[f] = "running"}
    BY <1>t, <2>1
  <2>4. SlotFree' => SlotFree
    BY <1>t, <2>1, <2>3, SlotsShrink
  <2>5. \A f \in Exec : Launchable(f)' => Launchable(f)
    BY <2>1 DEF Launchable, HasLock, Acquirable
  <2>. QED  BY <1>t, <2>1, <2>2, <2>4, <2>5, ResumedLoops
<1>5. ASSUME NEW e \in Exec, StartLate(e)  PROVE Kept
  <2>1. UNCHANGED <<row, queue, registry, locks>> /\ Yielded
    BY <1>5 DEF StartLate, entryVars
  <2>2. Listed' /\ (SlotFree' => SlotFree) /\ \A f \in Exec : Launchable(f)' => Launchable(f)
    BY <1>t, <2>1 DEF Listed, SlotFree, runningCount, Launchable, HasLock, Acquirable
  <2>3. CASE promoter.cur = {e}
    BY <1>5, <1>t, <2>1, <2>2, <2>3, ResumedLoops DEF StartLate
  <2>4. CASE promoter.cur # {e}
    <3>1. promoteQueued(queue')
      BY <1>5, <2>1, <2>4 DEF StartLate, promoteQueued
    <3>. QED  BY <1>t, <2>1, <2>2, <3>1, PromoteLoops
  <2>. QED  BY <2>3, <2>4
<1>6. ASSUME NEW e \in Exec, StartFails(e)  PROVE Kept
  <2>0. Yielded
    BY <1>6 DEF StartFails
  <2>1. CASE row[e] # "starting"
    <3>1. UNCHANGED <<row, queue, registry, locks, owed>> /\ promoter' = Resumed(promoter, e)
      BY <1>6, <2>1 DEF StartFails, entryVars
    <3>2. Listed' /\ (SlotFree' => SlotFree) /\ \A f \in Exec : Launchable(f)' => Launchable(f)
      BY <1>t, <3>1 DEF Listed, SlotFree, runningCount, Launchable, HasLock, Acquirable
    <3>. QED  BY <1>t, <2>0, <3>1, <3>2, ResumedLoops
  <2>2. CASE row[e] = "starting"
    <3>1. PICK status \in Terminal : Commit(e, status)
      BY <1>6, <2>2 DEF StartFails, Terminal
    <3>2. Listed'
      BY <3>1, CommitListed
    <3>3. CASE promoter.cur = {e}
      <4>1. promoter.pc = "await" /\ promoter.promoted
        BY <1>t, <3>3 DEF Loops
      <4>2. promoter' = [promoter EXCEPT !.pc = "scan", !.cur = {}]
        BY <1>6, <2>2, <3>3 DEF StartFails, Resumed
      <4>3. promoter'.pc = "scan" /\ promoter'.cur = {} /\ promoter'.promoted
        BY <1>t, <4>1, <4>2 DEF Promoter
      <4>. QED  BY <3>2, <4>3 DEF Loops, NoStranded
    <3>4. CASE promoter.cur # {e}
      BY <1>6, <1>t, <2>0, <2>2, <3>2, <3>4, PromoteLoops DEF StartFails
    <3>. QED  BY <3>3, <3>4
  <2>. QED  BY <2>1, <2>2
<1>7. ASSUME NEW e \in Exec, \/ cancelQueued(e) \/ handleChildClose(e) \/ streamConsumerFails(e)
                             \/ cancelUnregistered(e) \/ sweepQueued(e)
      PROVE  Kept
  <2>0. EntryType
    BY <1>t DEF IInv, TypeOK, EntryType
  <2>1. PICK status \in Terminal : Commit(e, status)
    BY <1>7, <2>0, CloseTyped DEF cancelQueued, handleChildClose, streamConsumerFails,
                                  cancelUnregistered, sweepQueued, Terminal
  <2>2. Listed'
    BY <2>1, CommitListed
  <2>3. promoteQueued(queue') /\ Yielded
    BY <1>7 DEF cancelQueued, handleChildClose, streamConsumerFails, cancelUnregistered, sweepQueued
  <2>. QED  BY <1>t, <2>2, <2>3, PromoteLoops
<1>8. ASSUME NEW e \in Exec, NEW kind \in {"cancel", "timeout"}, settleBound(e, kind)  PROVE Kept
  <2>1. PICK status \in Terminal : Commit(e, status)
    BY <1>8 DEF settleBound, Terminal
  <2>2. Listed'
    BY <2>1, CommitListed
  <2>3. promoter' = promoter /\ promoter.pc # "scan" /\ owed' = (owed \/ promoter.pc = "idle")
    BY <1>8 DEF settleBound, Yielded
  <2>4. Loops'
    BY <1>t, <2>3 DEF Loops
  <2>5. NoStranded'
    BY <2>3 DEF NoStranded
  <2>. QED  BY <2>2, <2>4, <2>5
<1>9. ASSUME PromoteLaunch  PROVE Kept
  <2>1. PICK i \in DOMAIN promoter.todo :
          LET e == promoter.todo[i]
          IN /\ row' = [row EXCEPT ![e] = "starting"]
             /\ queue' = Dequeued(e)
             /\ promoter' = [pc |-> "await", cur |-> {e}, todo |-> Rest(i), promoted |-> TRUE]
    BY <1>9 DEF PromoteLaunch
  <2>2. promoter.todo[i] \in Exec
    BY <1>t, RestTyped
  <2>3. Listed'
    BY <1>t, <2>1, <2>2, DequeuedListed
  <2>. QED  BY <2>1, <2>3 DEF Loops, NoStranded
<1>10. ASSUME PromoteLowDisk  PROVE Kept
  <2>1. PICK i \in DOMAIN promoter.todo :
          /\ Commit(promoter.todo[i], "failed")
          /\ promoter' = [promoter EXCEPT !.todo = Rest(i), !.promoted = TRUE]
    BY <1>10 DEF PromoteLowDisk
  <2>2. promoter.todo[i] \in Exec /\ promoter.pc = "scan"
    BY <1>10, <1>t, RestTyped DEF PromoteLowDisk
  <2>3. Listed'
    BY <2>1, <2>2, CommitListed DEF Terminal
  <2>4. promoter'.pc = "scan" /\ promoter'.promoted /\ promoter'.cur = promoter.cur
    BY <1>t, <2>1, <2>2 DEF Promoter
  <2>. QED  BY <1>t, <2>2, <2>3, <2>4 DEF Loops, NoStranded
<1>11. ASSUME PromoteEnd  PROVE Kept
  <2>1. UNCHANGED <<row, queue, registry, locks, owed>> /\ promoter.pc = "scan" /\ ~SomeLaunchable
    BY <1>11 DEF PromoteEnd, entryVars
  <2>2. /\ Listed' /\ (SlotFree' <=> SlotFree)
        /\ \A f \in Exec : Launchable(f)' <=> Launchable(f)
    BY <1>t, <2>1 DEF Listed, SlotFree, runningCount, Launchable, HasLock, Acquirable
  <2>3. CASE promoter.promoted /\ SlotFree
    <3>1. promoter' = Scanning(queue')
      BY <1>11, <2>1, <2>3 DEF PromoteEnd
    <3>. QED  BY <2>2, <3>1 DEF Scanning, NoCandidates, Loops, NoStranded
  <2>4. CASE ~(promoter.promoted /\ SlotFree)
    <3>1. promoter' = NoCandidates
      BY <1>11, <2>4 DEF PromoteEnd
    <3>2. ASSUME SlotFree', NEW f \in Exec, Launchable(f)' PROVE FALSE
      <4>1. SlotFree /\ Launchable(f) /\ ~promoter.promoted
        BY <2>2, <2>4, <3>2
      <4>2. promoter.todo = queue
        BY <1>t, <2>1, <4>1 DEF Loops
      <4>3. PICK i \in DOMAIN queue : queue[i] = f
        BY <1>t, <4>1 DEF Listed, Launchable
      <4>. QED  BY <2>1, <4>1, <4>2, <4>3 DEF SomeLaunchable
    <3>3. NoStranded'
      BY <3>2 DEF NoStranded
    <3>. QED  BY <2>2, <3>1, <3>3 DEF NoCandidates, Loops
  <2>. QED  BY <2>3, <2>4
<1>12. ASSUME promoteQueuedAfterGuardChange  PROVE Kept
  <2>1. UNCHANGED <<row, queue, registry, locks>> /\ Yielded /\ promoter.pc = "idle"
    BY <1>12 DEF promoteQueuedAfterGuardChange, entryVars
  <2>2. /\ Listed' /\ (SlotFree' <=> SlotFree)
        /\ \A f \in Exec : Launchable(f)' <=> Launchable(f)
    BY <1>t, <2>1 DEF Listed, SlotFree, runningCount, Launchable, HasLock, Acquirable
  <2>3. CASE SlotFree /\ \E e \in Exec : Launchable(e)
    <3>1. promoteQueued(queue')
      BY <1>12, <2>1, <2>3 DEF promoteQueuedAfterGuardChange, promoteQueued
    <3>. QED  BY <1>t, <2>1, <2>2, <3>1, PromoteLoops
  <2>4. CASE ~(SlotFree /\ \E e \in Exec : Launchable(e))
    <3>1. promoter' = promoter
      BY <1>12, <2>4 DEF promoteQueuedAfterGuardChange
    <3>2. Loops'
      BY <1>t, <2>1, <3>1 DEF Loops
    <3>3. NoStranded'
      BY <2>2, <2>4 DEF NoStranded
    <3>. QED  BY <2>2, <3>2, <3>3
  <2>. QED  BY <2>3, <2>4
<1>13. ASSUME shutdown \/ graceEnds \/ shutdownEnds \/ sweepRejects  PROVE Kept
  BY <1>13, QuietLoops DEF shutdown, graceEnds, shutdownEnds, sweepRejects, entryVars, loopVars
<1>14. ASSUME restart  PROVE Kept
  <2>1. PICK kept \in SUBSET {e \in Exec : row[e] = "running"} :
          row' = [e \in Exec |-> IF row[e] \in Active /\ e \notin kept
                                 THEN "interrupted" ELSE row[e]]
    BY <1>14 DEF restart
  <2>2. \A e \in Exec : row'[e] # "queued"
    BY <2>1 DEF Active
  <2>3. promoter' = NoCandidates /\ registry' = {}
    BY <1>14 DEF restart
  <2>. QED  BY <2>2, <2>3 DEF Listed, Loops, NoStranded, NoCandidates, Launchable
<1>. QED
  BY <1>0, <1>1, <1>2, <1>3, <1>4, <1>5, <1>6, <1>7, <1>8, <1>9, <1>10, <1>11, <1>12, <1>13,
     <1>14 DEF Next

\* For any number of executions, a loop that is suspended in a launch while others
\* end, join the queue or free locks included: an execution that could run waits for
\* an idle loop only after a settlement that does not promote.
THEOREM NoStrandedHolds == Spec => []NoStranded
<1>1. Init => Listed /\ Loops /\ NoStranded
  BY DEF Init, Listed, Loops, NoStranded, NoCandidates, Launchable
<1>2. Init => IInv
  BY InitInv
<1>3. Init => QInv
  BY <1>1, <1>2 DEF QInv
<1>4. QInv => NoStranded
  BY DEF QInv
<1>. QED  BY <1>3, <1>4, QueueStep, PTL DEF Spec

\* A status that changes was not an end: the claims of startExecution, of a launch
\* and of the running status, and every terminal transaction, compare first.
LEMMA RowMoves ==
    ASSUME IInv, Next, NEW e \in Exec, row[e] \in Terminal
    PROVE  row'[e] = row[e]
<1>. USE DEF Terminal, Active
<1>t. row \in [Exec -> Active \cup Terminal \cup {"none"}]
  BY DEF IInv, TypeOK
<1>0. ASSUME NEW f, NEW status, Commit(f, status)
      PROVE  row'[e] = row[e]
  BY <1>0, <1>t DEF Commit
<1>1. ASSUME NEW f \in Exec, startExecution(f) \/ startDetached(f) \/ StartOk(f)
      PROVE  row'[e] = row[e]
  BY <1>1, <1>t DEF startExecution, startDetached, StartOk
<1>2. ASSUME NEW f \in Exec, \/ Spawn(f) \/ StartLate(f) \/ cancelRunning(f) \/ timeout(f)
                             \/ Die(f) \/ terminationFails(f) \/ sweepSession(f)
      PROVE  row'[e] = row[e]
  BY <1>2 DEF Spawn, StartLate, cancelRunning, timeout, Die, terminationFails, sweepSession,
              entryVars
<1>3. ASSUME NEW f \in Exec, \/ StartFails(f) \/ cancelQueued(f) \/ handleChildClose(f)
                             \/ streamConsumerFails(f) \/ cancelUnregistered(f) \/ sweepQueued(f)
                             \/ settleBound(f, "cancel") \/ settleBound(f, "timeout")
      PROVE  row'[e] = row[e]
  BY <1>3, <1>0 DEF StartFails, cancelQueued, handleChildClose, streamConsumerFails,
                    cancelUnregistered, sweepQueued, settleBound, entryVars
<1>4. CASE PromoteLaunch
  <2>1. PICK i \in DOMAIN promoter.todo :
          row[promoter.todo[i]] = "queued" /\ row' = [row EXCEPT ![promoter.todo[i]] = "starting"]
    BY <1>4 DEF PromoteLaunch, FirstLaunchable, Launchable
  <2>. QED  BY <2>1, <1>t
<1>5. CASE PromoteLowDisk
  BY <1>5, <1>0 DEF PromoteLowDisk
<1>6. CASE \/ PromoteEnd \/ promoteQueuedAfterGuardChange \/ shutdown \/ graceEnds
            \/ shutdownEnds \/ sweepRejects
  BY <1>6 DEF PromoteEnd, promoteQueuedAfterGuardChange, shutdown, graceEnds, shutdownEnds,
              sweepRejects, entryVars
<1>7. CASE restart
  BY <1>7, <1>t DEF restart
<1>. QED  BY <1>1, <1>2, <1>3, <1>4, <1>5, <1>6, <1>7 DEF Next

\* For any number of executions and restarts: an execution that ended keeps its
\* status.
THEOREM TerminalFinalHolds == Spec => TerminalFinal
<1>. DEFINE P == \A e \in Exec : row[e] \in Terminal => row'[e] = row[e]
<1>1. IInv /\ [Next]_vars => [P]_vars
  BY RowMoves
<1>. QED  BY <1>1, SupervisorInvariance, PTL DEF Spec, TerminalFinal
===============================================================================
