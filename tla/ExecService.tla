----------------------------- MODULE ExecService -----------------------------
(***************************************************************************)
(* Raw prompt executions: ExecService with its replay buffers, the handle  *)
(* iterators that read them, the agent sessions it starts and the desktop  *)
(* lane a queued run waits for.                                            *)
(* Source: packages/features/exec/src/service.ts and replay.ts; the calls  *)
(* come from exec.start and exec.cancel (apps/daemon/lib/server/handlers/  *)
(* core.mts) and from the daemon's shutdown.                               *)
(*                                                                         *)
(* Each run is one request with an id of its own.  JavaScript runs to the  *)
(* next await, so one action is the code between two awaits; call[r] and   *)
(* consumer[r] say where start() and the drain loop of a run are           *)
(* suspended.  An event is its size; a buffer keeps the sizes of the       *)
(* newest events and the next sequence number.                             *)
(***************************************************************************)
EXTENDS Naturals, Sequences, SequencesExt, FiniteSets

CONSTANTS
    Run,                \* executions
    Requests,           \* what is asked of each run: a set of [Run -> Request]
    Sizes,              \* sizes of one event
    MaxRetainedEvents, MaxRetainedBytes,    \* bounds of one replay buffer
    MaxCompletedRuns, MaxCompletedBytes     \* bounds of the terminal runs

\* A raw prompt, one with a desktop operation, or none; whether the handle's
\* iterator is read; and the bound on the events that are recorded.
Request == [kind : {"none", "raw", "operation"}, reads : BOOLEAN, events : Nat]

ASSUME RequestAssumption == Requests \subseteq [Run -> Request]
ASSUME BoundAssumption ==
    /\ Sizes \subseteq Nat
    /\ {MaxRetainedEvents, MaxRetainedBytes, MaxCompletedRuns, MaxCompletedBytes}
         \subseteq Nat \ {0}

VARIABLES
    call,       \* where start() of each run is
    entry,      \* ExecEntry: request, status, cancelRequested, session
    runs,       \* the ids in #runs
    retained,   \* the terminal ids of #runs, oldest first
    consumer,   \* where the drain loop of each run is
    observed,   \* the finished event the drain loop saw
    replay,     \* ExecReplayBuffer of each run
    child,      \* the agent process; "loose": its stop could not be confirmed
    killed,     \* the runs whose session was told to stop
    reader,     \* the handle iterator of each run
    closing,    \* where close() is
    toClose,    \* close()'s live entries
    lane, phase, position, aborted, adopted     \* the desktop lane

L == INSTANCE DesktopLane WITH
         OwnerOf <- [r \in Run |-> r], Adopted <- {}

\* An id is a string: no run is the undefined owner of a free lane.
ASSUME RunAssumption == L!NoOwner \notin Run

laneVars  == <<lane, phase, position, aborted, adopted>>
runVars   == <<call, entry, runs, retained>>
drainVars == <<consumer, observed, replay>>
vars == <<runVars, drainVars, child, killed, reader, closing, toClose, laneVars>>

-----------------------------------------------------------------------------
\* ExecReplayBuffer.

Bytes(sizes) == FoldSeq(+, 0, sizes)

EmptyBuffer == [sizes |-> <<>>, next |-> 1]

Oldest(b) == b.next - Len(b.sizes)

\* #trim: the longest suffix within both ceilings, or nothing.
Trim(sizes) ==
    LET suffix(n) == SubSeq(sizes, Len(sizes) - n + 1, Len(sizes))
        keep == Max({n \in 0..Len(sizes) :
                        n = 0 \/ (n <= MaxRetainedEvents /\ Bytes(suffix(n)) <= MaxRetainedBytes)})
    IN suffix(keep)

AppendTo(b, size) == [sizes |-> Trim(Append(b.sizes, size)), next |-> b.next + 1]

ExpiredNever(b, after) == FALSE             \* mutant of Expired: gaps are skipped
Expired(b, after) == after < Oldest(b) - 1

\* The retained sequence numbers after a cursor.
ReadAfter(b, after) == {n \in Oldest(b)..(b.next - 1) : n > after}

-----------------------------------------------------------------------------
\* Entries, settlement and retention.

Terminal == {"completed", "failed", "cancelled"}
IsTerminal(r) == entry[r].status \in Terminal

NewEntry(request) ==
    [request |-> request, status |-> "none", cancelRequested |-> FALSE, session |-> FALSE]

\* exec.start registers a run with operations before it is started.
Preregistered(r) == entry[r].request.kind = "operation"

Pending == {"resolve", "lane", "client", "undo", "catch", "finalize"}

HasBoundRuns ==         \* mutant of HasActiveRuns: starts in flight are not counted
    \E r \in runs : entry[r].status = "running"

HasActiveRuns ==
    \/ \E r \in Run : call[r] \in Pending
    \/ \E r \in runs : entry[r].status = "running"

\* #pruneCompleted: how many of the oldest terminal runs go.
PruneCount(ids, buffers) ==
    LET size(n) == FoldSeq(+, 0, [i \in 1..(Len(ids) - n) |-> Bytes(buffers[ids[n + i]].sizes)])
    IN Min({n \in 0..Len(ids) :
              n = Len(ids) \/ (Len(ids) - n <= MaxCompletedRuns /\ size(n) <= MaxCompletedBytes)})

PruneForgets(ids, registered) ==    \* mutant of Prune: evicted runs stay listed
    /\ retained' = ids
    /\ runs' = registered \ {ids[i] : i \in 1..PruneCount(ids, replay)}

Prune(ids, registered) ==
    LET n == PruneCount(ids, replay)
    IN /\ retained' = SubSeq(ids, n + 1, Len(ids))
       /\ runs' = registered \ {ids[i] : i \in 1..n}

\* #wake: a waiting iterator resumes.
Woken(rs) ==
    [r \in Run |-> IF r \in rs /\ reader[r].pc = "wait"
                   THEN [reader[r] EXCEPT !.pc = "read"] ELSE reader[r]]

OutcomeObserved(e, obs) ==      \* mutant of Outcome: the terminal frame wins
    IF obs = "done" THEN "completed" ELSE IF e.cancelRequested THEN "cancelled" ELSE "failed"

Outcome(e, obs) ==
    IF e.cancelRequested THEN "cancelled"
    ELSE IF obs = "done" THEN "completed" ELSE "failed"

Settled(e, obs) ==
    IF e.status \in Terminal THEN e
    ELSE [e EXCEPT !.status = Outcome(e, obs), !.session = FALSE]

SettleSilent(rs, entries) ==    \* mutant of Settle: readers are not woken
    LET fresh == {r \in rs : ~IsTerminal(r)}
    IN /\ entry' = [r \in Run |-> IF r \in rs THEN Settled(entries[r], observed[r])
                                  ELSE entries[r]]
       /\ reader' = reader
       /\ \E ids \in SetToSeqs(fresh \cap runs) : Prune(retained \o ids, runs)

\* #settle of some runs, one after the other, with what the drain loop observed.
Settle(rs, entries) ==
    LET fresh == {r \in rs : ~IsTerminal(r)}
    IN /\ entry' = [r \in Run |-> IF r \in rs THEN Settled(entries[r], observed[r])
                                  ELSE entries[r]]
       /\ reader' = Woken(fresh)
       /\ \E ids \in SetToSeqs(fresh \cap runs) : Prune(retained \o ids, runs)

Init ==
    /\ call = [r \in Run |-> "none"]
    /\ entry \in {[r \in Run |-> NewEntry(q[r])] : q \in Requests}
    /\ runs = {} /\ retained = <<>>
    /\ consumer = [r \in Run |-> "none"]
    /\ observed = [r \in Run |-> "none"]
    /\ replay = [r \in Run |-> EmptyBuffer]
    /\ child = [r \in Run |-> "none"] /\ killed = {}
    /\ reader = [r \in Run |-> [pc |-> "none", cursor |-> 0, got |-> 0, batch |-> {}]]
    /\ closing = "open" /\ toClose = {}
    /\ L!LaneInit

-----------------------------------------------------------------------------
\* start().

StartPlain(r) ==
    /\ entry[r].request.kind = "raw" /\ call[r] = "none" /\ closing = "open"
    /\ call' = [call EXCEPT ![r] = "client"]
    /\ entry' = [entry EXCEPT ![r].status = "running"]
    /\ UNCHANGED <<runs, retained, drainVars, child, killed, reader, closing,
                   toClose, laneVars>>

\* exec.start with operations: registerQueued() and start() up to its first await.
StartQueued(r) ==
    /\ Preregistered(r) /\ call[r] = "none" /\ closing = "open"
    /\ call' = [call EXCEPT ![r] = "resolve"]
    /\ entry' = [entry EXCEPT ![r].status = "queued"]
    /\ runs' = runs \cup {r}
    /\ UNCHANGED <<retained, drainVars, child, killed, reader, closing, toClose,
                   laneVars>>

Goto(r, pc) ==
    /\ call' = [call EXCEPT ![r] = pc]
    /\ UNCHANGED <<entry, runs, retained, drainVars, reader, closing, toClose>>

\* The operation's component is not ready.
ResolveFails(r) ==
    /\ call[r] = "resolve" /\ Goto(r, "catch") /\ UNCHANGED <<child, killed, laneVars>>

AcquireLane(r) ==
    /\ call[r] = "resolve" /\ Goto(r, "lane") /\ L!Acquire(r) /\ UNCHANGED <<child, killed>>

LaneAnswers(r) ==
    /\ call[r] = "lane"
    /\ \/ phase[r] = "held" /\ Goto(r, "client")
       \/ phase[r] = "refused" /\ Goto(r, "catch")
    /\ UNCHANGED <<child, killed, laneVars>>

\* session.cancel() has an answer, and the session has closed its stream: the
\* process tree is gone, or the session gave up confirming that.
StopAnswered(r) == child[r] \in {"dead", "loose"}

\* The rest of the preparation, client.prepare or client.start rejects.
ClientFails(r) ==
    /\ call[r] = "client" /\ child[r] # "live"
    /\ Goto(r, "catch") /\ UNCHANGED <<child, killed, laneVars>>

\* client.start spawns the agent before its promise resolves.
Spawn(r) ==
    /\ call[r] = "client" /\ child[r] = "none"
    /\ child' = [child EXCEPT ![r] = "live"]
    /\ UNCHANGED <<runVars, drainVars, killed, reader, closing, toClose, laneVars>>

StartedLateLeft(r) ==   \* mutant of StartedLate: the session is not cancelled
    /\ call[r] = "client" /\ child[r] # "none"
    /\ closing # "open" \/ IsTerminal(r)
    /\ Goto(r, "catch") /\ UNCHANGED <<child, killed, laneVars>>

\* client.start resolved too late: the session is cancelled.
StartedLate(r) ==
    /\ call[r] = "client" /\ child[r] # "none"
    /\ closing # "open" \/ IsTerminal(r)
    /\ Goto(r, "undo")
    /\ killed' = killed \cup {r}
    /\ UNCHANGED <<child, laneVars>>

\* client.start resolved: #bind registers the run and starts the drain loop.
Bind(r) ==
    /\ call' = [call EXCEPT ![r] = "returned"]
    /\ entry' = [entry EXCEPT ![r].status = "running", ![r].session = TRUE]
    /\ consumer' = [consumer EXCEPT ![r] = "drain"]
    /\ Prune(retained, runs \cup {r})
    /\ UNCHANGED <<observed, replay, child, killed, reader, closing, toClose,
                   laneVars>>

StartedCancelled(r) ==  \* mutant of Started: entry.terminal is not looked at
    call[r] = "client" /\ child[r] # "none" /\ closing = "open" /\ Bind(r)

StartedClosed(r) ==     \* mutant of Started: #closed is not looked at
    call[r] = "client" /\ child[r] # "none" /\ ~IsTerminal(r) /\ Bind(r)

Started(r) ==
    /\ call[r] = "client" /\ child[r] # "none"
    /\ closing = "open" /\ ~IsTerminal(r)
    /\ Bind(r)

UndoneAtOnce(r) ==      \* mutant of Undone: session.cancel() is not awaited
    call[r] = "undo" /\ Goto(r, "catch") /\ UNCHANGED <<child, killed, laneVars>>

Undone(r) ==
    /\ call[r] = "undo" /\ StopAnswered(r)
    /\ Goto(r, "catch") /\ UNCHANGED <<child, killed, laneVars>>

\* The preparation's release() gives the lane up first.
ReleaseLane(r) ==
    IF phase[r] = "held" THEN L!Release(r) ELSE UNCHANGED laneVars

Catch(r) ==
    /\ call[r] = "catch" /\ Goto(r, "finalize") /\ ReleaseLane(r) /\ UNCHANGED <<child, killed>>

\* Only a preregistered run is settled; another was never published.
Finalized(r) ==
    /\ call[r] = "finalize"
    /\ call' = [call EXCEPT ![r] = "rejected"]
    /\ IF Preregistered(r) THEN Settle({r}, entry)
       ELSE UNCHANGED <<entry, runs, retained, reader>>
    /\ UNCHANGED <<drainVars, child, killed, closing, toClose, laneVars>>

-----------------------------------------------------------------------------
\* The drain loop, #consume.

\* #record of a finished event, of another retained one, or of an internal one.
Record(r, kind, size) ==
    /\ consumer[r] = "drain"
    /\ kind # "internal" => replay[r].next <= entry[r].request.events
    /\ observed' = [observed EXCEPT ![r] = IF kind \in {"done", "failed"} THEN kind ELSE @]
    /\ replay' = [replay EXCEPT ![r] = IF kind = "internal" THEN @ ELSE AppendTo(@, size)]
    /\ reader' = Woken({r})
    /\ UNCHANGED <<runVars, consumer, child, killed, closing, toClose, laneVars>>

Drained(r) ==
    /\ consumer' = [consumer EXCEPT ![r] = "release"]
    /\ Settle({r}, entry)
    /\ UNCHANGED <<call, observed, replay, child, closing, toClose, laneVars>>

\* The session closes its stream after it stopped the process tree, or tried to.
StreamEnds(r) ==
    /\ consumer[r] = "drain" /\ StopAnswered(r)
    /\ killed' = killed \cup {r}
    /\ Drained(r)

StreamFails(r) ==
    /\ consumer[r] = "drain"
    /\ consumer' = [consumer EXCEPT ![r] = "cancel"]
    /\ killed' = killed \cup {r}
    /\ UNCHANGED <<runVars, observed, replay, child, reader, closing, toClose,
                   laneVars>>

StreamCancelled(r) ==
    /\ consumer[r] = "cancel" /\ StopAnswered(r)
    /\ Drained(r) /\ UNCHANGED killed

ReleaseRun(r) ==
    /\ consumer[r] = "release"
    /\ consumer' = [consumer EXCEPT ![r] = "ended"]
    /\ ReleaseLane(r)
    /\ UNCHANGED <<runVars, observed, replay, child, killed, reader, closing, toClose>>

-----------------------------------------------------------------------------
\* cancel() and close().

Requested(rs) == [r \in Run |-> [entry[r] EXCEPT !.cancelRequested = @ \/ r \in rs]]

\* onCancel() of the runs that have no session aborts their wait for the lane.
OnCancel(rs) == L!Abort({r \in rs : ~entry[r].session})

CancelQueued(r) ==
    /\ ~entry[r].session
    /\ OnCancel({r})
    /\ Settle({r}, Requested({r}))
    /\ UNCHANGED killed

CancelSession(r) ==
    /\ entry[r].session
    /\ entry' = Requested({r})
    /\ killed' = killed \cup {r}
    /\ UNCHANGED <<runs, retained, reader, laneVars>>

Cancel(r) ==
    /\ r \in runs /\ ~IsTerminal(r)
    /\ CancelQueued(r) \/ CancelSession(r)
    /\ UNCHANGED <<call, drainVars, child, closing, toClose>>

Close ==
    /\ closing = "open"
    /\ closing' = "cancelling"
    /\ toClose' = {r \in runs : ~IsTerminal(r)}
    /\ entry' = Requested(toClose')
    /\ killed' = killed \cup {r \in toClose' : entry[r].session}
    /\ OnCancel(toClose')
    /\ UNCHANGED <<call, runs, retained, drainVars, child, reader>>

CloseCancelled ==
    /\ closing = "cancelling"
    /\ \A r \in toClose : entry[r].session => StopAnswered(r)
    /\ closing' = "draining"
    /\ UNCHANGED <<runVars, drainVars, child, killed, reader, toClose, laneVars>>

\* The consumers ended or their window passed; what is still live is settled.
CloseSettles ==
    /\ closing = "draining"
    /\ closing' = "closed"
    /\ Settle(toClose, entry)
    /\ UNCHANGED <<call, drainVars, child, killed, toClose, laneVars>>

\* requestShutdown closes the lane before the service.
ShutLane ==
    /\ L!CloseLane
    /\ UNCHANGED <<runVars, drainVars, child, killed, reader, closing, toClose>>

\* The session stops the process tree, because it was told to or because it
\* failed by itself, and cannot confirm that the tree is gone: it may live on.
TerminationFails(r) ==
    /\ child[r] = "live"
    /\ child' = [child EXCEPT ![r] = "loose"]
    /\ killed' = killed \cup {r}
    /\ UNCHANGED <<runVars, drainVars, reader, closing, toClose, laneVars>>

\* The agent process ends.
Die(r) ==
    /\ child[r] = "live"
    /\ child' = [child EXCEPT ![r] = "dead"]
    /\ UNCHANGED <<runVars, drainVars, killed, reader, closing, toClose, laneVars>>

-----------------------------------------------------------------------------
\* The handle's iterator: events(), yield, status check, wait.

Throws(r, d) == r \notin runs \/ Expired(replay[r], d.cursor)

\* After a batch: wait while the run is running, else read what remains.
Checked(r, d) ==
    IF r \in runs /\ entry[r].status = "running" THEN [d EXCEPT !.pc = "wait"]
    ELSE IF Throws(r, d) THEN [d EXCEPT !.pc = "threw"]
    ELSE LET rest == ReadAfter(replay[r], d.cursor)
         IN [d EXCEPT !.pc = IF rest = {} THEN "done" ELSE "last", !.batch = rest]

Iterated(r, d) ==
    IF Throws(r, d) THEN [d EXCEPT !.pc = "threw"]
    ELSE LET batch == ReadAfter(replay[r], d.cursor)
         IN IF batch = {} THEN Checked(r, d) ELSE [d EXCEPT !.pc = "yield", !.batch = batch]

Read(r) ==
    /\ entry[r].request.reads
    /\ \/ reader[r].pc = "none" /\ call[r] = "returned"
       \/ reader[r].pc = "read"
    /\ reader' = [reader EXCEPT ![r] = Iterated(r, @)]
    /\ UNCHANGED <<runVars, drainVars, child, killed, closing, toClose, laneVars>>

\* One event is handed to the consumer, who may take its time.
Yield(r) ==
    /\ reader[r].pc \in {"yield", "last"} /\ reader[r].batch # {}
    /\ LET seq == Min(reader[r].batch)
       IN reader' = [reader EXCEPT ![r].cursor = seq, ![r].got = @ + 1,
                                   ![r].batch = @ \ {seq}]
    /\ UNCHANGED <<runVars, drainVars, child, killed, closing, toClose, laneVars>>

Resume(r) ==
    /\ reader[r].pc \in {"yield", "last"} /\ reader[r].batch = {}
    /\ reader' = [reader EXCEPT ![r] = IF @.pc = "last" THEN [@ EXCEPT !.pc = "done"]
                                       ELSE Checked(r, @)]
    /\ UNCHANGED <<runVars, drainVars, child, killed, closing, toClose, laneVars>>

-----------------------------------------------------------------------------
StartStep(r) ==
    \/ ResolveFails(r) \/ AcquireLane(r) \/ LaneAnswers(r) \/ ClientFails(r)
    \/ StartedLate(r) \/ Started(r) \/ Undone(r) \/ Catch(r) \/ Finalized(r)

DrainStep(r) == StreamEnds(r) \/ StreamCancelled(r) \/ ReleaseRun(r)

ReadStep(r) == Read(r) \/ Yield(r) \/ Resume(r)

Next ==
    \/ \E r \in Run :
         \/ StartPlain(r) \/ StartQueued(r) \/ StartStep(r) \/ Spawn(r) \/ Die(r)
         \/ TerminationFails(r)
         \/ \E kind \in {"output", "done", "failed", "internal"}, size \in Sizes :
              Record(r, kind, size)
         \/ StreamFails(r) \/ DrainStep(r)
         \/ Cancel(r) \/ ReadStep(r)
    \/ Close \/ CloseCancelled \/ CloseSettles \/ ShutLane

\* Promises of the runtime settle, a killed process dies or its session gives
\* up, and then the stream ends.  Nobody has to start, cancel, close, emit or exit.
Fairness ==
    /\ \A r \in Run : WF_vars(StartStep(r) \/ DrainStep(r) \/ (r \in killed /\ Die(r)))
    /\ \A r \in Run : WF_vars(ReadStep(r))
    /\ WF_vars(CloseCancelled \/ CloseSettles)

Spec == Init /\ [][Next]_vars /\ Fairness

-----------------------------------------------------------------------------
TypeOK ==
    /\ call \in [Run -> Pending \cup {"none", "returned", "rejected"}]
    /\ entry \in [Run -> [status : Terminal \cup {"none", "queued", "running"},
                          cancelRequested : BOOLEAN, session : BOOLEAN, request : Request]]
    /\ runs \subseteq Run /\ retained \in Seq(Run) /\ ToSet(retained) \subseteq runs
    /\ consumer \in [Run -> {"none", "drain", "cancel", "release", "ended"}]
    /\ observed \in [Run -> {"none", "done", "failed"}]
    /\ \A r \in Run : replay[r].sizes \in Seq(Sizes) /\ replay[r].next \in 1..(entry[r].request.events + 1)
    /\ child \in [Run -> {"none", "live", "loose", "dead"}] /\ killed \subseteq Run
    /\ reader \in [Run -> [pc : {"none", "read", "yield", "last", "wait", "done", "threw"},
                           cursor : Nat, got : Nat, batch : SUBSET Nat]]
    /\ closing \in {"open", "cancelling", "draining", "closed"} /\ toClose \subseteq Run
    /\ L!LaneTypeOK

(* However cancel(), failStart() and close() race a start in flight, the   *)
(* agent of a run that is over, or of a closed service, has been told to   *)
(* stop, unless its start() is still to return and will find out.          *)
NoOrphan ==
    \A r \in Run : (child[r] \in {"live", "loose"} /\ (IsTerminal(r) \/ closing = "closed"))
                     => r \in killed \/ call[r] = "client"

(* While an agent process is alive, an open service reports active runs:   *)
(* the daemon replaces the clients' executables only when it does not.     *)
(* Not covered is an agent whose stop could not be confirmed ("loose"):    *)
(* its stream is closed all the same, the run settles, and nothing of the  *)
(* service shows the process any more.                                     *)
ActiveSeen ==
    closing = "open" => \A r \in Run : child[r] = "live" => HasActiveRuns

(* No two runs with a desktop operation have a live agent that its session *)
(* answers for: the lane goes to the next run only after the previous      *)
(* process is gone, or its session gave up stopping it ("loose"), whether  *)
(* the run ended, failed, was cancelled or was started too late.  So a     *)
(* loose agent may still be at the desktop beside the next one; NoOrphan   *)
(* says that it was told to stop.  A run that has the lane still has a     *)
(* start() or a drain loop that gives it back.                             *)
OneDesktop ==
    /\ Cardinality({r \in Run : Preregistered(r) /\ child[r] = "live"}) <= 1
    /\ \A r \in Run : phase[r] = "held"
         => call[r] \in {"lane", "client", "undo", "catch"}
              \/ consumer[r] \in {"drain", "cancel", "release"}

(* The iterator yields every event exactly once and in order; when it ends *)
(* normally nothing recorded was left out, however slowly it was read      *)
(* while the buffer was trimmed and the run finished (unless close() had   *)
(* to settle the run before its stream ended).  It fails only if its       *)
(* events were trimmed, or the run is over and retention dropped it.       *)
ReaderComplete ==
    \A r \in Run :
        /\ reader[r].got = reader[r].cursor
        /\ reader[r].pc = "done" => reader[r].cursor = replay[r].next - 1
                                      \/ r \in toClose
        /\ reader[r].pc = "threw" =>
              reader[r].cursor + 1 < Oldest(replay[r]) \/ (IsTerminal(r) /\ r \notin runs)

(* A terminal run never changes: neither a late frame, a late settlement   *)
(* nor a start that resolves after a cancel revives or relabels it.        *)
TerminalFinal ==
    [][\A r \in Run : IsTerminal(r) => entry'[r].status = entry[r].status]_vars

(* close() ends everything: eventually every agent is gone or was given up *)
(* by its session, every run that was published is terminal and nobody has *)
(* or awaits the desktop lane.                                             *)
CloseEnds ==
    closing # "open" ~>
        /\ closing = "closed"
        /\ \A r \in Run : child[r] # "live" /\ (r \in runs => IsTerminal(r))
        /\ \A r \in Run : phase[r] \notin {"waiting", "held"}

(* A cancel that was accepted ends the run and its agent (or reports that  *)
(* it could not), and decides the outcome, whichever of the terminal       *)
(* frame, the end of the stream and the settlement comes first.            *)
CancelTakes ==
    \A r \in Run :
        entry[r].cancelRequested ~> (entry[r].status = "cancelled" /\ child[r] # "live")

(* An iterator never hangs on a run that is over: the settlement wakes it, *)
(* and it drains what is left or fails.                                    *)
ReaderEnds ==
    \A r \in Run : (reader[r].pc # "none" /\ IsTerminal(r))
                        ~> reader[r].pc \in {"done", "threw"}
=============================================================================
