--------------------------- MODULE TaskGraphRunner ---------------------------
(***************************************************************************)
(* One task graph of the daemon: its durable projection (SQLite), the      *)
(* GraphRunner that owns it while the daemon process lives, the task runs  *)
(* it dispatches through the task bridge, the clients that signal and      *)
(* patch it, and crashes of the daemon with recovery on the next start.    *)
(* Source: apps/daemon/lib/core/taskgraph/{runner,store,service,           *)
(* task-bridge}.mts and signals/catalog.mts.                               *)
(*                                                                         *)
(* Grain.  The runner handles one queued event at a time.  A handler is    *)
(* cut into steps where it awaits something, and between two durable       *)
(* writes that are not one transaction, because the process can die there. *)
(* fr is the program position and the live locals of the handler.          *)
(***************************************************************************)
EXTENDS TaskGraph, Sequences

CONSTANTS
    InitialGraphs,      \* graphs a client may create
    Patches,            \* patches a client may request: sets of PatchOp
    Signals,            \* control signals the clients use
    MaxQueue,           \* bound: a client sends only while the queue is shorter
    MaxPatches,         \* bound: patches ever stored for the graph
    MaxCrashes,         \* bound: crashes of the daemon process
    ReattachMayThrow    \* the bridge's reattach may throw (the shipped one never does)

GraphSignals == {"start_graph", "pause_graph", "resume_graph", "cancel_graph"}

ASSUME GraphAssumption ==
    \A g \in InitialGraphs : g \in [Node -> NodeDef] /\ WellFormed(g)
ASSUME PatchAssumption ==
    Patches \subseteq SUBSET PatchOp
ASSUME SignalAssumption ==
    Signals \subseteq GraphSignals \cup {"resume_checkpoint"}
ASSUME BoundAssumption ==
    /\ MaxQueue \in Nat /\ MaxPatches \in Nat /\ MaxCrashes \in Nat
    /\ ReattachMayThrow \in BOOLEAN

VARIABLES
    \* durable: the TaskGraph tables
    run,        \* taskgraph_run row
    graph,      \* taskgraph_graph row
    rows,       \* taskgraph_node_state rows
    failedLog,  \* nodes of the journal's taskgraph.node.failed rows, in order
    patches,    \* stored patches
    \* the task runs the bridge started: they outlive the daemon process
    tasks,
    \* volatile: the daemon process and its GraphRunner
    phase,      \* "down", "boot" (startup reconciliation) or "serving"
    up,         \* a GraphRunner exists for the graph
    queue,      \* its event queue
    observed,   \* its observedTaskRuns, with the node each is observed for
    fr,         \* where its current handler is
    crashes     \* crashes so far

durable  == <<run, graph, rows, failedLog, patches>>
process  == <<phase, up, crashes>>
vars     == <<durable, tasks, process, queue, observed, fr>>

-----------------------------------------------------------------------------
(***************************************************************************)
(* State.                                                                  *)
(***************************************************************************)
NoRun    == 0       \* task_run_id NULL
Rejected == -1      \* the pseudo id "dispatch:<node>" of a refused dispatch

RunState  == {"absent", "created", "running", "paused", "done", "cancelled"}
Terminal  == {"done", "cancelled"}
NodeState == {"none", "planned", "running", "waiting", "done", "failed",
              "interrupted", "cancelled"}

Row(s, r, b) == [state |-> s, run |-> r, branch |-> b]

NoRow == Row("none", NoRun, NoNode)

\* Control points of the runner.  "idle": between events.
PC == {"idle", "recover", "pauseRun", "begin", "cancel", "started", "tick",
       "scan", "active", "bind"}

\* ret: where a nested failNode returns; recs: nodes recovery has still to
\* visit; failed: recoveredFailure; todo: nodes the scan or the cancellation
\* loop has still to visit; changed: the scan changed a node; cur, bound: the
\* node being activated and its new task run; pending: cancels not settled.
IdleFrame == [pc |-> "idle", ret |-> "idle", recs |-> {}, failed |-> FALSE,
              todo |-> {}, changed |-> FALSE, cur |-> NoNode,
              bound |-> NoRun, pending |-> {}]

At(pc) == up /\ fr.pc = pc

Goto(pc) == [IdleFrame EXCEPT !.pc = pc]

\* Return from failNode / beginCancellation to the caller.
Return(f) == [f EXCEPT !.pc = f.ret, !.ret = "idle", !.todo = {},
                       !.pending = {}, !.cur = NoNode]

Recover == [kind |-> "recover"]
TaskTerminal(n, r, ok) ==
    [kind |-> "task_terminal", node |-> n, run |-> r, ok |-> ok]

Event ==
    [kind : {"recover"} \cup GraphSignals]
    \cup [kind : {"resume_checkpoint"}, node : Node]
    \cup [kind : {"patch_request"}, ops : Patches, base : Nat]
    \cup [kind : {"patch_confirm", "patch_reject"}, patch : Nat \ {0}]
    \cup [kind : {"task_terminal"}, node : Node, run : Int, ok : BOOLEAN]

NodeStates == [n \in Node |-> rows[n].state]

InState(s) == {n \in Node : rows[n].state = s}

\* The first element in the order of node ids.
First(n, S) == n \in S /\ \A m \in S : n <= m

Init ==
    /\ run = [state |-> "absent", cancelRequested |-> FALSE,
              policy |-> "pause", cause |-> NoNode, revision |-> 0]
    /\ graph = [n \in Node |-> AbsentDef]
    /\ rows = [n \in Node |-> NoRow]
    /\ failedLog = <<>> /\ patches = <<>> /\ tasks = <<>>
    /\ phase = "serving" /\ up = FALSE /\ crashes = 0
    /\ queue = <<>> /\ observed = {} /\ fr = IdleFrame

-----------------------------------------------------------------------------
(***************************************************************************)
(* Clients (TaskGraphService) and the process.                             *)
(***************************************************************************)

\* TaskGraphService.create: a new runner validates the graph and stores the
\* projection in one transaction.
Create ==
    /\ phase = "serving" /\ run.state = "absent"
    /\ \E g \in InitialGraphs, p \in {"pause", "cancel"} :
          /\ run' = [state |-> "created", cancelRequested |-> FALSE,
                     policy |-> p, cause |-> NoNode, revision |-> 1]
          /\ graph' = g
          /\ rows' = [n \in Node |->
                        IF n \in Ids(g) THEN Row("planned", NoRun, NoNode)
                                        ELSE NoRow]
    /\ up' = TRUE
    /\ UNCHANGED <<failedLog, patches, tasks, phase, crashes, queue,
                   observed, fr>>

\* TaskGraphService.runner: the first use after a start of the daemon makes the
\* runner, whose constructor queues its recovery.
QueueWithRunner == IF up THEN queue ELSE <<Recover>>

PatchesAsked ==
    Len(patches)
      + Cardinality({i \in DOMAIN queue : queue[i].kind = "patch_request"})

ClientEvent ==
    [kind : Signals \cap GraphSignals]
    \cup [kind : Signals \cap {"resume_checkpoint"}, node : Node]
    \cup (IF PatchesAsked < MaxPatches
          THEN [kind : {"patch_request"}, ops : Patches, base : {run.revision}]
          ELSE {})
    \cup [kind : {"patch_confirm", "patch_reject"}, patch : DOMAIN patches]

\* TaskGraphService.signal / patch / rejectPatch, and cancelActive, which sends
\* cancel_graph: a request is queued, to be handled later.
Send(e) ==
    /\ phase = "serving" /\ run.state # "absent" /\ Len(queue) < MaxQueue
    /\ queue' = Append(QueueWithRunner, e)
    /\ up' = TRUE
    /\ UNCHANGED <<durable, tasks, phase, crashes, observed, fr>>

\* TaskGraphService.status / events / inspect: a read, but one that makes the
\* runner when there is none.
Read ==
    /\ phase = "serving" /\ run.state # "absent" /\ ~up
    /\ queue' = QueueWithRunner
    /\ up' = TRUE
    /\ UNCHANGED <<durable, tasks, phase, crashes, observed, fr>>

\* The daemon process dies, or exits: everything volatile is gone.
Crash ==
    /\ phase # "down" /\ run.state # "absent" /\ crashes < MaxCrashes
    /\ phase' = "down" /\ crashes' = crashes + 1
    /\ up' = FALSE /\ queue' = <<>> /\ observed' = {} /\ fr' = IdleFrame
    /\ UNCHANGED <<durable, tasks>>

\* Mutant: startup forgets cancellations in flight.
ActionableNoIntent ==
    \/ run.state = "running"
    \/ run.state = "paused" /\ InState("running") # {}

\* TaskGraphStore.listActionableRuns
Actionable ==
    \/ run.state = "running"
    \/ run.cancelRequested
    \/ run.state = "paused" /\ InState("running") # {}
    \/ run.state = "paused" /\ run.policy = "cancel" /\ InState("failed") # {}

\* TaskGraphService.reconcileStartup: runners for the actionable graphs only.
Boot ==
    /\ phase = "down"
    /\ phase' = "boot"
    /\ up' = Actionable
    /\ queue' = IF Actionable THEN <<Recover>> ELSE <<>>
    /\ UNCHANGED <<durable, tasks, crashes, observed, fr>>

\* reconcileStartup awaits whenIdle; only then is the IPC server opened.
Serve ==
    /\ phase = "boot" /\ queue = <<>> /\ fr.pc = "idle"
    /\ phase' = "serving"
    /\ UNCHANGED <<durable, tasks, up, crashes, queue, observed, fr>>

\* A task run reaches a terminal state by itself.  "failed" stands for every
\* terminal that is not a usable result: failed, cancelled, interrupted, or
\* done with an output that does not fit the node's schema.
TaskFinish(r) ==
    /\ tasks[r].status = "live"
    /\ \E s \in {"done", "failed"} : tasks' = [tasks EXCEPT ![r].status = s]
    /\ UNCHANGED <<durable, process, queue, observed, fr>>

\* The promise of an observed handle settles: its terminal is queued, once.
\* A refused dispatch is unknown to the task service and reported as failed.
Delivered(r, n) ==
    \E i \in DOMAIN queue :
        /\ queue[i].kind = "task_terminal"
        /\ queue[i].run = r /\ queue[i].node = n

Deliver(r, n) ==
    /\ <<r, n>> \in observed /\ ~Delivered(r, n)
    /\ r # Rejected => tasks[r].status # "live"
    /\ queue' = Append(queue, TaskTerminal(n, r, r # Rejected
                                                   /\ tasks[r].status = "done"))
    /\ UNCHANGED <<durable, tasks, process, observed, fr>>

-----------------------------------------------------------------------------
(***************************************************************************)
(* failNode and cancellation.                                              *)
(***************************************************************************)

\* Mutant: the journal row names the task run instead of the node.
FailNodeLogsRun(n, r, f) ==
    /\ rows' = [rows EXCEPT ![n] = Row("failed", r, NoNode)]
    /\ failedLog' = Append(failedLog, r)
    /\ run' = [run EXCEPT !.cancelRequested = TRUE]
    /\ fr' = [f EXCEPT !.pc = "begin"]

\* Mutant: a later failure replaces the cause.
FailNodeLastCause(n, r, f) ==
    /\ rows' = [rows EXCEPT ![n] = Row("failed", r, NoNode)]
    /\ failedLog' = Append(failedLog, n)
    /\ run' = [run EXCEPT !.cancelRequested = TRUE, !.cause = n]
    /\ fr' = [f EXCEPT !.pc = "begin"]

\* failNode(n) with task run r, called by handler frame f, which continues at
\* f.ret.  Cancel policy: failed row, journal row, first cause and intent are
\* one transaction.  Pause policy: the pause is a later write of its own.
FailNode(n, r, f) ==
    /\ rows' = [rows EXCEPT ![n] = Row("failed", r, NoNode)]
    /\ failedLog' = Append(failedLog, n)
    /\ IF run.policy = "cancel"
       THEN /\ run' = [run EXCEPT !.cancelRequested = TRUE,
                                  !.cause = IF @ = NoNode THEN n ELSE @]
            /\ fr' = [f EXCEPT !.pc = "begin"]
       ELSE /\ fr' = IF run.state # "paused"
                     THEN [f EXCEPT !.pc = "pauseRun"] ELSE Return(f)
            /\ run' = run

PauseRun ==
    /\ At("pauseRun")
    /\ run' = [run EXCEPT !.state = "paused"]
    /\ fr' = Return(fr)
    /\ UNCHANGED <<graph, rows, failedLog, patches, tasks, process, queue,
                   observed>>

\* beginCancellation: intent first, then the loop over the node rows.
BeginCancellation ==
    /\ At("begin")
    /\ run' = [run EXCEPT !.cancelRequested = TRUE]
    /\ fr' = [fr EXCEPT !.pc = "cancel", !.pending = {},
                        !.todo = InState("planned") \cup InState("waiting")
                                   \cup InState("running")]
    /\ UNCHANGED <<graph, rows, failedLog, patches, tasks, process, queue,
                   observed>>

\* One row of the loop, in the order of ids.
CancelNode(n) ==
    /\ At("cancel") /\ First(n, fr.todo)
    /\ LET r == rows[n].run IN
       \/ /\ rows[n].state \in {"planned", "waiting"}
          /\ rows' = [rows EXCEPT ![n] = Row("cancelled", NoRun, NoNode)]
          /\ fr' = [fr EXCEPT !.todo = @ \ {n}]
       \/ /\ rows[n].state = "running" /\ r # NoRun
          /\ fr' = [fr EXCEPT !.todo = @ \ {n}, !.pending = @ \cup {r}]
          /\ rows' = rows
       \/ /\ rows[n].state = "running" /\ r = NoRun
          /\ rows' = [rows EXCEPT ![n] = Row("interrupted", NoRun, NoNode)]
          /\ fr' = [fr EXCEPT !.todo = @ \ {n}]
    /\ UNCHANGED <<run, graph, failedLog, patches, tasks, process, queue,
                   observed>>

\* taskBridge.cancel settles: the run was stopped, or the cancel failed (its
\* rejection is swallowed) and the run goes on.
SettleCancel(r) ==
    /\ At("cancel") /\ fr.todo = {} /\ r \in fr.pending
    /\ fr' = [fr EXCEPT !.pending = @ \ {r}]
    /\ \/ tasks' = tasks
       \/ /\ r \in DOMAIN tasks /\ tasks[r].status = "live"
          /\ tasks' = [tasks EXCEPT ![r].status = "failed"]
    /\ UNCHANGED <<durable, process, queue, observed>>

FinishCancelled(r) ==
    IF r.state = "cancelled" THEN r
    ELSE [r EXCEPT !.state = "cancelled", !.cancelRequested = FALSE]

FinishDone(r) ==
    IF r.state = "done" THEN r
    ELSE [r EXCEPT !.state = "done", !.cancelRequested = FALSE]

\* convergeCancellation on a run r whose rows are t
Converged(r, t) ==
    IF r.cancelRequested /\ \A n \in Node : t[n].state # "running"
    THEN FinishCancelled(r) ELSE r

ConvergeCancellation ==
    /\ At("cancel") /\ fr.todo = {} /\ fr.pending = {}
    /\ run' = Converged(run, rows)
    /\ fr' = Return(fr)
    /\ UNCHANGED <<graph, rows, failedLog, patches, tasks, process, queue,
                   observed>>

-----------------------------------------------------------------------------
(***************************************************************************)
(* handleRecover.                                                          *)
(***************************************************************************)
NextEvent(kind) == up /\ fr.pc = "idle" /\ queue # <<>> /\ Head(queue).kind = kind

\* repairCancelPolicyFailure: a cancel-policy run with a failed node and no
\* intent or no cause gets both; the cause is the earliest journalled failure
\* of a node that is still failed (with no journal row, some failed node: the
\* code falls back to row timestamps).
EarliestFailure ==
    LET still == {i \in DOMAIN failedLog : rows[failedLog[i]].state = "failed"}
    IN  IF still = {} THEN CHOOSE n \in InState("failed") : TRUE
        ELSE failedLog[CHOOSE i \in still : \A j \in still : i <= j]

RepairCancelPolicyFailure(r) ==
    IF \/ r.policy # "cancel"
       \/ r.cancelRequested /\ r.cause # NoNode
       \/ InState("failed") = {}
    THEN r
    ELSE [r EXCEPT !.cancelRequested = TRUE,
                   !.cause = IF @ = NoNode THEN EarliestFailure ELSE @]

\* Mutant: only a running graph has its task runs reattached.
HandleRecoverRunningOnly ==
    /\ NextEvent("recover")
    /\ queue' = Tail(queue)
    /\ run' = RepairCancelPolicyFailure(run)
    /\ fr' = [Goto("recover") EXCEPT
                !.recs = IF run.state = "running" THEN InState("running") ELSE {}]
    /\ UNCHANGED <<graph, rows, failedLog, patches, tasks, process, observed>>

HandleRecover ==
    /\ NextEvent("recover")
    /\ queue' = Tail(queue)
    /\ run' = RepairCancelPolicyFailure(run)
    /\ fr' = [Goto("recover") EXCEPT !.recs = InState("running")]
    /\ UNCHANGED <<graph, rows, failedLog, patches, tasks, process, observed>>

\* A running row with a task run: reattach and observe it.
RecoverReattach(n) ==
    /\ At("recover") /\ First(n, fr.recs) /\ rows[n].run # NoRun
    /\ observed' = observed \cup {<<rows[n].run, n>>}
    /\ fr' = [fr EXCEPT !.recs = @ \ {n}]
    /\ UNCHANGED <<durable, tasks, process, queue>>

\* Mutant: an unbound node is planned again instead of failed.
RecoverFailReplans(n) ==
    /\ At("recover") /\ First(n, fr.recs) /\ rows[n].run = NoRun
    /\ rows' = [rows EXCEPT ![n] = Row("planned", NoRun, NoNode)]
    /\ fr' = [fr EXCEPT !.recs = @ \ {n}]
    /\ UNCHANGED <<run, graph, failedLog, patches, tasks, process, queue,
                   observed>>

\* A running row without a task run, or one whose reattach throws, fails.
RecoverFail(n) ==
    /\ At("recover") /\ First(n, fr.recs)
    /\ rows[n].run # NoRun => ReattachMayThrow
    /\ FailNode(n, rows[n].run,
                [fr EXCEPT !.recs = @ \ {n}, !.failed = TRUE, !.ret = "recover"])
    /\ UNCHANGED <<graph, patches, tasks, process, queue, observed>>

\* Mutant: a cancellation cut short by the crash is not issued again.
RecoverDoneNoReissue ==
    /\ At("recover") /\ fr.recs = {}
    /\ fr' = IF ~fr.failed /\ run.state = "running" THEN Goto("tick")
             ELSE IdleFrame
    /\ UNCHANGED <<durable, tasks, process, queue, observed>>

RecoverDone ==
    /\ At("recover") /\ fr.recs = {}
    /\ fr' = IF fr.failed THEN IdleFrame
             ELSE IF run.cancelRequested THEN Goto("begin")
             ELSE IF run.state = "running" THEN Goto("tick")
             ELSE IdleFrame
    /\ UNCHANGED <<durable, tasks, process, queue, observed>>

-----------------------------------------------------------------------------
(***************************************************************************)
(* handleSignal, with decideTaskGraphSignal.                               *)
(***************************************************************************)
\* Mutant: a graph that is done can still be cancelled.
AcceptsCancelOfDone(kind) ==
    \/ kind = "start_graph"  /\ run.state = "created"
    \/ kind = "pause_graph"  /\ run.state = "running"
    \/ kind = "resume_graph" /\ run.state = "paused"
    \/ kind = "cancel_graph" /\ run.state # "cancelled"

Accepts(kind) ==
    \/ kind = "start_graph"  /\ run.state = "created"
    \/ kind = "pause_graph"  /\ run.state = "running"
    \/ kind = "resume_graph" /\ run.state = "paused"
    \/ kind = "cancel_graph" /\ run.state \notin Terminal

HandleSignal(kind) == NextEvent(kind) /\ queue' = Tail(queue)

HandleStart ==
    /\ HandleSignal("start_graph") /\ Accepts("start_graph")
    /\ \E s \in KindOf(graph, "start") :
          rows' = [rows EXCEPT ![s] = Row("done", NoRun, NoNode)]
    /\ fr' = Goto("started")
    /\ UNCHANGED <<run, graph, failedLog, patches, tasks, process, observed>>

StartRun ==
    /\ At("started")
    /\ run' = [run EXCEPT !.state = "running", !.cancelRequested = FALSE]
    /\ fr' = Goto("tick")
    /\ UNCHANGED <<graph, rows, failedLog, patches, tasks, process, queue,
                   observed>>

HandlePause ==
    /\ HandleSignal("pause_graph") /\ Accepts("pause_graph")
    /\ run' = [run EXCEPT !.state = "paused"]
    /\ UNCHANGED <<graph, rows, failedLog, patches, tasks, process, observed, fr>>

HandleResume ==
    /\ HandleSignal("resume_graph") /\ Accepts("resume_graph")
    /\ run' = [run EXCEPT !.state = "running"]
    /\ fr' = Goto("tick")
    /\ UNCHANGED <<graph, rows, failedLog, patches, tasks, process, observed>>

HandleCancel ==
    /\ HandleSignal("cancel_graph") /\ Accepts("cancel_graph")
    /\ fr' = Goto("begin")
    /\ UNCHANGED <<durable, tasks, process, observed>>

HandleResumeCheckpoint ==
    /\ HandleSignal("resume_checkpoint")
    /\ LET n == Head(queue).node IN
          /\ graph[n].kind = "checkpoint" /\ rows[n].state = "waiting"
          /\ rows' = [rows EXCEPT ![n] = Row("done", NoRun, NoNode)]
    /\ fr' = IF run.state = "running" THEN Goto("tick") ELSE IdleFrame
    /\ UNCHANGED <<run, graph, failedLog, patches, tasks, process, observed>>

\* The signal is not accepted in this state, or its input does not fit the
\* start node's or the checkpoint's schema.
HandleIgnored ==
    /\ \E kind \in GraphSignals \cup {"resume_checkpoint"} :
          /\ HandleSignal(kind)
          /\ kind \in {"start_graph", "resume_checkpoint"} \/ ~Accepts(kind)
    /\ UNCHANGED <<durable, tasks, process, observed, fr>>

-----------------------------------------------------------------------------
(***************************************************************************)
(* handleTaskTerminal.                                                     *)
(***************************************************************************)
Ev == Head(queue)

\* Mutant: a late terminal is applied to a graph that has ended.
ExpectedInEnded ==
    rows[Ev.node].state = "running" /\ rows[Ev.node].run = Ev.run

\* The row still waits for this task run and the graph has not ended.
Expected == /\ rows[Ev.node].state = "running" /\ rows[Ev.node].run = Ev.run
            /\ run.state \notin Terminal

TakeTerminal == /\ NextEvent("task_terminal")
                /\ queue' = Tail(queue)
                /\ observed' = observed \ {<<Ev.run, Ev.node>>}

TerminalStale ==
    /\ TakeTerminal /\ ~Expected
    /\ UNCHANGED <<durable, tasks, process, fr>>

TerminalInterrupted ==
    /\ TakeTerminal /\ Expected /\ run.cancelRequested
    /\ rows' = [rows EXCEPT ![Ev.node] = Row("interrupted", Ev.run, NoNode)]
    /\ fr' = Goto("cancel")
    /\ UNCHANGED <<run, graph, failedLog, patches, tasks, process>>

TerminalFailed ==
    /\ TakeTerminal /\ Expected /\ ~run.cancelRequested /\ ~Ev.ok
    /\ FailNode(Ev.node, Ev.run, IdleFrame)
    /\ UNCHANGED <<graph, patches, tasks, process>>

\* Mutant: the graph is not ticked after a task completed.
TerminalDoneNoTick ==
    /\ TakeTerminal /\ Expected /\ ~run.cancelRequested /\ Ev.ok
    /\ rows' = [rows EXCEPT ![Ev.node] = Row("done", Ev.run, NoNode)]
    /\ UNCHANGED <<run, graph, failedLog, patches, tasks, process, fr>>

TerminalDone ==
    /\ TakeTerminal /\ Expected /\ ~run.cancelRequested /\ Ev.ok
    /\ rows' = [rows EXCEPT ![Ev.node] = Row("done", Ev.run, NoNode)]
    /\ fr' = IF run.state = "running" THEN Goto("tick") ELSE IdleFrame
    /\ UNCHANGED <<run, graph, failedLog, patches, tasks, process>>

-----------------------------------------------------------------------------
(***************************************************************************)
(* tick: scan the planned nodes in dependency order until nothing changes. *)
(***************************************************************************)
\* Mutant: a pause in the middle of the scan does not stop it.
SchedulableWhilePaused == run.state \in {"running", "paused"} /\ ~run.cancelRequested

Schedulable == run.state = "running" /\ ~run.cancelRequested

Tick ==
    /\ At("tick")
    /\ IF ~Schedulable THEN fr' = IdleFrame /\ run' = run
       ELSE IF CompletedEnd(graph, rows)
            THEN fr' = IdleFrame /\ run' = FinishDone(run)
       ELSE /\ fr' = [Goto("scan") EXCEPT
                        !.todo = InState("planned") \ KindOf(graph, "start")]
            /\ run' = run
    /\ UNCHANGED <<graph, rows, failedLog, patches, tasks, process, queue,
                   observed>>

\* The loop reaches n: every dependency still to be visited comes first
\* (schedulingOrder; which of the admissible orders is left open).
Scans(n) == /\ At("scan") /\ Schedulable
            /\ n \in fr.todo /\ graph[n].deps \cap fr.todo = {}

Visited(n, chg) == [fr EXCEPT !.todo = @ \ {n}, !.changed = @ \/ chg]

ScanImpossible(n) ==
    /\ Scans(n) /\ DependencyStatus(graph, rows, n) = "impossible"
    /\ rows' = [rows EXCEPT ![n] = Row("cancelled", NoRun, NoNode)]
    /\ fr' = Visited(n, TRUE)
    /\ UNCHANGED <<run, graph, failedLog, patches, tasks, process, queue,
                   observed>>

ScanWaiting(n) ==
    /\ Scans(n) /\ DependencyStatus(graph, rows, n) = "waiting"
    /\ fr' = Visited(n, FALSE)
    /\ UNCHANGED <<durable, tasks, process, queue, observed>>

\* activateNode up to its first write: a checkpoint waits, any other node runs.
ScanActivate(n) ==
    /\ Scans(n) /\ DependencyStatus(graph, rows, n) = "satisfied"
    /\ IF graph[n].kind = "checkpoint"
       THEN /\ rows' = [rows EXCEPT ![n] = Row("waiting", NoRun, NoNode)]
            /\ fr' = Visited(n, TRUE)
       ELSE /\ rows' = [rows EXCEPT ![n] = Row("running", NoRun, NoNode)]
            /\ fr' = [Visited(n, TRUE) EXCEPT !.pc = "active", !.cur = n]
    /\ UNCHANGED <<run, graph, failedLog, patches, tasks, process, queue,
                   observed>>

\* activateNode: the inputs do not resolve or do not fit the input schema.
ScanFail(n) ==
    /\ Scans(n) /\ DependencyStatus(graph, rows, n) = "satisfied"
    /\ FailNode(n, NoRun, [Visited(n, TRUE) EXCEPT !.ret = "scan"])
    /\ UNCHANGED <<graph, patches, tasks, process, queue, observed>>

Scanning == [fr EXCEPT !.pc = "scan", !.cur = NoNode, !.bound = NoRun]

\* completeControlNode: a condition records the branch it chose.
CompleteControlNode ==
    /\ At("active") /\ graph[fr.cur].kind \in {"condition", "convert", "join", "end"}
    /\ \E b \in IF graph[fr.cur].kind = "condition"
                THEN graph[fr.cur].branches ELSE {NoNode} :
          rows' = [rows EXCEPT ![fr.cur] = Row("done", NoRun, b)]
    /\ fr' = Scanning
    /\ UNCHANGED <<run, graph, failedLog, patches, tasks, process, queue,
                   observed>>

\* The output, the assembled value or the task parameters are not acceptable.
FailActive ==
    /\ At("active")
    /\ FailNode(fr.cur, NoRun, [fr EXCEPT !.ret = "scan"])
    /\ UNCHANGED <<graph, patches, tasks, process, queue, observed>>

\* dispatchTask: taskBridge.start resolves.  rev is the revision at dispatch.
DispatchTask ==
    /\ At("active") /\ graph[fr.cur].kind = "task"
    /\ tasks' = Append(tasks, [node |-> fr.cur, status |-> "live",
                               rev |-> run.revision])
    /\ fr' = [fr EXCEPT !.pc = "bind", !.bound = Len(tasks) + 1]
    /\ UNCHANGED <<durable, process, queue, observed>>

\* ... and the run id is written to the row and observed.
BindTask ==
    /\ At("bind")
    /\ rows' = [rows EXCEPT ![fr.cur] = Row("running", fr.bound, NoNode)]
    /\ observed' = observed \cup {<<fr.bound, fr.cur>>}
    /\ fr' = Scanning
    /\ UNCHANGED <<run, graph, failedLog, patches, tasks, process, queue>>

\* dispatchTask: taskBridge.start rejects.  The failure is queued as a terminal
\* of a pseudo run.
DispatchRejected ==
    /\ At("active") /\ graph[fr.cur].kind = "task"
    /\ queue' = Append(queue, TaskTerminal(fr.cur, Rejected, FALSE))
    /\ rows' = [rows EXCEPT ![fr.cur] = Row("running", Rejected, NoNode)]
    /\ fr' = Scanning
    /\ UNCHANGED <<run, graph, failedLog, patches, tasks, process, observed>>

\* The end of one pass: finish, repeat, or stop; a graph with nothing left to
\* run ends as cancelled.
ScanEnd ==
    /\ At("scan") /\ (fr.todo = {} \/ ~Schedulable)
    /\ IF ~Schedulable THEN fr' = IdleFrame /\ run' = run
       ELSE IF CompletedEnd(graph, rows)
            THEN fr' = IdleFrame /\ run' = FinishDone(run)
       ELSE IF fr.changed THEN fr' = Goto("tick") /\ run' = run
       ELSE /\ fr' = IdleFrame
            /\ run' = IF \A n \in Node : ~DepPending(rows, n)
                      THEN FinishCancelled(run) ELSE run
    /\ UNCHANGED <<graph, rows, failedLog, patches, tasks, process, queue,
                   observed>>

-----------------------------------------------------------------------------
(***************************************************************************)
(* Patches.                                                                *)
(***************************************************************************)
Pending(p) == p \in DOMAIN patches /\ patches[p].status = "pending"

Consume(p, s) == [patches EXCEPT ![p].status = s]

\* handlePatchRequest: a fresh, valid patch is stored as a preview.
HandlePatchRequest ==
    /\ NextEvent("patch_request")
    /\ queue' = Tail(queue)
    /\ patches' =
          IF Ev.base = run.revision /\ ValidPatch(graph, NodeStates, Ev.ops)
          THEN Append(patches, [base |-> Ev.base, ops |-> Ev.ops,
                                post |-> PostImage(graph, Ev.ops),
                                status |-> "pending"])
          ELSE patches
    /\ UNCHANGED <<run, graph, rows, failedLog, tasks, process, observed, fr>>

\* Mutants: the confirmed patch is not validated again, or its base revision is
\* not compared again.
ApplicableUnvalidated(p) == patches[p].base = run.revision
ApplicableStale(p) == ValidPatch(graph, NodeStates, patches[p].ops)

Applicable(p) == /\ patches[p].base = run.revision
                 /\ ValidPatch(graph, NodeStates, patches[p].ops)

\* handlePatchConfirm, one transaction: the graph, its revision, the edited
\* rows and the patch itself.
HandlePatchConfirm ==
    /\ NextEvent("patch_confirm") /\ Pending(Ev.patch)
    /\ Applicable(Ev.patch)
    /\ queue' = Tail(queue)
    /\ LET ops == patches[Ev.patch].ops IN
          /\ graph' = PostImage(graph, ops)
          /\ rows' = [n \in Node |->
                IF \E o \in ops : o.id = n
                THEN IF PostImage(graph, ops)[n].kind = "absent" THEN NoRow
                     ELSE Row("planned", NoRun, NoNode)
                ELSE rows[n]]
    /\ run' = [run EXCEPT !.revision = @ + 1]
    /\ patches' = Consume(Ev.patch, "applied")
    /\ UNCHANGED <<failedLog, tasks, process, observed, fr>>

\* A stale or invalid patch is consumed as rejected; so is one whose schemas
\* or task contracts no longer resolve.
RejectOnConfirm ==
    /\ NextEvent("patch_confirm") /\ Pending(Ev.patch)
    /\ queue' = Tail(queue)
    /\ patches' = Consume(Ev.patch, "rejected")
    /\ UNCHANGED <<run, graph, rows, failedLog, tasks, process, observed, fr>>

HandlePatchReject ==
    /\ NextEvent("patch_reject") /\ Pending(Ev.patch)
    /\ queue' = Tail(queue)
    /\ patches' = Consume(Ev.patch, "rejected")
    /\ UNCHANGED <<run, graph, rows, failedLog, tasks, process, observed, fr>>

\* Confirming or rejecting a consumed patch: PATCH_NOT_FOUND, or false.
PatchNotFound ==
    /\ NextEvent("patch_confirm") \/ NextEvent("patch_reject")
    /\ ~Pending(Ev.patch)
    /\ queue' = Tail(queue)
    /\ UNCHANGED <<durable, tasks, process, observed, fr>>

-----------------------------------------------------------------------------
RunnerStep ==
    \/ HandleRecover \/ RecoverDone
    \/ \E n \in Node : RecoverReattach(n) \/ RecoverFail(n)
    \/ PauseRun \/ BeginCancellation \/ ConvergeCancellation
    \/ \E n \in Node : CancelNode(n)
    \/ HandleStart \/ StartRun \/ HandlePause \/ HandleResume \/ HandleCancel
    \/ HandleResumeCheckpoint \/ HandleIgnored
    \/ TerminalStale \/ TerminalInterrupted \/ TerminalFailed \/ TerminalDone
    \/ Tick \/ ScanEnd
    \/ \E n \in Node : \/ ScanImpossible(n) \/ ScanWaiting(n)
                       \/ ScanActivate(n) \/ ScanFail(n)
    \/ CompleteControlNode \/ FailActive
    \/ DispatchTask \/ BindTask \/ DispatchRejected
    \/ HandlePatchRequest \/ HandlePatchConfirm \/ RejectOnConfirm
    \/ HandlePatchReject \/ PatchNotFound

Settle == \E r \in fr.pending : SettleCancel(r)

TaskStep == \E r \in DOMAIN tasks : TaskFinish(r)

Observe == \E o \in observed : Deliver(o[1], o[2])

Client == Create \/ Read \/ \E e \in ClientEvent : Send(e)

Next == \/ RunnerStep \/ Settle \/ TaskStep \/ Observe \/ Client
        \/ Crash \/ Boot \/ Serve

Spec == Init /\ [][Next]_vars

(***************************************************************************)
(* Fairness.  The pump drains its queue as long as the process lives       *)
(* (queueMicrotask, while loop); a bridge cancel settles (it is bounded by *)
(* the task service); a task run ends (it has a timeout) and the 100 ms    *)
(* poll of its handle sees that; the supervisor starts the daemon again    *)
(* after a crash.  Nothing is assumed of the clients.                      *)
(***************************************************************************)
Fairness == /\ WF_vars(RunnerStep) /\ WF_vars(Settle)
            /\ WF_vars(TaskStep) /\ WF_vars(Observe)
            /\ WF_vars(Boot) /\ WF_vars(Serve)

FairSpec == Spec /\ Fairness

-----------------------------------------------------------------------------
(***************************************************************************)
(* Properties.                                                             *)
(***************************************************************************)
RunRow == [state : RunState, cancelRequested : BOOLEAN,
           policy : {"pause", "cancel"}, cause : Node \cup {NoNode},
           revision : Nat]

NodeRow == [state : NodeState, run : Int, branch : Node \cup {NoNode}]

Patch == [base : Nat, ops : Patches, post : [Node -> NodeDef],
          status : {"pending", "applied", "rejected"}]

TaskRun == [node : Node, status : {"live", "done", "failed"}, rev : Nat]

Frame == [pc : PC, ret : {"idle", "recover", "scan"}, recs : SUBSET Node,
          failed : BOOLEAN, todo : SUBSET Node, changed : BOOLEAN,
          cur : Node \cup {NoNode}, bound : Nat, pending : SUBSET Int]

FrameOK(f) == f \in Frame /\ (f.pc \in {"active", "bind"} => f.cur \in Node)

\* Every table row, queued event and handler local has its type.
TypeOK ==
    /\ run \in RunRow
    /\ graph \in [Node -> NodeDef]
    /\ rows \in [Node -> NodeRow]
    /\ failedLog \in Seq(Node)
    /\ patches \in Seq(Patch)
    /\ tasks \in Seq(TaskRun)
    /\ phase \in {"down", "boot", "serving"} /\ up \in BOOLEAN
    /\ queue \in Seq(Event)
    /\ observed \subseteq Int \X Node
    /\ FrameOK(fr)
    /\ crashes \in Nat

\* The runner exists, has recovered and is between events with nothing queued.
Quiescent == up /\ fr.pc = "idle" /\ queue = <<>>

\* A node that started or completed did so with its dependencies completed and
\* every condition before it having chosen it (dependencyStatus, across
\* recovery, checkpoints, pauses and patches).
DepsRespected ==
    \A n \in Node :
        rows[n].state \in {"running", "waiting", "done"} =>
            \A d \in graph[n].deps : DepSatisfied(graph, rows, n, d)

\* A quiescent runner never holds a graph that nothing can move: a running
\* graph has a node in flight or a checkpoint to resume, and an unfinished
\* cancellation has a task whose end will resume it (tick, convergeCancellation).
NoStuckGraph ==
    Quiescent =>
        /\ run.state = "running" /\ ~run.cancelRequested =>
              InState("running") \cup InState("waiting") # {}
        /\ run.cancelRequested /\ run.state \notin Terminal =>
              InState("running") # {}

\* Until the graph ends, once recovery has passed it a running node's end cannot
\* be missed: its task
\* run is observed or its terminal event is queued (observeTaskHandle, the
\* pseudo run of a refused dispatch, reattachment at restart).
NoLostTerminal ==
    up /\ run.state \notin Terminal /\ (\A i \in DOMAIN queue : queue[i] # Recover) =>
        \A n \in InState("running") :
            \/ n \in fr.recs \/ n = fr.cur
            \/ <<rows[n].run, n>> \in observed
            \/ Delivered(rows[n].run, n)

\* Under the cancel policy the recorded failure cause is the first failure that
\* was journalled, whatever failed later and however often the daemon restarted
\* (failNodeForCancellation, repairCancelPolicyFailure).
FirstCause ==
    run.policy = "cancel" =>
        run.cause = IF failedLog = <<>> THEN NoNode ELSE failedLog[1]

\* A node is never dispatched twice for one definition: a second task run of a
\* node means a patch replaced it in between (handleRecover fails an unbound
\* running node instead of dispatching it again).
NoSilentRedispatch ==
    \A i, j \in DOMAIN tasks :
        i < j /\ tasks[i].node = tasks[j].node => tasks[i].rev < tasks[j].rev

\* Task runs start only while the graph is running and not being cancelled:
\* paused stops scheduling, a cancelled graph never dispatches again.
DispatchOnlyWhileRunning ==
    [][tasks' # tasks /\ Len(tasks') > Len(tasks) =>
          run.state = "running" /\ ~run.cancelRequested]_vars

\* done and cancelled are final: the state never changes again, and what the
\* nodes did (their rows) changes only through a confirmed patch.
TerminalIsFinal ==
    [][run.state \in Terminal =>
          /\ run'.state = run.state /\ run'.cause = run.cause
          /\ \A n \in Node : rows[n].state \in {"running", "done", "failed",
                                                "interrupted"}
                  /\ run'.revision = run.revision => rows'[n] = rows[n]]_vars

\* A patch never edits a node that has left planned/failed, even when the node
\* started between the preview and the confirmation.
StartedNodesFrozen ==
    [][\A n \in Node :
          rows[n].state \in {"running", "waiting", "done", "interrupted",
                             "cancelled"} => graph'[n] = graph[n]]_vars

\* Confirming a patch produces exactly the graph that was previewed, even when
\* other patches were confirmed in between.
ConfirmAppliesPreview ==
    [][\A p \in DOMAIN patches :
          patches[p].status = "pending" /\ patches'[p].status = "applied" =>
              graph' = patches[p].post]_vars

\* A requested cancellation ends the graph, through failed cancel calls, late
\* task terminals and restarts.
CancelConverges == run.cancelRequested ~> run.state \in Terminal

\* A running graph settles: it ends, pauses, or waits at a checkpoint.
RunSettles ==
    run.state = "running" ~>
        (run.state # "running" \/ InState("waiting") # {})

\* A graph that has ended carries no cancellation intent, which is what
\* "idempotent" recovery and the daemon's idle test rely on.
TerminalHasNoIntent == run.state \in Terminal => ~run.cancelRequested

\* Under the pause policy a node failure pauses the graph for the operator: with
\* no operator signal but start, a quiescent graph with a failed node is paused.
PausesOnFailure ==
    Quiescent /\ run.policy = "pause" /\ InState("failed") # {} =>
        run.state = "paused"

(***************************************************************************)
(* Refinement: the lifecycle seen through the tables.                      *)
(***************************************************************************)
Stage(s) == CASE s = "none" -> "absent"
              [] s = "planned" -> "planned"
              [] s = "running" -> "active"
              [] s = "waiting" -> "waiting"
              [] OTHER -> "settled"

Lifecycle == INSTANCE TaskGraphLifecycle
    WITH state <- run.state, cause <- run.cause,
         stage <- [n \in Node |-> Stage(rows[n].state)]

\* The runner, with its queue, its separate durable writes and its crashes,
\* implements the lifecycle of TaskGraphLifecycle.
ImplementsLifecycle == Lifecycle!Spec
==============================================================================
