------------------------- MODULE TaskGraphEnds_proofs -------------------------
(***************************************************************************)
(* Proofs about how a task graph ends, with the bridge of the daemon,      *)
(* whose reattach never throws (~ReattachMayThrow): an ended graph stays   *)
(* as it is, no end of a task run is missed, no quiescent graph is stuck,  *)
(* and the runner implements TaskGraphLifecycle.                           *)
(***************************************************************************)
EXTENDS TaskGraphNodes_proofs

(***************************************************************************)
(* The inductive invariant.                                                *)
(***************************************************************************)

\* The runner has been made by a restart and has not recovered yet.
Recovering == \E i \in DOMAIN queue : queue[i] = Recover

Recovered == up /\ ~Recovering

\* Recovery is the first event a runner handles; no runner, no events.
RecoverFirst ==
    /\ \A i \in DOMAIN queue : queue[i] = Recover => i = 1 /\ fr.pc = "idle"
    /\ ~up => queue = <<>> /\ observed = {}

\* A row that runs without a task run: an activation that is under way, or that
\* a crash cut short.
Unbound(n) == rows[n].state = "running" /\ rows[n].run = NoRun

\* There is at most one, in a graph that may schedule, and the runner is about
\* to bind it or, in recovery, to fail it.
OneUnbound ==
    /\ fr.recs \subseteq InState("running")
    /\ \A n \in Node :
          Unbound(n) =>
              /\ Schedulable
              /\ \A m \in Node : Unbound(m) => m = n
              /\ Recovered => \/ fr.pc = "recover" /\ ~fr.failed /\ n \in fr.recs
                              \/ fr.pc \in {"active", "bind"} /\ n = fr.cur

\* What the state of the run says about the rows: nothing has begun in a created
\* graph, the start node has completed in one that was started, nothing is active
\* in a cancelled one, and under the cancel policy a failure has left its intent.
StateRows ==
    /\ run.state = "absent" => run.cause = NoNode
    /\ run.state = "created" =>
          \A n \in Node : rows[n].state \notin {"running", "waiting", "failed"}
    /\ run.state \in {"running", "paused"} =>
          \A s \in KindOf(graph, "start") : rows[s].state = "done"
    /\ run.state = "cancelled" =>
          \A n \in Node : rows[n].state \notin {"running", "waiting"}
    /\ run.policy = "cancel" /\ InState("failed") # {} =>
          run.cancelRequested \/ run.state = "cancelled"
    /\ run.state = "done" => ~run.cancelRequested

\* The state of the run at the control points that write it.
Points ==
    /\ fr.pc = "started" =>
          /\ run.state = "created" /\ ~run.cancelRequested
          /\ \A s \in KindOf(graph, "start") : rows[s].state = "done"
    /\ fr.pc = "pauseRun" => Schedulable
    /\ fr.pc = "begin" => run.state \notin {"absent", "done"}
    /\ fr.pc = "cancel" =>
          /\ run.cancelRequested \/ run.state = "cancelled"
          /\ run.state # "done"
          /\ InState("waiting") \subseteq fr.todo
    /\ fr.failed => fr.pc # "recover" \/ ~Schedulable
    /\ fr.ret = "recover" => fr.failed
    /\ fr.pc \in {"active", "bind"} \/ fr.ret = "scan" => fr.changed
    /\ fr.pc = "bind" => fr.bound # NoRun

\* A cancellation that has returned with the graph alive left task runs to wait
\* for, and nothing else.
Swept ==
    Recovered /\ run.cancelRequested /\ run.state \notin Terminal =>
        (fr.pc \in {"idle", "tick", "scan"} \/ (fr.pc = "recover" /\ fr.failed) =>
            InState("waiting") = {} /\ InState("running") # {})

\* A graph that may schedule is left alone only with something in flight.
InFlight ==
    Recovered /\ fr.pc = "idle" /\ Schedulable =>
        InState("running") \cup InState("waiting") # {}

\* A pass that has changed nothing has found waiting what it has visited.
Passed ==
    fr.pc = "scan" /\ ~fr.changed =>
        \A n \in InState("planned") :
            \/ n \in KindOf(graph, "start") \cup fr.todo
            \/ DependencyStatus(graph, rows, n) = "waiting"

\* The runner will hear of the end of every running node.
Watched ==
    Recovered /\ run.state \notin Terminal =>
        \A n \in InState("running") :
            \/ n \in fr.recs
            \/ fr.pc \in {"active", "bind"} /\ n = fr.cur
            \/ <<rows[n].run, n>> \in observed
            \/ Delivered(rows[n].run, n)

EInv == /\ NInv /\ RecoverFirst /\ OneUnbound /\ StateRows /\ Points
        /\ Swept /\ InFlight /\ Passed /\ Watched

(***************************************************************************)
(* The queue.                                                              *)
(***************************************************************************)

\* A runner that has left idle has recovered.
LEMMA Busy ==
    ASSUME RecoverFirst, up, fr.pc # "idle"
    PROVE  Recovered
BY DEF RecoverFirst, Recovered, Recovering

\* So has one that takes another event than its recovery, which is then gone.
LEMMA PopIs ==
    ASSUME TypeOK, RecoverFirst, NEW kind, NextEvent(kind), queue' = Tail(queue)
    PROVE  ~Recovering' /\ (kind # "recover" => Recovered)
<1>1. queue \in Seq(Event) /\ queue # <<>> /\ up /\ Head(queue) = queue[1]
      /\ queue[1].kind = kind
  BY DEF TypeOK, NextEvent
<1>2. \A i \in DOMAIN Tail(queue) : i + 1 \in DOMAIN queue /\ Tail(queue)[i] = queue[i + 1]
      /\ i + 1 # 1
  BY <1>1
<1>3. ~Recovering'
  BY <1>2 DEF RecoverFirst, Recovering
<1>4. kind # "recover" => ~Recovering
  BY <1>1 DEF RecoverFirst, Recovering, Recover
<1>. QED  BY <1>1, <1>3, <1>4 DEF Recovered

\* Adding an event that is not a recovery.
LEMMA PushIs ==
    ASSUME TypeOK, NEW e, e # Recover, queue' = Append(queue, e)
    PROVE  /\ Recovering' <=> Recovering
           /\ \A i \in DOMAIN queue' :
                 queue'[i] = Recover => i \in DOMAIN queue /\ queue[i] = Recover
<1>1. queue \in Seq(Event)
  BY DEF TypeOK
<1>2. /\ DOMAIN queue' = DOMAIN queue \cup {Len(queue) + 1}
      /\ \A i \in DOMAIN queue : queue'[i] = queue[i]
      /\ queue'[Len(queue) + 1] = e
  BY <1>1
<1>. QED  BY <1>2 DEF Recovering

\* No client and no task run asks for a recovery.
LEMMA NotRecover ==
    /\ \A e \in ClientEvent : e # Recover
    /\ \A n, r, ok : TaskTerminal(n, r, ok) # Recover
<1>1. ASSUME NEW e \in ClientEvent
      PROVE  e # Recover
  BY <1>1 DEF ClientEvent, Recover, GraphSignals
<1>2. \A n, r, ok : TaskTerminal(n, r, ok) # Recover
  BY DEF TaskTerminal, Recover
<1>. QED  BY <1>1, <1>2

(***************************************************************************)
(* What a step may do to the run and its rows, state by state.             *)
(***************************************************************************)

\* Only the state of the run and its cancellation intent change.
RunTo(s, c) == /\ UNCHANGED <<rows, graph>>
               /\ run'.state = s /\ run'.cancelRequested = c
               /\ run'.policy = run.policy /\ run'.cause = run.cause
               /\ run'.revision = run.revision

RunMoves ==
    \/ RunTo(run.state, run.cancelRequested)
    \/ run.state \notin {"absent", "done"} /\ RunTo(run.state, TRUE)
    \/ run.state = "running" /\ RunTo("paused", run.cancelRequested)
    \/ run.state = "paused" /\ RunTo("running", run.cancelRequested)
    \/ run.state = "created" /\ fr.pc = "started" /\ RunTo("running", FALSE)
    \/ Schedulable /\ RunTo("done", FALSE)
    \/ /\ run.state \in {"created", "running", "paused"}
       /\ InState("running") \cup InState("waiting") = {}
       /\ RunTo("cancelled", FALSE)

RowTo(n, from, to) == rows[n].state \in from /\ Writes(n, to)

\* One row moves, the run stays.
Works(n) ==
    /\ UNCHANGED <<run, graph>>
    /\ \/ RowTo(n, {"planned", "waiting"}, {"cancelled"})
       \/ Schedulable /\ RowTo(n, {"running"}, {"running"})
       \/ RowTo(n, {"waiting"}, {"done"})
       \/ run.state \notin Terminal /\ RowTo(n, {"running"}, {"interrupted", "done"})
       \/ Schedulable /\ RowTo(n, {"planned"}, {"running", "waiting"})
       \/ run.state = "created" /\ n \in KindOf(graph, "start") /\ Writes(n, {"done"})

\* failNode.
Fails(n) ==
    /\ graph' = graph
    /\ run.state \in {"running", "paused"} /\ ~run.cancelRequested
    /\ RowTo(n, {"planned", "running"}, {"failed"})
    /\ run'.state = run.state /\ run'.policy = run.policy /\ run'.revision = run.revision
    /\ run'.cause = run.cause \/ (run.cause = NoNode /\ run'.cause = n)
    /\ run.policy = "cancel" => run'.cancelRequested

LEMMA FailNodeIs ==
    ASSUME TypeOK, NEW n \in Node, NEW r \in Int, NEW f, FailNode(n, r, f), graph' = graph,
           run.state \in {"running", "paused"}, ~run.cancelRequested,
           rows[n].state \in {"planned", "running"}
    PROVE  Fails(n)
<1>1. run \in RunRow
  BY DEF TypeOK
<1>2. Writes(n, {"failed"})
  BY DEF FailNode, Writes
<1>. QED  BY <1>1, <1>2 DEF FailNode, Fails, RowTo, RunRow

\* The nodes recovery fails are unbound, so the graph may schedule.
LEMMA RecoverFailIs ==
    ASSUME ~ReattachMayThrow, EInv, NEW n \in Node, RecoverFail(n)
    PROVE  Schedulable /\ Unbound(n) /\ ~fr.failed /\ Fails(n)
<1>. USE DEF EInv, NInv, Inv
<1>1. /\ n \in fr.recs /\ rows[n].run = NoRun /\ rows[n].state = "running"
      /\ At("recover") /\ graph' = graph
    BY DEF RecoverFail, First, OneUnbound, InState
<1>2. Unbound(n) /\ Recovered
  BY <1>1, Busy DEF Unbound, At
<1>3. Schedulable /\ ~fr.failed
  BY <1>1, <1>2 DEF OneUnbound, At
<1>4. PICK f : FailNode(n, NoRun, f)
  BY <1>1 DEF RecoverFail
<1>. QED  BY <1>1, <1>2, <1>3, <1>4, FailNodeIs, NoRunInt DEF Schedulable

\* A row is written and nothing else of the tables.
LEMMA RowWorks ==
    ASSUME NEW n \in Node, NEW s, NEW r \in Int, NEW b \in Node \cup {NoNode},
           rows' = [rows EXCEPT ![n] = Row(s, r, b)], UNCHANGED <<run, graph>>,
           \/ rows[n].state \in {"planned", "waiting"} /\ s = "cancelled"
           \/ Schedulable /\ rows[n].state = "running" /\ s = "running"
           \/ rows[n].state = "waiting" /\ s = "done"
           \/ run.state \notin Terminal /\ rows[n].state = "running"
                 /\ s \in {"interrupted", "done"}
           \/ Schedulable /\ rows[n].state = "planned" /\ s \in {"running", "waiting"}
           \/ run.state = "created" /\ n \in KindOf(graph, "start") /\ s = "done"
    PROVE  Works(n)
<1>1. \A S : s \in S => Writes(n, S)
  BY RowWritten
<1>. QED  BY <1>1 DEF Works, RowTo

\* Every step, with the conditions under which the code takes it.
LEMMA StepIs ==
    ASSUME ~ReattachMayThrow, EInv, [Next]_vars
    PROVE  \/ RunMoves \/ (\E n \in Node : Works(n)) \/ (\E n \in Node : Fails(n))
           \/ HandlePatchConfirm \/ Create
<1>. USE DEF EInv, NInv, Inv
<1>1. /\ run \in RunRow /\ rows \in [Node -> NodeRow] /\ graph \in [Node -> NodeDef]
      /\ fr \in Frame /\ (fr.pc \in {"active", "bind"} => fr.cur \in Node)
      /\ NoRun \in Int /\ NoNode \in Node \cup {NoNode} /\ Rejected \in Int
      /\ run.state \in RunState
  BY DEF TypeOK, FrameOK, NoRun, Rejected, RunRow
<1>2. up => run.state # "absent"
  BY UpHasRun
<1>3. CASE UNCHANGED <<run, rows, graph>>
  BY <1>3 DEF RunMoves, RunTo
<1>4. CASE HandleRecover
  <2>1. UNCHANGED <<rows, graph>> /\ run' = RepairCancelPolicyFailure(run)
    BY <1>4 DEF HandleRecover
  <2>2. CASE run' = run
    BY <2>1, <2>2 DEF RunMoves, RunTo
  <2>3. CASE run' # run
    <3>1. run.policy = "cancel" /\ InState("failed") # {}
      BY <2>1, <2>3 DEF RepairCancelPolicyFailure
    <3>2. run.cause # NoNode
      BY <3>1, NoNodeNotNode, EltTyped DEF TypeOK, CauseInv, FirstCause, FailuresLogged
    <3>3. run.state = "cancelled" /\ ~run.cancelRequested
      BY <2>1, <2>3, <3>1, <3>2 DEF RepairCancelPolicyFailure, StateRows
    <3>4. RunTo(run.state, TRUE)
      BY <1>1, <2>1, <3>1, <3>2, <3>3 DEF RepairCancelPolicyFailure, RunTo, RunRow
    <3>. QED  BY <3>3, <3>4 DEF RunMoves
  <2>. QED  BY <2>2, <2>3
<1>5. CASE PauseRun
  BY <1>5, <1>1 DEF PauseRun, At, Points, Schedulable, RunMoves, RunTo, RunRow
<1>6. CASE BeginCancellation
  BY <1>6, <1>1 DEF BeginCancellation, At, Points, RunMoves, RunTo, RunRow
<1>7. CASE ConvergeCancellation
  <2>1. /\ UNCHANGED <<rows, graph>> /\ run' = Converged(run, rows) /\ run.state # "absent"
        /\ run.state # "done" /\ InState("waiting") = {}
    BY <1>7, <1>2 DEF ConvergeCancellation, At, Points
  <2>2. CASE run' = run
    BY <2>1, <2>2 DEF RunMoves, RunTo
  <2>3. CASE run' # run
    <3>1. /\ InState("running") = {} /\ run.state # "cancelled"
          /\ run' = [run EXCEPT !.state = "cancelled", !.cancelRequested = FALSE]
      BY <2>1, <2>3 DEF Converged, FinishCancelled, InState
    <3>2. run.state \in {"created", "running", "paused"}
      BY <1>1, <2>1, <3>1 DEF RunState
    <3>. QED  BY <1>1, <2>1, <3>1, <3>2 DEF RunMoves, RunTo, RunRow
  <2>. QED  BY <2>2, <2>3
<1>8. CASE HandleStart
  <2>1. PICK s \in KindOf(graph, "start") :
           rows' = [rows EXCEPT ![s] = Row("done", NoRun, NoNode)]
    BY <1>8 DEF HandleStart
  <2>2. s \in Node /\ UNCHANGED <<run, graph>> /\ run.state = "created"
    BY <1>8, <2>1 DEF HandleStart, Accepts, KindOf
  <2>. QED  BY <1>1, <2>1, <2>2, RowWorks
<1>9. CASE StartRun
  BY <1>9, <1>1 DEF StartRun, At, Points, RunMoves, RunTo, RunRow
<1>10. CASE HandlePause
  BY <1>10, <1>1 DEF HandlePause, Accepts, RunMoves, RunTo, RunRow
<1>11. CASE HandleResume
  BY <1>11, <1>1 DEF HandleResume, Accepts, RunMoves, RunTo, RunRow
<1>12. CASE HandleResumeCheckpoint
  <2>1. /\ Ev.node \in Node /\ rows[Ev.node].state = "waiting"
        /\ rows' = [rows EXCEPT ![Ev.node] = Row("done", NoRun, NoNode)]
        /\ UNCHANGED <<run, graph>>
    BY <1>12, CheckpointTyped DEF HandleResumeCheckpoint, HandleSignal, Ev
  <2>. QED  BY <1>1, <2>1, RowWorks
<1>13. CASE TerminalInterrupted \/ TerminalDone
  <2>1. /\ Ev.node \in Node /\ Ev.run \in Int /\ rows[Ev.node].state = "running"
        /\ \E s \in {"interrupted", "done"} :
              rows' = [rows EXCEPT ![Ev.node] = Row(s, Ev.run, NoNode)]
        /\ UNCHANGED <<run, graph>> /\ run.state \notin Terminal
    BY <1>13, TerminalTyped DEF TerminalInterrupted, TerminalDone, TakeTerminal, Expected
  <2>. QED  BY <1>1, <2>1, RowWorks
<1>14. CASE TerminalFailed
  <2>1. /\ Ev.node \in Node /\ Ev.run \in Int /\ rows[Ev.node].state = "running"
        /\ FailNode(Ev.node, Ev.run, IdleFrame) /\ graph' = graph /\ up
        /\ run.state \notin Terminal /\ ~run.cancelRequested
    BY <1>14, TerminalTyped DEF TerminalFailed, TakeTerminal, Expected, NextEvent
  <2>2. run.state \in {"running", "paused"}
    BY <1>1, <1>2, <2>1 DEF RunState, Terminal, StateRows
  <2>. QED  BY <2>1, <2>2, FailNodeIs
<1>15. CASE Tick
  <2>1. UNCHANGED <<rows, graph>> /\ (run' = run \/ (Schedulable /\ run' = FinishDone(run)))
    BY <1>15 DEF Tick
  <2>2. CASE run' = run
    BY <2>1, <2>2 DEF RunMoves, RunTo
  <2>3. CASE Schedulable /\ run' = FinishDone(run)
    BY <1>1, <2>1, <2>3 DEF FinishDone, Schedulable, RunMoves, RunTo, RunRow
  <2>. QED  BY <2>1, <2>2, <2>3
<1>16. CASE ScanEnd
  <2>1. /\ UNCHANGED <<rows, graph>>
        /\ \/ run' = run
           \/ Schedulable /\ run' = FinishDone(run)
           \/ /\ Schedulable /\ run' = FinishCancelled(run)
              /\ \A n \in Node : ~DepPending(rows, n)
    BY <1>16 DEF ScanEnd
  <2>2. CASE run' = run
    BY <2>1, <2>2 DEF RunMoves, RunTo
  <2>3. CASE Schedulable /\ run' = FinishDone(run)
    BY <1>1, <2>1, <2>3 DEF FinishDone, Schedulable, RunMoves, RunTo, RunRow
  <2>4. CASE /\ Schedulable /\ run' = FinishCancelled(run)
             /\ \A n \in Node : ~DepPending(rows, n)
    <3>1. InState("running") \cup InState("waiting") = {}
      BY <2>4 DEF InState, DepPending
    <3>2. run' = [run EXCEPT !.state = "cancelled", !.cancelRequested = FALSE]
      BY <2>4 DEF FinishCancelled, Schedulable
    <3>. QED  BY <1>1, <2>1, <2>4, <3>1, <3>2 DEF Schedulable, RunMoves, RunTo, RunRow
  <2>. QED  BY <2>1, <2>2, <2>3, <2>4
<1>17. CASE CompleteControlNode
  <2>1. /\ fr.cur \in Node /\ rows[fr.cur].state = "running" /\ run.state \notin Terminal
        /\ UNCHANGED <<run, graph>>
    BY <1>17, <1>1 DEF CompleteControlNode, At, Loops, Schedulable, Terminal
  <2>2. PICK b \in Node \cup {NoNode} : rows' = [rows EXCEPT ![fr.cur] = Row("done", NoRun, b)]
    BY <1>17, <1>1, <2>1 DEF CompleteControlNode, NodeDef
  <2>. QED  BY <1>1, <2>1, <2>2, RowWorks
<1>18. CASE FailActive
  <2>1. /\ fr.cur \in Node /\ rows[fr.cur].state = "running" /\ graph' = graph /\ Schedulable
        /\ FailNode(fr.cur, NoRun, [fr EXCEPT !.ret = "scan"])
    BY <1>18, <1>1 DEF FailActive, At, Loops
  <2>. QED  BY <2>1, <1>1, FailNodeIs DEF Schedulable
<1>19. CASE BindTask \/ DispatchRejected
  <2>1. /\ fr.cur \in Node /\ rows[fr.cur].state = "running" /\ UNCHANGED <<run, graph>>
        /\ Schedulable
        /\ \/ rows' = [rows EXCEPT ![fr.cur] = Row("running", fr.bound, NoNode)]
           \/ rows' = [rows EXCEPT ![fr.cur] = Row("running", Rejected, NoNode)]
    BY <1>19, <1>1 DEF BindTask, DispatchRejected, At, Loops
  <2>2. fr.bound \in Int
    BY <1>1 DEF Frame
  <2>. QED  BY <1>1, <2>1, <2>2, RowWorks
<1>20. CASE \E n \in Node : RecoverFail(n)
  BY <1>20, RecoverFailIs
<1>21. ASSUME NEW n \in Node, CancelNode(n)
       PROVE  Works(n) \/ UNCHANGED <<run, rows, graph>>
  <2>1. ~Unbound(n)
    <3>1. Recovered /\ fr.pc = "cancel"
      BY <1>21, Busy DEF CancelNode, At
    <3>. QED  BY <3>1 DEF OneUnbound
  <2>2. /\ UNCHANGED <<run, graph>>
        /\ \/ rows' = rows
           \/ /\ rows[n].state \in {"planned", "waiting"}
              /\ rows' = [rows EXCEPT ![n] = Row("cancelled", NoRun, NoNode)]
    BY <1>21, <2>1 DEF CancelNode, Unbound
  <2>. QED  BY <1>1, <2>2, RowWorks
<1>22. ASSUME NEW n \in Node, ScanImpossible(n)
       PROVE  Works(n)
  <2>1. /\ UNCHANGED <<run, graph>> /\ rows[n].state = "planned"
        /\ rows' = [rows EXCEPT ![n] = Row("cancelled", NoRun, NoNode)]
    BY <1>22 DEF ScanImpossible, Scans, At, Loops, InState
  <2>. QED  BY <1>1, <2>1, RowWorks
<1>23. ASSUME NEW n \in Node, ScanActivate(n)
       PROVE  Works(n)
  <2>1. /\ UNCHANGED <<run, graph>> /\ rows[n].state = "planned" /\ Schedulable
        /\ \E s \in {"waiting", "running"} :
              rows' = [rows EXCEPT ![n] = Row(s, NoRun, NoNode)]
    BY <1>23 DEF ScanActivate, Scans, At, Loops, InState
  <2>. QED  BY <1>1, <2>1, RowWorks
<1>24. ASSUME NEW n \in Node, ScanFail(n)
       PROVE  Fails(n)
  <2>1. Schedulable /\ rows[n].state = "planned"
    BY <1>24 DEF ScanFail, Scans, At, Loops, InState
  <2>. QED  BY <1>24, <1>1, <2>1, FailNodeIs DEF ScanFail, Schedulable
<1>25. CASE \/ RecoverDone \/ HandleCancel \/ HandleIgnored \/ TerminalStale \/ DispatchTask
            \/ HandlePatchRequest \/ RejectOnConfirm \/ HandlePatchReject
            \/ PatchNotFound \/ (\E n \in Node : RecoverReattach(n) \/ ScanWaiting(n))
            \/ Settle \/ TaskStep \/ Observe \/ Read \/ (\E e \in ClientEvent : Send(e))
            \/ Crash \/ Boot \/ Serve \/ UNCHANGED vars
  <2>1. UNCHANGED <<run, rows, graph>>
    BY <1>25
    DEF RecoverDone, HandleCancel, HandleIgnored, TerminalStale, DispatchTask, PatchNotFound,
        HandlePatchRequest, RejectOnConfirm, HandlePatchReject,
        RecoverReattach, ScanWaiting, Settle, SettleCancel, TaskStep, TaskFinish, Observe,
        Deliver, Read, Send, Crash, Boot, Serve, vars, durable
  <2>. QED  BY <1>3, <2>1
<1>. QED
  BY <1>3, <1>4, <1>5, <1>6, <1>7, <1>8, <1>9, <1>10, <1>11, <1>12, <1>13, <1>14, <1>15,
     <1>16, <1>17, <1>18, <1>19, <1>20, <1>21, <1>22, <1>23, <1>24, <1>25
  DEF Next, RunnerStep, Client

\* Writing a row leaves the others.
LEMMA WritesIs ==
    ASSUME TypeOK, NEW n \in Node, NEW S, Writes(n, S)
    PROVE  rows'[n].state \in S /\ \A m \in Node \ {n} : rows'[m] = rows[m]
BY DEF Writes, TypeOK, Row

\* What a moving row can be.
LEMMA WorksIs ==
    ASSUME TypeOK, NEW n \in Node, Works(n)
    PROVE  /\ UNCHANGED <<run, graph>> /\ \A m \in Node \ {n} : rows'[m] = rows[m]
           /\ \/ rows[n].state \in {"planned", "waiting"} /\ rows'[n].state = "cancelled"
              \/ Schedulable /\ rows[n].state = "running" /\ rows'[n].state = "running"
              \/ rows[n].state = "waiting" /\ rows'[n].state = "done"
              \/ /\ run.state \notin Terminal /\ rows[n].state = "running"
                 /\ rows'[n].state \in {"interrupted", "done"}
              \/ /\ Schedulable /\ rows[n].state = "planned"
                 /\ rows'[n].state \in {"running", "waiting"}
              \/ /\ run.state = "created" /\ n \in KindOf(graph, "start")
                 /\ rows'[n].state = "done"
<1>1. ASSUME NEW S, Writes(n, S)
      PROVE  rows'[n].state \in S /\ \A m \in Node \ {n} : rows'[m] = rows[m]
  BY <1>1, WritesIs
<1>. QED  BY <1>1 DEF Works, RowTo

LEMMA FailsIs ==
    ASSUME TypeOK, NEW n \in Node, Fails(n)
    PROVE  /\ rows[n].state \in {"planned", "running"} /\ rows'[n].state = "failed"
           /\ \A m \in Node \ {n} : rows'[m] = rows[m]
<1>1. Writes(n, {"failed"}) /\ rows[n].state \in {"planned", "running"}
  BY DEF Fails, RowTo
<1>. QED  BY <1>1, WritesIs

\* What the state of the run says about the rows stays true.
LEMMA StateRowsStep ==
    ASSUME ~ReattachMayThrow, EInv, [Next]_vars
    PROVE  StateRows'
<1>. USE DEF EInv, NInv, Inv
<1>1. /\ TypeOK /\ rows \in [Node -> NodeRow] /\ graph \in [Node -> NodeDef] /\ Matched
      /\ run \in RunRow
  BY DEF TypeOK
<1>2. CASE RunMoves
  <2>. USE DEF StateRows, InState, KindOf
  <2>1. CASE RunTo(run.state, run.cancelRequested)
    BY <2>1 DEF RunTo
  <2>2. CASE run.state \notin {"absent", "done"} /\ RunTo(run.state, TRUE)
    BY <2>2 DEF RunTo
  <2>3. CASE run.state = "running" /\ RunTo("paused", run.cancelRequested)
    BY <2>3 DEF RunTo
  <2>4. CASE run.state = "paused" /\ RunTo("running", run.cancelRequested)
    BY <2>4 DEF RunTo
  <2>5. CASE run.state = "created" /\ fr.pc = "started" /\ RunTo("running", FALSE)
    BY <2>5 DEF RunTo, Points
  <2>6. CASE Schedulable /\ RunTo("done", FALSE)
    BY <2>6 DEF RunTo, Schedulable
  <2>7. CASE /\ run.state \in {"created", "running", "paused"}
             /\ InState("running") \cup InState("waiting") = {}
             /\ RunTo("cancelled", FALSE)
    BY <2>7 DEF RunTo
  <2>. QED  BY <1>2, <2>1, <2>2, <2>3, <2>4, <2>5, <2>6, <2>7 DEF RunMoves
<1>3. ASSUME NEW n \in Node, Works(n)
      PROVE  StateRows'
  <2>1. run.state = "absent" => rows[n].state = "none" /\ graph[n].kind = "absent"
    BY DEF Born
  <2>2. /\ UNCHANGED <<run, graph>>
        /\ \A m \in Node \ {n} : rows'[m] = rows[m]
        /\ rows[n].state = "done" => rows'[n].state = "done"
        /\ rows'[n].state # "failed"
        /\ run.state = "created" => rows'[n].state \notin {"running", "waiting"}
        /\ run.state = "cancelled" => rows'[n].state \notin {"running", "waiting"}
    BY <1>3, WorksIs DEF StateRows, Schedulable, Terminal
  <2>. QED  BY <2>2 DEF StateRows, InState, KindOf
<1>4. ASSUME NEW n \in Node, Fails(n)
      PROVE  StateRows'
  <2>1. /\ rows[n].state \in {"planned", "running"} /\ rows'[n].state = "failed"
        /\ \A m \in Node \ {n} : rows'[m] = rows[m]
    BY <1>4, FailsIs
  <2>. QED  BY <1>4, <2>1 DEF Fails, StateRows, InState, KindOf
<1>5. CASE HandlePatchConfirm
  <2>1. /\ run'.state = run.state /\ run'.cancelRequested = run.cancelRequested
        /\ run'.policy = run.policy /\ run'.cause = run.cause
    BY <1>1, <1>5, ConfirmIs DEF RunRow
  <2>2. /\ WellFormed(graph')
        /\ \A n \in Node :
              \/ graph'[n] = graph[n] /\ rows'[n] = rows[n]
              \/ /\ rows[n].state \in {"none", "planned", "failed"}
                 /\ rows'[n].state \in {"none", "planned"}
    BY <1>5, ConfirmIs
  <2>3. ASSUME run.state \in {"running", "paused"}, NEW s \in KindOf(graph', "start")
        PROVE  rows'[s].state = "done"
    <3>1. PICK t \in Node : KindOf(graph, "start") = {t}
      BY <2>3, <1>1 DEF Matched, WellFormed
    <3>2. rows[t].state = "done" /\ graph[t].kind = "start"
      BY <2>3, <3>1 DEF StateRows, KindOf
    <3>3. graph'[t] = graph[t] /\ rows'[t] = rows[t]
      BY <2>2, <3>2
    <3>4. t \in KindOf(graph', "start")
      BY <3>2, <3>3 DEF KindOf
    <3>5. s = t
      BY <2>2, <3>4, <2>3 DEF WellFormed
    <3>. QED  BY <3>2, <3>3, <3>5
  <2>. QED  BY <2>1, <2>2, <2>3 DEF StateRows, InState
<1>6. CASE Create
  <2>1. /\ run'.state = "created" /\ ~run'.cancelRequested /\ run'.cause = NoNode
        /\ \A n \in Node : rows'[n].state \in {"none", "planned"}
    <3>1. run'.state = "created" /\ run'.cancelRequested = FALSE /\ run'.cause = NoNode
      BY <1>6 DEF Create
    <3>. QED  BY <1>6, <3>1, CreateIs
  <2>. QED  BY <2>1 DEF StateRows, InState
<1>. QED  BY <1>2, <1>3, <1>4, <1>5, <1>6, StepIs

(***************************************************************************)
(* Who takes a step.                                                       *)
(***************************************************************************)

\* The runner takes a step only once it has recovered, except its recovery.
LEMMA RunnerIs ==
    ASSUME EInv, RunnerStep \/ Settle
    PROVE  up /\ up' /\ ~Recovering' /\ (HandleRecover \/ Recovered)
<1>. USE DEF EInv, NInv, Inv
<1>1. CASE \E kind : NextEvent(kind) /\ queue' = Tail(queue) /\ up' = up
                     /\ (kind = "recover" => HandleRecover)
  BY <1>1, PopIs DEF NextEvent
<1>2. CASE up /\ up' = up /\ fr.pc # "idle" /\ queue' = queue
  BY <1>2, Busy DEF Recovered, Recovering
<1>3. CASE DispatchRejected
  BY <1>3, Busy, PushIs, NotRecover DEF DispatchRejected, At, process, Recovered
<1>4. CASE HandleRecover
  BY <1>4, <1>1 DEF HandleRecover, process
<1>5. CASE HandleStart \/ HandlePause \/ HandleResume \/ HandleCancel \/ HandleResumeCheckpoint
  BY <1>5, <1>1
  DEF HandleStart, HandlePause, HandleResume, HandleCancel, HandleResumeCheckpoint,
      HandleSignal, process
<1>6. CASE HandleIgnored
  BY <1>6, <1>1 DEF HandleIgnored, HandleSignal, GraphSignals, process
<1>7. CASE TerminalStale \/ TerminalInterrupted \/ TerminalFailed \/ TerminalDone
  BY <1>7, <1>1
  DEF TerminalStale, TerminalInterrupted, TerminalFailed, TerminalDone, TakeTerminal, process
<1>8. CASE HandlePatchRequest \/ HandlePatchConfirm \/ RejectOnConfirm \/ HandlePatchReject
           \/ PatchNotFound
  BY <1>8, <1>1
  DEF HandlePatchRequest, HandlePatchConfirm, RejectOnConfirm, HandlePatchReject,
      PatchNotFound, process
<1>9. CASE \/ RecoverDone \/ (\E n \in Node : RecoverReattach(n) \/ RecoverFail(n))
           \/ PauseRun \/ BeginCancellation \/ ConvergeCancellation
           \/ (\E n \in Node : CancelNode(n)) \/ Settle \/ StartRun
  BY <1>9, <1>2
  DEF RecoverDone, RecoverReattach, RecoverFail, PauseRun, BeginCancellation,
      ConvergeCancellation, CancelNode, Settle, SettleCancel, StartRun, At, process
<1>10. CASE \/ Tick \/ ScanEnd \/ CompleteControlNode \/ FailActive \/ DispatchTask \/ BindTask
            \/ \E n \in Node : \/ ScanImpossible(n) \/ ScanWaiting(n)
                               \/ ScanActivate(n) \/ ScanFail(n)
  BY <1>10, <1>2
  DEF Tick, ScanEnd, CompleteControlNode, FailActive, DispatchTask, BindTask,
      ScanImpossible, ScanWaiting, ScanActivate, ScanFail, Scans, At, process
<1>. QED
  BY <1>3, <1>4, <1>5, <1>6, <1>7, <1>8, <1>9, <1>10 DEF RunnerStep

\* Everyone else leaves the tables and the handler alone, or creates the graph, or
\* is a crash; and a runner is made with its recovery queued.
Outer == TaskStep \/ Observe \/ Client \/ Crash \/ Boot \/ Serve \/ UNCHANGED vars

Stays == /\ UNCHANGED <<run, rows, graph, fr>>
         /\ Recovered' => /\ Recovered /\ observed' = observed
                          /\ \A n, r : Delivered(r, n) => Delivered(r, n)'

LEMMA OuterIs ==
    ASSUME EInv, Outer
    PROVE  Create \/ Crash \/ Stays
<1>. USE DEF EInv, NInv, Inv
<1>1. queue \in Seq(Event)
  BY DEF TypeOK
<1>2. ASSUME NEW e, e # Recover, queue' = Append(queue, e), up' = up, observed' = observed,
             UNCHANGED <<run, rows, graph, fr>>
      PROVE  Stays
  <2>1. Recovered' => Recovered
    BY <1>2, PushIs DEF Recovered
  <2>2. \A i \in DOMAIN queue : i \in DOMAIN queue' /\ queue'[i] = queue[i]
    BY <1>1, <1>2
  <2>3. \A n, r : Delivered(r, n) => Delivered(r, n)'
    BY <2>2 DEF Delivered
  <2>. QED  BY <1>2, <2>1, <2>3 DEF Stays
<1>3. CASE UNCHANGED <<run, rows, graph, fr, queue, observed, up>>
  BY <1>3 DEF Stays, Recovered, Recovering, Delivered
<1>4. CASE TaskStep \/ Serve \/ UNCHANGED vars
  BY <1>4, <1>3 DEF TaskStep, TaskFinish, Serve, vars, durable, process
<1>5. CASE Observe
  BY <1>5, <1>2, NotRecover DEF Observe, Deliver, durable, process
<1>6. ASSUME NEW e \in ClientEvent, Send(e)
      PROVE  Stays
  <2>1. CASE up
    <3>1. queue' = Append(queue, e) /\ up' = up /\ UNCHANGED <<run, rows, graph, fr, observed>>
      BY <1>6, <2>1 DEF Send, QueueWithRunner, durable, TypeOK
    <3>. QED  BY <3>1, <1>2, NotRecover
  <2>2. CASE ~up
    <3>1. queue' = Append(<<Recover>>, e) /\ UNCHANGED <<run, rows, graph, fr>>
      BY <1>6, <2>2 DEF Send, QueueWithRunner, durable
    <3>2. 1 \in DOMAIN queue' /\ queue'[1] = Recover
      BY <3>1
    <3>. QED  BY <3>1, <3>2 DEF Stays, Recovered, Recovering
  <2>. QED  BY <2>1, <2>2
<1>7. CASE Read \/ Boot
  <2>1. /\ UNCHANGED <<run, rows, graph, fr>>
        /\ queue' = <<Recover>> \/ up' = FALSE
    BY <1>7 DEF Read, Boot, QueueWithRunner, durable
  <2>2. queue' = <<Recover>> => Recovering'
    BY DEF Recovering
  <2>. QED  BY <2>1, <2>2 DEF Stays, Recovered
<1>. QED  BY <1>4, <1>5, <1>6, <1>7 DEF Outer, Client

LEMMA Actors ==
    ASSUME [Next]_vars
    PROVE  RunnerStep \/ Settle \/ Outer
BY DEF Next, Outer

\* A crash leaves no runner, and create makes one for a graph of planned nodes.
LEMMA CrashIs ==
    ASSUME Crash
    PROVE  /\ ~up' /\ ~Recovered' /\ fr' = IdleFrame /\ queue' = <<>> /\ observed' = {}
           /\ UNCHANGED <<run, rows, graph>>
BY DEF Crash, Recovered, durable

LEMMA CreatedIs ==
    ASSUME EInv, Create
    PROVE  /\ fr' = fr /\ fr.pc = "idle" /\ fr.recs = {} /\ ~fr.failed /\ fr.ret = "idle"
           /\ queue' = <<>> /\ run'.state = "created" /\ run'.cancelRequested = FALSE
           /\ \A n \in Node : rows'[n].state \in {"none", "planned"}
<1>. USE DEF EInv, NInv, Inv
<1>1. fr' = fr /\ queue' = queue /\ ~up
  BY DEF Create, CauseInv, Fresh
<1>2. /\ fr.pc = "idle" /\ fr.ret = "idle" /\ fr.recs = {} /\ ~fr.failed /\ queue = <<>>
  BY <1>1 DEF Frames, RecoverFirst
<1>3. run'.state = "created" /\ run'.cancelRequested = FALSE
  BY DEF Create
<1>4. \A n \in Node : rows'[n].state \in {"none", "planned"}
  BY CreateIs
<1>. QED  BY <1>1, <1>2, <1>3, <1>4

\* Recovery stays first.
LEMMA RecoverFirstStep ==
    ASSUME EInv, [Next]_vars
    PROVE  RecoverFirst'
<1>. USE DEF EInv, NInv, Inv
<1>1. CASE RunnerStep \/ Settle
  BY <1>1, RunnerIs DEF RecoverFirst, Recovering
<1>2. CASE Create \/ Crash
  BY <1>2, CreatedIs, CrashIs DEF RecoverFirst, Create
<1>3. CASE TaskStep \/ Serve \/ UNCHANGED vars
  BY <1>3 DEF TaskStep, TaskFinish, Serve, vars, process, RecoverFirst
<1>4. CASE Observe
  <2>1. PICK e : e # Recover /\ queue' = Append(queue, e) /\ UNCHANGED <<fr, observed, up>>
    BY <1>4, NotRecover DEF Observe, Deliver, process
  <2>2. up
    BY <1>4 DEF Observe, RecoverFirst
  <2>. QED  BY <2>1, <2>2, PushIs DEF RecoverFirst
<1>5. ASSUME NEW e \in ClientEvent, Send(e)
      PROVE  RecoverFirst'
  <2>1. up' /\ fr' = fr /\ e # Recover
    BY <1>5, NotRecover DEF Send
  <2>2. CASE up
    BY <1>5, <2>1, <2>2, PushIs DEF Send, QueueWithRunner, RecoverFirst
  <2>3. CASE ~up
    <3>1. queue' = Append(<<Recover>>, e) /\ fr.pc = "idle"
      BY <1>5, <2>3 DEF Send, QueueWithRunner, Frames
    <3>2. DOMAIN queue' = 1..2 /\ queue'[2] = e
      BY <3>1
    <3>. QED  BY <2>1, <3>1, <3>2 DEF RecoverFirst
  <2>. QED  BY <2>2, <2>3
<1>6. CASE Read \/ Boot
  <2>1. ~up /\ fr.pc = "idle" /\ fr' = fr /\ observed' = observed
    BY <1>6 DEF Read, Boot, Frames
  <2>2. queue' = <<Recover>> \/ queue' = <<>>
    BY <1>6, <2>1 DEF Read, Boot, QueueWithRunner
  <2>3. ~up' => queue' = <<>>
    BY <1>6 DEF Read, Boot
  <2>. QED  BY <2>1, <2>2, <2>3 DEF RecoverFirst
<1>. QED  BY <1>1, <1>2, <1>3, <1>4, <1>5, <1>6, Actors DEF Outer, Client

(***************************************************************************)
(* Failing a node.                                                         *)
(***************************************************************************)
FailStep == TerminalFailed \/ FailActive \/ \E n \in Node : RecoverFail(n) \/ ScanFail(n)

\* The handler continues with the cancellation, with the pause, or, in a graph
\* that is paused already, where failNode was called.
FailsInto(n) ==
    /\ Fails(n)
    /\ rows'[n].state = "failed" /\ \A m \in Node \ {n} : rows'[m] = rows[m]
    /\ \A m \in Node : Unbound(m) => m = n
    /\ fr.pc \in {"active", "bind"} => n = fr.cur
    /\ fr'.recs = fr.recs \ {n}
    /\ \/ fr'.pc = "begin"
       \/ fr'.pc = "pauseRun" /\ Schedulable /\ run' = run
       \/ /\ fr'.pc \in {"idle", "recover", "scan"} /\ fr'.ret = "idle"
          /\ run' = run /\ run.state = "paused"
    /\ fr'.ret = "recover" => fr'.failed
    /\ fr'.pc = "scan" \/ fr'.ret = "scan" => fr'.changed

LEMMA FailInto ==
    ASSUME TypeOK, NEW n \in Node, NEW r, NEW f \in Frame, FailNode(n, r, f), Fails(n),
           \A m \in Node : Unbound(m) => m = n,
           fr.pc \in {"active", "bind"} => n = fr.cur,
           f.recs = fr.recs \ {n},
           f.ret = "recover" => f.failed,
           f.ret = "scan" => f.changed
    PROVE  FailsInto(n)
<1>1. rows'[n].state = "failed" /\ \A m \in Node \ {n} : rows'[m] = rows[m]
  BY FailsIs
<1>2. CASE fr' = [f EXCEPT !.pc = "begin"]
  BY <1>1, <1>2 DEF FailsInto, Frame
<1>3. CASE fr' = [f EXCEPT !.pc = "pauseRun"] /\ run' = run /\ run.state # "paused"
  <2>1. Schedulable
    BY <1>3 DEF Fails, Schedulable
  <2>. QED  BY <1>1, <1>3, <2>1 DEF FailsInto, Frame
<1>4. CASE fr' = Return(f) /\ run' = run /\ run.state = "paused"
  BY <1>1, <1>4, ReturnIs DEF FailsInto, Frame
<1>. QED  BY <1>2, <1>3, <1>4 DEF FailNode

LEMMA FailStepIs ==
    ASSUME ~ReattachMayThrow, EInv, FailStep
    PROVE  \E n \in Node : FailsInto(n)
<1>. USE DEF EInv, NInv, Inv
<1>1. fr \in Frame /\ (fr.pc \in {"active", "bind"} => fr.cur \in Node) /\ NoRun \in Int
      /\ run.state \in RunState
  BY NoRunInt DEF TypeOK, FrameOK, RunRow
<1>2. Recovered
  <2>1. CASE TerminalFailed
    BY <2>1, PopIs DEF TerminalFailed, TakeTerminal
  <2>2. CASE ~TerminalFailed
    BY <2>2, Busy DEF FailStep, FailActive, RecoverFail, ScanFail, Scans, At
  <2>. QED  BY <2>1, <2>2
<1>3. fr.pc \in {"idle", "scan", "active"} => fr.recs = {}
  BY DEF Frames
<1>4. CASE TerminalFailed
  <2>1. /\ Ev.node \in Node /\ Ev.run \in Int /\ rows[Ev.node].state = "running"
        /\ FailNode(Ev.node, Ev.run, IdleFrame) /\ graph' = graph /\ up /\ fr.pc = "idle"
        /\ run.state \notin Terminal /\ ~run.cancelRequested
    BY <1>4, TerminalTyped DEF TerminalFailed, TakeTerminal, Expected, NextEvent
  <2>2. run.state \in {"running", "paused"}
    BY <1>1, <2>1, UpHasRun DEF RunState, Terminal, StateRows
  <2>3. Fails(Ev.node)
    BY <2>1, <2>2, FailNodeIs
  <2>4. \A m \in Node : ~Unbound(m)
    BY <1>2, <2>1 DEF OneUnbound
  <2>5. IdleFrame \in Frame /\ IdleFrame.recs = fr.recs \ {Ev.node} /\ IdleFrame.ret = "idle"
    BY <1>3, <2>1, IdleFrameTyped DEF IdleFrame
  <2>6. FailsInto(Ev.node)
    BY <2>1, <2>3, <2>4, <2>5, FailInto
  <2>. QED  BY <2>1, <2>6
<1>5. ASSUME NEW n \in Node, RecoverFail(n)
      PROVE  FailsInto(n)
  <2> DEFINE f == [fr EXCEPT !.recs = @ \ {n}, !.failed = TRUE, !.ret = "recover"]
  <2>1. f \in Frame /\ f.recs = fr.recs \ {n} /\ f.failed /\ f.ret = "recover"
    BY <1>1 DEF Frame
  <2>2. fr.pc = "recover" /\ FailNode(n, rows[n].run, f)
    BY <1>5 DEF RecoverFail, At
  <2>3. Fails(n) /\ Unbound(n)
    BY <1>5, RecoverFailIs
  <2>4. \A m \in Node : Unbound(m) => m = n
    BY <2>3 DEF OneUnbound
  <2>. HIDE DEF f
  <2>. QED  BY <2>1, <2>2, <2>3, <2>4, FailInto
<1>6. ASSUME NEW n \in Node, ScanFail(n)
      PROVE  FailsInto(n)
  <2> DEFINE f == [Visited(n, TRUE) EXCEPT !.ret = "scan"]
  <2>1. fr.pc = "scan" /\ Schedulable /\ rows[n].state = "planned" /\ FailNode(n, NoRun, f)
        /\ graph' = graph
    BY <1>6 DEF ScanFail, Scans, At, Loops, InState
  <2>2. f \in Frame /\ f.recs = fr.recs \ {n} /\ f.changed /\ f.ret = "scan"
    BY <1>1, <1>3, <2>1 DEF Visited, Frame
  <2>3. Fails(n)
    BY <1>1, <2>1, FailNodeIs DEF Schedulable
  <2>4. \A m \in Node : ~Unbound(m)
    BY <1>2, <2>1 DEF OneUnbound
  <2>. HIDE DEF f
  <2>. QED  BY <2>1, <2>2, <2>3, <2>4, FailInto
<1>7. CASE FailActive
  <2> DEFINE f == [fr EXCEPT !.ret = "scan"]
  <2>1. /\ fr.pc = "active" /\ Schedulable /\ rows[fr.cur].state = "running" /\ fr.cur \in Node
        /\ FailNode(fr.cur, NoRun, f) /\ graph' = graph
    BY <1>1, <1>7 DEF FailActive, At, Loops
  <2>2. f \in Frame /\ f.recs = fr.recs \ {fr.cur} /\ f.changed /\ f.ret = "scan"
    BY <1>1, <1>3, <2>1 DEF Frame, Points
  <2>3. Fails(fr.cur)
    BY <1>1, <2>1, FailNodeIs DEF Schedulable
  <2>4. \A m \in Node : Unbound(m) => m = fr.cur
    BY <1>2, <2>1 DEF OneUnbound
  <2>. HIDE DEF f
  <2>5. FailsInto(fr.cur)
    BY <2>1, <2>2, <2>3, <2>4, FailInto
  <2>. QED  BY <2>1, <2>5
<1>. QED  BY <1>4, <1>5, <1>6, <1>7 DEF FailStep

(***************************************************************************)
(* Control points.                                                         *)
(***************************************************************************)

\* A handler that returns or ticks.
LEMMA PointsFresh ==
    ASSUME fr' = IdleFrame \/ fr' = Goto("tick")
    PROVE  Points'
BY DEF Points, Goto, IdleFrame

LEMMA PointsStep ==
    ASSUME ~ReattachMayThrow, EInv, [Next]_vars
    PROVE  Points'
<1>. USE DEF EInv, NInv, Inv
<1>1. /\ fr \in Frame /\ rows \in [Node -> NodeRow] /\ run \in RunRow /\ tasks \in Seq(TaskRun)
      /\ up => run.state # "absent"
  BY UpHasRun DEF TypeOK, FrameOK
<1>2. CASE Create
  <2>1. fr' = fr /\ fr.pc = "idle" /\ ~fr.failed /\ fr.ret = "idle"
    BY <1>2, CreatedIs
  <2>. QED  BY <2>1 DEF Points
<1>3. CASE Crash
  BY <1>3, CrashIs, PointsFresh
<1>4. CASE UNCHANGED <<run, rows, graph, fr>>
  BY <1>4 DEF Points, Schedulable, InState, KindOf
<1>5. CASE FailStep
  <2>1. PICK n \in Node : FailsInto(n)
    BY <1>5, FailStepIs
  <2>. QED  BY <2>1 DEF FailsInto, Fails, Points, Schedulable
<1>6. CASE HandleRecover
  BY <1>6 DEF HandleRecover, Goto, IdleFrame, Points
<1>7. CASE RecoverDone
  <2>1. up /\ UNCHANGED <<run, rows, graph>>
    BY <1>7 DEF RecoverDone, At, durable
  <2>2. CASE fr' = Goto("begin") /\ run.cancelRequested
    BY <1>1, <2>1, <2>2 DEF StateRows, Points, Goto, IdleFrame
  <2>. QED  BY <1>7, <2>2, PointsFresh DEF RecoverDone
<1>8. CASE PauseRun
  <2>1. /\ fr'.pc \in {"idle", "recover", "scan"} /\ fr'.ret = "idle"
        /\ run'.state = "paused"
    BY <1>1, <1>8, ReturnIs DEF PauseRun, At, Frame, RunRow
  <2>. QED  BY <2>1 DEF Points, Schedulable
<1>9. CASE ConvergeCancellation
  <2>1. /\ fr'.pc \in {"idle", "recover", "scan"} /\ fr'.ret = "idle"
    BY <1>1, <1>9, ReturnIs DEF ConvergeCancellation, At, Frame, Points
  <2>2. run'.cancelRequested \/ run'.state = "cancelled"
    BY <1>1, <1>9 DEF ConvergeCancellation, At, Points, Converged, FinishCancelled, RunRow
  <2>. QED  BY <2>1, <2>2 DEF Points, Schedulable
<1>10. CASE BeginCancellation
  <2>1. /\ fr'.pc = "cancel" /\ fr'.ret = fr.ret /\ fr'.failed = fr.failed
        /\ fr'.changed = fr.changed /\ InState("waiting") \subseteq fr'.todo
        /\ run.state # "done" /\ rows' = rows
    BY <1>1, <1>10 DEF BeginCancellation, At, Frame, Points
  <2>2. run'.cancelRequested /\ run'.state = run.state
    BY <1>1, <1>10 DEF BeginCancellation, RunRow
  <2>. QED  BY <2>1, <2>2 DEF Points, InState
<1>11. ASSUME NEW n \in Node, CancelNode(n)
       PROVE  Points'
  <2>1. \/ fr' = [fr EXCEPT !.todo = @ \ {n}]
        \/ \E r : fr' = [fr EXCEPT !.todo = @ \ {n}, !.pending = @ \cup {r}]
    BY <1>11 DEF CancelNode
  <2>2. /\ fr.pc = "cancel" /\ fr'.pc = "cancel" /\ fr'.ret = fr.ret /\ fr'.failed = fr.failed
        /\ fr'.changed = fr.changed /\ fr'.todo = fr.todo \ {n} /\ run' = run
    BY <1>1, <1>11, <2>1 DEF CancelNode, At, Frame
  <2>3. \/ rows' = rows /\ rows[n].state = "running"
        \/ \E s \in {"cancelled", "interrupted"} :
              rows' = [rows EXCEPT ![n] = Row(s, NoRun, NoNode)]
    BY <1>11 DEF CancelNode
  <2>4. rows'[n].state # "waiting" /\ \A m \in Node \ {n} : rows'[m] = rows[m]
    BY <1>1, <2>3 DEF Row
  <2>. QED  BY <2>2, <2>4 DEF Points, InState
<1>12. CASE Settle
  <2>1. /\ fr.pc = "cancel" /\ fr'.pc = "cancel" /\ fr'.ret = fr.ret /\ fr'.failed = fr.failed
        /\ fr'.changed = fr.changed /\ fr'.todo = fr.todo /\ run' = run /\ rows' = rows
    BY <1>1, <1>12 DEF Settle, SettleCancel, At, Frame, durable
  <2>. QED  BY <2>1 DEF Points, InState
<1>13. ASSUME NEW n \in Node, RecoverReattach(n)
       PROVE  Points'
  <2>1. /\ fr.pc = "recover" /\ fr'.pc = "recover" /\ fr'.ret = fr.ret
        /\ fr'.failed = fr.failed /\ fr'.changed = fr.changed /\ run' = run
    BY <1>1, <1>13 DEF RecoverReattach, At, Frame, durable
  <2>. QED  BY <2>1 DEF Points, Schedulable
<1>14. CASE HandleStart
  <2>1. fr.pc = "idle" /\ up /\ run.state = "created" /\ UNCHANGED <<run, graph>>
        /\ fr' = Goto("started") /\ Recovered
    BY <1>14, PopIs DEF HandleStart, HandleSignal, NextEvent, Accepts
  <2>2. ~run.cancelRequested
    <3>1. InState("running") = {}
      BY <2>1 DEF StateRows, InState
    <3>. QED  BY <2>1, <3>1 DEF Swept, Terminal
  <2>3. PICK s \in KindOf(graph, "start") :
           rows' = [rows EXCEPT ![s] = Row("done", NoRun, NoNode)]
    BY <1>14 DEF HandleStart
  <2>4. KindOf(graph, "start") = {s} /\ s \in Node
    BY <2>1, <2>3 DEF Matched, WellFormed, KindOf
  <2>5. rows'[s].state = "done"
    BY <1>1, <2>3, <2>4 DEF Row
  <2>. QED  BY <2>1, <2>2, <2>4, <2>5 DEF Points, Goto, IdleFrame, KindOf
<1>15. CASE StartRun \/ HandleResume \/ HandleResumeCheckpoint \/ TerminalDone \/ ScanEnd
  BY <1>15, PointsFresh DEF StartRun, HandleResume, HandleResumeCheckpoint, TerminalDone, ScanEnd
<1>16. CASE HandleCancel
  <2>1. /\ run.state \notin {"absent", "done"} /\ fr' = Goto("begin") /\ run' = run
    BY <1>1, <1>16
    DEF HandleCancel, HandleSignal, NextEvent, Accepts, Terminal, durable
  <2>. QED  BY <2>1 DEF Points, Goto, IdleFrame
<1>17. CASE TerminalInterrupted
  <2>1. /\ Ev.node \in Node /\ rows[Ev.node].state = "running" /\ run' = run
        /\ rows' = [rows EXCEPT ![Ev.node] = Row("interrupted", Ev.run, NoNode)]
        /\ run.cancelRequested /\ run.state \notin Terminal /\ fr.pc = "idle"
        /\ fr' = Goto("cancel") /\ Recovered
    BY <1>17, TerminalTyped, PopIs DEF TerminalInterrupted, TakeTerminal, Expected, NextEvent
  <2>2. InState("waiting") = {}
    BY <2>1 DEF Swept
  <2>3. InState("waiting")' = {}
    BY <1>1, <2>1, <2>2 DEF InState, Row
  <2>. QED  BY <2>1, <2>3 DEF Points, Goto, IdleFrame, Terminal
<1>18. CASE Tick
  <2>1. CASE fr' = [Goto("scan") EXCEPT !.todo = InState("planned") \ KindOf(graph, "start")]
    BY <2>1 DEF Points, Goto, IdleFrame
  <2>. QED  BY <1>18, <2>1, PointsFresh DEF Tick
<1>19. ASSUME NEW n \in Node, ScanImpossible(n) \/ ScanWaiting(n) \/ ScanActivate(n)
       PROVE  Points'
  <2>1. /\ fr.pc = "scan" /\ fr.ret = "idle" /\ ~fr.failed
    BY <1>19 DEF ScanImpossible, ScanWaiting, ScanActivate, Scans, At, Frames
  <2>2. CASE \E c \in BOOLEAN : fr' = Visited(n, c)
    BY <1>1, <2>1, <2>2 DEF Points, Visited, Frame
  <2>3. CASE fr' = [Visited(n, TRUE) EXCEPT !.pc = "active", !.cur = n]
    BY <1>1, <2>1, <2>3 DEF Points, Visited, Frame
  <2>. QED  BY <1>19, <2>2, <2>3 DEF ScanImpossible, ScanWaiting, ScanActivate
<1>20. CASE CompleteControlNode \/ BindTask \/ DispatchRejected
  <2>1. fr' = Scanning /\ fr.pc \in {"active", "bind"}
    BY <1>20 DEF CompleteControlNode, BindTask, DispatchRejected, At
  <2>2. fr.ret = "idle" /\ ~fr.failed
    BY <2>1 DEF Frames
  <2>. QED  BY <1>1, <2>1, <2>2 DEF Points, Scanning, Frame
<1>21. CASE DispatchTask
  <2>1. /\ fr.pc = "active" /\ fr'.pc = "bind" /\ fr'.ret = fr.ret /\ fr'.failed = fr.failed
        /\ fr'.changed = fr.changed /\ fr'.bound = Len(tasks) + 1
    BY <1>1, <1>21 DEF DispatchTask, At, Frame
  <2>2. fr'.bound # NoRun
    BY <1>1, <2>1 DEF NoRun
  <2>. QED  BY <2>1, <2>2 DEF Points
<1>22. CASE HandlePause \/ HandlePatchConfirm
  <2>1. fr' = fr /\ fr.pc = "idle"
    BY <1>22 DEF HandlePause, HandleSignal, NextEvent, HandlePatchConfirm
  <2>2. fr.ret = "idle" /\ ~fr.failed
    BY <2>1 DEF Frames
  <2>. QED  BY <2>1, <2>2 DEF Points
<1>23. CASE \/ HandleIgnored \/ TerminalStale \/ HandlePatchRequest \/ RejectOnConfirm
            \/ HandlePatchReject \/ PatchNotFound \/ Stays
  BY <1>4, <1>23
  DEF HandleIgnored, TerminalStale, HandlePatchRequest, RejectOnConfirm, HandlePatchReject,
      PatchNotFound, Stays, durable
<1>. QED
  BY <1>2, <1>3, <1>5, <1>6, <1>7, <1>8, <1>9, <1>10, <1>11, <1>12, <1>13, <1>14, <1>15,
     <1>16, <1>17, <1>18, <1>19, <1>20, <1>21, <1>22, <1>23, Actors, OuterIs
  DEF RunnerStep, FailStep

(***************************************************************************)
(* Rows without a task run.                                                *)
(***************************************************************************)

\* No row was unbound, and none is now.
LEMMA NoneUnbound ==
    ASSUME fr'.recs \subseteq InState("running")', \A m \in Node : ~Unbound(m)'
    PROVE  OneUnbound'
BY DEF OneUnbound

\* A row that is written with a task run, or that does not run, is not unbound.
LEMMA BoundRow ==
    ASSUME TypeOK, NEW n \in Node, NEW s, NEW r, NEW b,
           rows' = [rows EXCEPT ![n] = Row(s, r, b)], s # "running" \/ r # NoRun
    PROVE  \A m \in Node : Unbound(m)' => Unbound(m) /\ m # n
BY DEF Unbound, Row, TypeOK

LEMMA OneUnboundStep ==
    ASSUME ~ReattachMayThrow, EInv, [Next]_vars
    PROVE  OneUnbound'
<1>. USE DEF EInv, NInv, Inv
<1>1. /\ fr \in Frame /\ rows \in [Node -> NodeRow] /\ run \in RunRow
      /\ (fr.pc \in {"active", "bind"} => fr.cur \in Node)
  BY DEF TypeOK, FrameOK
<1>2. Recovered /\ fr.pc \notin {"recover", "active", "bind"} => \A m \in Node : ~Unbound(m)
  BY DEF OneUnbound
<1>3. fr.pc \in {"idle", "started", "tick", "scan", "active", "bind"} => fr.recs = {}
  BY DEF Frames
<1>4. CASE Create
  <2>1. fr'.recs = {} /\ \A n \in Node : rows'[n].state \in {"none", "planned"}
    BY <1>4, CreatedIs
  <2>. QED  BY <2>1, NoneUnbound DEF Unbound
<1>5. CASE Crash
  <2>1. UNCHANGED <<run, rows>> /\ fr'.recs = {} /\ ~Recovered'
    BY <1>5, CrashIs DEF IdleFrame
  <2>. QED  BY <2>1 DEF OneUnbound, Unbound, Schedulable
<1>6. CASE Stays
  BY <1>6 DEF Stays, OneUnbound, Unbound, Schedulable, InState
<1>7. CASE FailStep
  <2>1. PICK n \in Node : FailsInto(n)
    BY <1>7, FailStepIs
  <2>2. \A m \in Node : ~Unbound(m)'
    BY <2>1 DEF FailsInto, Unbound
  <2>3. fr'.recs \subseteq InState("running")'
    BY <2>1 DEF FailsInto, OneUnbound, InState
  <2>. QED  BY <2>2, <2>3, NoneUnbound
<1>8. CASE HandleRecover
  <2>1. /\ rows' = rows /\ fr'.pc = "recover" /\ ~fr'.failed /\ fr'.recs = InState("running")
        /\ run' = RepairCancelPolicyFailure(run)
    BY <1>8 DEF HandleRecover, Goto, IdleFrame
  <2>2. Schedulable => Schedulable'
    BY <2>1 DEF RepairCancelPolicyFailure, StateRows, Schedulable
  <2>. QED  BY <2>1, <2>2 DEF OneUnbound, Unbound, InState
<1>9. CASE RecoverDone
  <2>1. UNCHANGED <<run, rows>> /\ fr'.recs = {} /\ fr.pc = "recover" /\ fr.recs = {} /\ Recovered
    BY <1>9, Busy DEF RecoverDone, At, durable, Goto, IdleFrame
  <2>2. \A m \in Node : ~Unbound(m)
    BY <2>1 DEF OneUnbound
  <2>. QED  BY <2>1, <2>2, NoneUnbound DEF Unbound
<1>10. ASSUME NEW n \in Node, RecoverReattach(n)
       PROVE  OneUnbound'
  <2>1. /\ fr.pc = "recover" /\ fr'.pc = "recover" /\ fr'.failed = fr.failed
        /\ fr'.recs = fr.recs \ {n} /\ UNCHANGED <<run, rows>> /\ ~Unbound(n) /\ Recovered
    BY <1>1, <1>10, Busy DEF RecoverReattach, At, Frame, durable, Unbound
  <2>. QED  BY <2>1 DEF OneUnbound, Unbound, Schedulable, InState
<1>11. CASE PauseRun \/ ConvergeCancellation \/ BeginCancellation \/ Settle
  <2>1. fr.pc \in {"pauseRun", "begin", "cancel"} /\ rows' = rows /\ up
    BY <1>11
    DEF PauseRun, ConvergeCancellation, BeginCancellation, Settle, SettleCancel, At, durable
  <2>2. fr'.recs = fr.recs
    BY <1>1, <1>11, ReturnIs
    DEF PauseRun, ConvergeCancellation, BeginCancellation, Settle, SettleCancel, Frame
  <2>3. \A m \in Node : ~Unbound(m)
    BY <1>2, <2>1, Busy
  <2>. QED  BY <2>1, <2>2, <2>3, NoneUnbound DEF Unbound, OneUnbound, InState
<1>12. ASSUME NEW n \in Node, CancelNode(n)
       PROVE  OneUnbound'
  <2>1. fr.pc = "cancel" /\ up
    BY <1>12 DEF CancelNode, At
  <2>2. \A m \in Node : ~Unbound(m)
    BY <1>2, <2>1, Busy
  <2>3. \/ fr' = [fr EXCEPT !.todo = @ \ {n}]
        \/ \E r : fr' = [fr EXCEPT !.todo = @ \ {n}, !.pending = @ \cup {r}]
    BY <1>12 DEF CancelNode
  <2>4. fr'.recs = fr.recs
    BY <1>1, <2>3 DEF Frame
  <2>5. \/ rows' = rows
        \/ /\ rows[n].state # "running"
           /\ rows' = [rows EXCEPT ![n] = Row("cancelled", NoRun, NoNode)]
    BY <1>12, <2>2 DEF CancelNode, Unbound
  <2>6. \A m \in Node : rows[m].state = "running" => rows'[m] = rows[m]
    BY <1>1, <2>5
  <2>7. \A m \in Node : ~Unbound(m)'
    BY <2>2, <2>5, BoundRow DEF Unbound
  <2>. QED  BY <2>4, <2>6, <2>7, NoneUnbound DEF OneUnbound, InState
<1>13. ASSUME Recovered, fr.pc \in {"idle", "started", "tick", "scan"}, fr'.recs = {},
              \A m \in Node : Unbound(m)' => Unbound(m)
       PROVE  OneUnbound'
  BY <1>2, <1>13, NoneUnbound
<1>14. CASE HandleStart
  <2>1. fr.pc = "idle" /\ Recovered /\ fr'.recs = {}
    BY <1>14, PopIs DEF HandleStart, HandleSignal, NextEvent, Goto, IdleFrame
  <2>2. \E s \in Node : rows' = [rows EXCEPT ![s] = Row("done", NoRun, NoNode)]
    BY <1>14 DEF HandleStart, KindOf
  <2>. QED  BY <2>1, <2>2, <1>13, BoundRow
<1>15. CASE StartRun \/ Tick \/ ScanEnd
  <2>1. fr.pc \in {"started", "tick", "scan"} /\ Recovered /\ rows' = rows
    BY <1>15, Busy DEF StartRun, Tick, ScanEnd, At
  <2>2. \/ fr' = IdleFrame \/ fr' = Goto("tick")
        \/ fr' = [Goto("scan") EXCEPT !.todo = InState("planned") \ KindOf(graph, "start")]
    BY <1>15 DEF StartRun, Tick, ScanEnd
  <2>3. fr'.recs = {}
    <3>1. CASE fr' = IdleFrame \/ fr' = Goto("tick")
      BY <3>1 DEF Goto, IdleFrame
    <3>2. CASE fr' = [Goto("scan") EXCEPT !.todo = InState("planned") \ KindOf(graph, "start")]
      BY <3>2 DEF Goto, IdleFrame
    <3>. QED  BY <2>2, <3>1, <3>2
  <2>. QED  BY <2>1, <2>3, <1>13 DEF Unbound
<1>16. CASE HandlePause \/ HandleResume \/ HandleCancel
  <2>1. fr.pc = "idle" /\ Recovered /\ rows' = rows
    BY <1>16, PopIs DEF HandlePause, HandleResume, HandleCancel, HandleSignal, NextEvent, durable
  <2>2. fr'.recs = {}
    BY <1>3, <1>16, <2>1 DEF HandlePause, HandleResume, HandleCancel, Goto, IdleFrame
  <2>. QED  BY <2>1, <2>2, <1>13 DEF Unbound
<1>17. CASE HandleResumeCheckpoint
  <2>1. fr.pc = "idle" /\ Recovered /\ fr'.recs = {}
    BY <1>17, PopIs DEF HandleResumeCheckpoint, HandleSignal, NextEvent, Goto, IdleFrame
  <2>2. \E s \in Node : rows' = [rows EXCEPT ![s] = Row("done", NoRun, NoNode)]
    BY <1>17, CheckpointTyped DEF HandleResumeCheckpoint, HandleSignal, Ev
  <2>. QED  BY <2>1, <2>2, <1>13, BoundRow
<1>18. CASE TerminalInterrupted \/ TerminalDone
  <2>1. fr.pc = "idle" /\ Recovered /\ fr'.recs = {}
    BY <1>18, PopIs
    DEF TerminalInterrupted, TerminalDone, TakeTerminal, NextEvent, Goto, IdleFrame
  <2>2. /\ Ev.node \in Node
        /\ \/ rows' = [rows EXCEPT ![Ev.node] = Row("interrupted", Ev.run, NoNode)]
           \/ rows' = [rows EXCEPT ![Ev.node] = Row("done", Ev.run, NoNode)]
    BY <1>18, TerminalTyped DEF TerminalInterrupted, TerminalDone, TakeTerminal
  <2>. QED  BY <2>1, <2>2, <1>13, BoundRow
<1>19. CASE HandlePatchConfirm
  <2>1. fr.pc = "idle" /\ Recovered /\ fr' = fr
    BY <1>19, PopIs DEF HandlePatchConfirm, NextEvent
  <2>2. \A n \in Node : rows'[n] = rows[n] \/ rows'[n].state \in {"none", "planned"}
    BY <1>19, ConfirmIs
  <2>3. \A m \in Node : Unbound(m)' => Unbound(m)
    BY <2>2 DEF Unbound
  <2>. QED  BY <2>1, <2>3, <1>3, <1>13
<1>20. CASE HandleIgnored \/ TerminalStale
            \/ HandlePatchRequest \/ RejectOnConfirm \/ HandlePatchReject \/ PatchNotFound
  <2>1. UNCHANGED <<rows, fr>> /\ fr.pc = "idle"
    BY <1>20
    DEF HandleIgnored, TerminalStale, HandlePatchRequest, RejectOnConfirm, HandlePatchReject,
        PatchNotFound, HandleSignal, TakeTerminal, NextEvent, durable
  <2>2. Recovered
    BY <1>20, RunnerIs DEF RunnerStep, HandleRecover, HandleIgnored, TerminalStale,
       HandlePatchRequest, RejectOnConfirm, HandlePatchReject, PatchNotFound, HandleSignal,
       TakeTerminal, NextEvent, GraphSignals
  <2>. QED  BY <2>1, <2>2, <1>3, <1>13 DEF Unbound
<1>21. ASSUME NEW n \in Node, ScanImpossible(n) \/ ScanWaiting(n)
       PROVE  OneUnbound'
  <2>1. fr.pc = "scan" /\ Recovered
    BY <1>21, Busy DEF ScanImpossible, ScanWaiting, Scans, At
  <2>2. fr'.recs = {}
    BY <1>1, <1>3, <1>21, <2>1 DEF ScanImpossible, ScanWaiting, Visited, Frame
  <2>3. rows' = rows \/ rows' = [rows EXCEPT ![n] = Row("cancelled", NoRun, NoNode)]
    BY <1>21 DEF ScanImpossible, ScanWaiting, durable
  <2>4. \A m \in Node : Unbound(m)' => Unbound(m)
    BY <2>3, BoundRow DEF Unbound
  <2>. QED  BY <2>1, <2>2, <2>4, <1>13
<1>22. ASSUME NEW n \in Node, ScanActivate(n)
       PROVE  OneUnbound'
  <2>1. fr.pc = "scan" /\ Recovered /\ Schedulable /\ run' = run
    BY <1>22, Busy DEF ScanActivate, Scans, At
  <2>2. CASE fr' = Visited(n, TRUE) /\ rows' = [rows EXCEPT ![n] = Row("waiting", NoRun, NoNode)]
    <3>1. fr'.recs = {}
      BY <1>1, <1>3, <2>1, <2>2 DEF Visited, Frame
    <3>2. \A m \in Node : Unbound(m)' => Unbound(m)
      BY <2>2, BoundRow
    <3>. QED  BY <2>1, <3>1, <3>2, <1>13
  <2>3. CASE /\ fr' = [Visited(n, TRUE) EXCEPT !.pc = "active", !.cur = n]
             /\ rows' = [rows EXCEPT ![n] = Row("running", NoRun, NoNode)]
    <3>1. fr'.recs = {} /\ fr'.pc = "active" /\ fr'.cur = n
      BY <1>1, <1>3, <2>1, <2>3 DEF Visited, Frame
    <3>2. \A m \in Node : Unbound(m)' => m = n
      BY <1>1, <1>2, <2>1, <2>3 DEF Unbound
    <3>. QED  BY <2>1, <3>1, <3>2 DEF OneUnbound, Schedulable
  <2>. QED  BY <1>22, <2>2, <2>3 DEF ScanActivate
<1>23. CASE CompleteControlNode \/ BindTask \/ DispatchRejected
  <2>1. fr.pc \in {"active", "bind"} /\ Recovered /\ fr' = Scanning /\ fr.cur \in Node
    BY <1>1, <1>23, Busy DEF CompleteControlNode, BindTask, DispatchRejected, At
  <2>2. fr'.recs = {}
    BY <1>1, <1>3, <2>1 DEF Scanning, Frame
  <2>3. \/ \E b : rows' = [rows EXCEPT ![fr.cur] = Row("done", NoRun, b)]
        \/ \E r : r # NoRun /\ rows' = [rows EXCEPT ![fr.cur] = Row("running", r, NoNode)]
    <3>1. CASE CompleteControlNode
      BY <3>1 DEF CompleteControlNode
    <3>2. CASE BindTask
      BY <3>2 DEF BindTask, At, Points
    <3>3. CASE DispatchRejected
      <4>1. rows' = [rows EXCEPT ![fr.cur] = Row("running", Rejected, NoNode)]
        BY <3>3 DEF DispatchRejected
      <4>2. Rejected # NoRun
        BY DEF Rejected, NoRun
      <4>. QED  BY <4>1, <4>2
    <3>. QED  BY <1>23, <3>1, <3>2, <3>3
  <2>4. \A m \in Node : Unbound(m)' => Unbound(m) /\ m # fr.cur
    BY <2>1, <2>3, BoundRow
  <2>5. \A m \in Node : Unbound(m) => m = fr.cur
    BY <2>1 DEF OneUnbound
  <2>. QED  BY <2>2, <2>4, <2>5, NoneUnbound
<1>24. CASE DispatchTask
  <2>1. /\ fr.pc = "active" /\ fr'.pc = "bind" /\ fr'.cur = fr.cur /\ fr'.recs = fr.recs
        /\ UNCHANGED <<run, rows>> /\ Recovered
    BY <1>1, <1>24, Busy DEF DispatchTask, At, Frame, durable
  <2>. QED  BY <2>1 DEF OneUnbound, Unbound, Schedulable, InState
<1>. QED
  BY <1>4, <1>5, <1>6, <1>7, <1>8, <1>9, <1>10, <1>11, <1>12, <1>14, <1>15, <1>16, <1>17,
     <1>18, <1>19, <1>20, <1>21, <1>22, <1>23, <1>24, Actors, OuterIs
  DEF RunnerStep, FailStep

(***************************************************************************)
(* A graph that is left alone.                                             *)
(***************************************************************************)

\* Events that leave the handler idle: none of them ends a running node, begins a
\* checkpoint or makes a graph schedulable.
LEMMA IdleSame ==
    ASSUME EInv,
           \/ HandlePause \/ HandleIgnored \/ TerminalStale \/ HandlePatchRequest
           \/ HandlePatchConfirm \/ RejectOnConfirm \/ HandlePatchReject \/ PatchNotFound
    PROVE  /\ fr' = fr /\ fr.pc = "idle" /\ Recovered
           /\ run'.cancelRequested = run.cancelRequested
           /\ run'.state = run.state \/ (run.state = "running" /\ run'.state = "paused")
           /\ \A n \in Node : rows[n].state \in {"running", "waiting"} => rows'[n] = rows[n]
           /\ \A n \in Node : rows'[n].state \in {"running", "waiting"} => rows'[n] = rows[n]
<1>. USE DEF EInv, NInv, Inv
<1>1. run \in RunRow /\ rows \in [Node -> NodeRow]
  BY DEF TypeOK
<1>2. Recovered
  BY RunnerIs
  DEF RunnerStep, HandleRecover, HandlePause, HandleIgnored, TerminalStale,
      HandlePatchRequest, HandlePatchConfirm, RejectOnConfirm, HandlePatchReject,
      PatchNotFound, HandleSignal, TakeTerminal, NextEvent, GraphSignals
<1>3. fr' = fr /\ fr.pc = "idle"
  BY DEF HandlePause, HandleIgnored, TerminalStale, HandlePatchRequest, HandlePatchConfirm,
         RejectOnConfirm, HandlePatchReject, PatchNotFound, HandleSignal, TakeTerminal,
         NextEvent
<1>4. CASE HandlePause
  BY <1>1, <1>2, <1>3, <1>4 DEF HandlePause, Accepts, RunRow
<1>5. CASE HandlePatchConfirm
  <2>1. run'.state = run.state /\ run'.cancelRequested = run.cancelRequested
    BY <1>1, <1>5, ConfirmIs DEF RunRow
  <2>2. \A n \in Node :
           \/ rows'[n] = rows[n]
           \/ /\ rows[n].state \in {"none", "planned", "failed"}
              /\ rows'[n].state \in {"none", "planned"}
    BY <1>5, ConfirmIs
  <2>. QED  BY <1>2, <1>3, <2>1, <2>2
<1>6. CASE UNCHANGED <<run, rows>>
  BY <1>2, <1>3, <1>6
<1>. QED
  BY <1>4, <1>5, <1>6
  DEF HandleIgnored, TerminalStale, HandlePatchRequest, RejectOnConfirm, HandlePatchReject,
      PatchNotFound, durable

\* What a cancellation leaves in an unfinished graph.
LEMMA SweptStep ==
    ASSUME ~ReattachMayThrow, EInv, [Next]_vars
    PROVE  Swept'
<1>. USE DEF EInv, NInv, Inv
<1>1. fr \in Frame /\ run \in RunRow /\ rows \in [Node -> NodeRow]
  BY DEF TypeOK, FrameOK
<1>2. ASSUME run'.cancelRequested = FALSE \/ run'.state \in Terminal
             \/ fr'.pc \notin {"idle", "tick", "scan", "recover"}
             \/ (fr'.pc = "recover" /\ ~fr'.failed)
      PROVE  Swept'
  BY <1>2 DEF Swept
<1>3. CASE Create \/ Crash
  BY <1>3, <1>2, CreatedIs, CrashIs DEF Swept
<1>4. CASE Stays
  BY <1>4 DEF Stays, Swept, InState
<1>5. CASE FailStep
  <2>1. PICK n \in Node : FailsInto(n)
    BY <1>5, FailStepIs
  <2>. QED  BY <1>1, <1>2, <2>1 DEF FailsInto, Fails, RunRow
<1>6. CASE \/ HandlePause \/ HandleIgnored \/ TerminalStale \/ HandlePatchRequest
           \/ HandlePatchConfirm \/ RejectOnConfirm \/ HandlePatchReject \/ PatchNotFound
  <2>1. /\ fr' = fr /\ fr.pc = "idle" /\ Recovered
        /\ run'.cancelRequested = run.cancelRequested
        /\ run'.state = run.state \/ (run.state = "running" /\ run'.state = "paused")
        /\ \A n \in Node : rows[n].state \in {"running", "waiting"} => rows'[n] = rows[n]
        /\ \A n \in Node : rows'[n].state \in {"running", "waiting"} => rows'[n] = rows[n]
    BY <1>6, IdleSame
  <2>. QED  BY <2>1 DEF Swept, InState, Terminal
<1>7. CASE HandleRecover \/ HandleStart \/ HandleCancel \/ TerminalInterrupted
           \/ BeginCancellation \/ (\E n \in Node : CancelNode(n)) \/ Settle \/ DispatchTask
  <2>1. fr'.pc \in {"started", "begin", "cancel", "bind"} \/ (fr'.pc = "recover" /\ ~fr'.failed)
    <3>1. CASE HandleRecover \/ HandleStart \/ HandleCancel \/ TerminalInterrupted
      BY <3>1
      DEF HandleRecover, HandleStart, HandleCancel, TerminalInterrupted, Goto, IdleFrame
    <3>2. CASE BeginCancellation \/ Settle \/ DispatchTask
      BY <1>1, <3>2 DEF BeginCancellation, Settle, SettleCancel, DispatchTask, At, Frame
    <3>3. ASSUME NEW n \in Node, CancelNode(n)
          PROVE  fr'.pc = "cancel"
      <4>1. \/ fr' = [fr EXCEPT !.todo = @ \ {n}]
            \/ \E r : fr' = [fr EXCEPT !.todo = @ \ {n}, !.pending = @ \cup {r}]
        BY <3>3 DEF CancelNode
      <4>. QED  BY <1>1, <3>3, <4>1 DEF CancelNode, At, Frame
    <3>. QED  BY <1>7, <3>1, <3>2, <3>3
  <2>. QED  BY <2>1, <1>2
<1>8. CASE RecoverDone
  <2>1. fr.pc = "recover" /\ UNCHANGED <<run, rows>> /\ Recovered
    BY <1>8, Busy DEF RecoverDone, At, durable
  <2>2. CASE fr.failed
    BY <2>1, <2>2 DEF Swept, InState
  <2>3. CASE ~fr.failed /\ run.cancelRequested
    BY <1>2, <1>8, <2>3 DEF RecoverDone, Goto, IdleFrame
  <2>4. CASE ~run.cancelRequested
    BY <1>1, <1>2, <2>1, <2>4 DEF RunRow
  <2>. QED  BY <2>2, <2>3, <2>4
<1>9. ASSUME NEW n \in Node, RecoverReattach(n)
      PROVE  Swept'
  <2>1. /\ fr.pc = "recover" /\ fr'.pc = "recover" /\ fr'.failed = fr.failed
        /\ UNCHANGED <<run, rows>> /\ Recovered
    BY <1>1, <1>9, Busy DEF RecoverReattach, At, Frame, durable
  <2>. QED  BY <2>1 DEF Swept, InState
<1>10. CASE PauseRun
  BY <1>1, <1>2, <1>10 DEF PauseRun, At, Points, Schedulable, RunRow
<1>11. CASE ConvergeCancellation
  <2>1. /\ run' = Converged(run, rows) /\ rows' = rows /\ InState("waiting") = {}
    BY <1>11 DEF ConvergeCancellation, At, Points
  <2>2. CASE run.cancelRequested /\ InState("running") = {}
    BY <1>1, <1>2, <2>1, <2>2 DEF Converged, FinishCancelled, InState, RunRow, Terminal
  <2>3. CASE run.cancelRequested /\ InState("running") # {}
    BY <2>1, <2>3 DEF Swept, InState
  <2>4. CASE ~run.cancelRequested
    BY <1>1, <1>2, <2>1, <2>4 DEF Converged, RunRow
  <2>. QED  BY <2>2, <2>3, <2>4
<1>12. CASE StartRun
  BY <1>1, <1>2, <1>12 DEF StartRun, RunRow
<1>13. CASE HandleResume
  <2>1. /\ fr.pc = "idle" /\ Recovered /\ rows' = rows /\ run.state = "paused"
        /\ run'.cancelRequested = run.cancelRequested
    BY <1>1, <1>13, PopIs DEF HandleResume, HandleSignal, NextEvent, Accepts, RunRow
  <2>. QED  BY <2>1 DEF Swept, InState, Terminal
<1>14. CASE HandleResumeCheckpoint
  <2>1. /\ fr.pc = "idle" /\ Recovered /\ run' = run /\ Ev.node \in Node
        /\ rows[Ev.node].state = "waiting"
        /\ rows' = [rows EXCEPT ![Ev.node] = Row("done", NoRun, NoNode)]
    BY <1>14, PopIs, CheckpointTyped DEF HandleResumeCheckpoint, HandleSignal, NextEvent, Ev
  <2>2. \A n \in Node : rows[n].state = "running" => rows'[n] = rows[n]
    BY <1>1, <2>1
  <2>3. \A n \in Node : rows'[n].state = "waiting" => rows[n].state = "waiting"
    BY <1>1, <2>1 DEF Row
  <2>. QED  BY <2>1, <2>2, <2>3 DEF Swept, InState
<1>15. CASE TerminalDone
  BY <1>1, <1>2, <1>15 DEF TerminalDone, RunRow
<1>16. CASE Tick \/ ScanEnd
  <2>1. fr.pc \in {"tick", "scan"} /\ rows' = rows /\ Recovered
    BY <1>16, Busy DEF Tick, ScanEnd, At
  <2>2. run' = run \/ (Schedulable /\ run' \in {FinishDone(run), FinishCancelled(run)})
    BY <1>16 DEF Tick, ScanEnd
  <2>3. CASE run' = run
    BY <2>1, <2>3 DEF Swept, InState
  <2>4. CASE Schedulable /\ run' \in {FinishDone(run), FinishCancelled(run)}
    BY <1>1, <1>2, <2>4 DEF FinishDone, FinishCancelled, Schedulable, RunRow
  <2>. QED  BY <2>2, <2>3, <2>4
<1>17. CASE \/ CompleteControlNode \/ BindTask \/ DispatchRejected
            \/ \E n \in Node : ScanImpossible(n) \/ ScanWaiting(n) \/ ScanActivate(n)
  <2>1. Schedulable /\ run' = run
    BY <1>17
    DEF CompleteControlNode, BindTask, DispatchRejected, ScanImpossible, ScanWaiting,
        ScanActivate, Scans, At, Loops, durable
  <2>. QED  BY <1>1, <1>2, <2>1 DEF Schedulable, RunRow
<1>. QED
  BY <1>3, <1>4, <1>5, <1>6, <1>7, <1>8, <1>9, <1>10, <1>11, <1>12, <1>13, <1>14, <1>15,
     <1>16, <1>17, Actors, OuterIs
  DEF RunnerStep, FailStep

\* A pass over an acyclic graph that has found every planned node waiting has
\* found one that waits for a node in flight.
LEMMA WaitsInFlight ==
    ASSUME TypeOK, Matched, StateRows, Schedulable,
           \A n \in InState("planned") :
              \/ n \in KindOf(graph, "start")
              \/ DependencyStatus(graph, rows, n) = "waiting",
           NEW p \in Node, DepPending(rows, p)
    PROVE  InState("running") \cup InState("waiting") # {}
<1>1. graph \in [Node -> NodeDef] /\ \A n \in Node : graph[n].deps \subseteq Node
  BY DEF TypeOK, NodeDef
<1>2. CASE p \notin InState("planned")
  BY <1>2 DEF DepPending, InState
<1>3. CASE p \in InState("planned")
  <2>1. InState("planned") \subseteq Ids(graph) /\ Acyclic(graph)
    BY DEF Matched, Ids, InState, Schedulable, WellFormed
  <2>2. PICK n \in InState("planned") : graph[n].deps \cap InState("planned") = {}
    BY <1>3, <2>1 DEF Acyclic
  <2>3. n \in Node /\ n \notin KindOf(graph, "start")
    BY <2>2 DEF StateRows, Schedulable, InState
  <2>4. DependencyStatus(graph, rows, n) = "waiting"
    BY <2>2, <2>3
  <2>5. PICK d \in graph[n].deps : ~DepSatisfied(graph, rows, n, d) /\ DepPending(rows, d)
    BY <2>4 DEF DependencyStatus
  <2>6. d \in Node /\ d \notin InState("planned")
    BY <1>1, <2>2, <2>3, <2>5
  <2>. QED  BY <2>5, <2>6 DEF DepPending, InState
<1>. QED  BY <1>2, <1>3

\* A graph that may schedule is left with something in flight.
LEMMA InFlightStep ==
    ASSUME ~ReattachMayThrow, EInv, [Next]_vars
    PROVE  InFlight'
<1>. USE DEF EInv, NInv, Inv
<1>1. fr \in Frame /\ run \in RunRow /\ rows \in [Node -> NodeRow]
  BY DEF TypeOK, FrameOK
<1>2. ASSUME fr'.pc # "idle" \/ ~Schedulable'
      PROVE  InFlight'
  BY <1>2 DEF InFlight
<1>3. CASE Create
  BY <1>2, <1>3, CreatedIs DEF Schedulable
<1>4. CASE Crash
  BY <1>4, CrashIs DEF InFlight
<1>5. CASE Stays
  BY <1>5 DEF Stays, InFlight, InState, Schedulable
<1>6. CASE FailStep
  <2>1. PICK n \in Node : FailsInto(n)
    BY <1>6, FailStepIs
  <2>. QED  BY <1>2, <2>1 DEF FailsInto, Schedulable
<1>7. CASE \/ HandlePause \/ HandleIgnored \/ TerminalStale \/ HandlePatchRequest
           \/ HandlePatchConfirm \/ RejectOnConfirm \/ HandlePatchReject \/ PatchNotFound
  <2>1. /\ fr' = fr /\ fr.pc = "idle" /\ Recovered
        /\ run'.cancelRequested = run.cancelRequested
        /\ run'.state = run.state \/ (run.state = "running" /\ run'.state = "paused")
        /\ \A n \in Node : rows[n].state \in {"running", "waiting"} => rows'[n] = rows[n]
    BY <1>7, IdleSame
  <2>. QED  BY <2>1 DEF InFlight, InState, Schedulable
<1>8. CASE HandleRecover \/ HandleStart \/ HandleResume \/ HandleCancel \/ TerminalInterrupted
           \/ StartRun
  BY <1>2, <1>8
  DEF HandleRecover, HandleStart, HandleResume, HandleCancel, TerminalInterrupted, StartRun,
      Goto, IdleFrame
<1>9. CASE BeginCancellation \/ Settle \/ DispatchTask \/ (\E n \in Node : RecoverReattach(n))
  BY <1>1, <1>2, <1>9
  DEF BeginCancellation, Settle, SettleCancel, DispatchTask, RecoverReattach, At, Frame
<1>10. ASSUME NEW n \in Node, CancelNode(n)
       PROVE  InFlight'
  <2>1. \/ fr' = [fr EXCEPT !.todo = @ \ {n}]
        \/ \E r : fr' = [fr EXCEPT !.todo = @ \ {n}, !.pending = @ \cup {r}]
    BY <1>10 DEF CancelNode
  <2>. QED  BY <1>1, <1>2, <1>10, <2>1 DEF CancelNode, At, Frame
<1>11. CASE RecoverDone
  <2>1. fr.pc = "recover" /\ run' = run
    BY <1>11 DEF RecoverDone, At, durable
  <2>2. CASE Schedulable /\ ~fr.failed
    BY <1>2, <1>11, <2>2 DEF RecoverDone, Schedulable, Goto, IdleFrame
  <2>3. CASE ~Schedulable
    BY <1>2, <2>1, <2>3 DEF Schedulable
  <2>. QED  BY <2>1, <2>2, <2>3 DEF Points
<1>12. CASE PauseRun
  BY <1>1, <1>2, <1>12 DEF PauseRun, RunRow, Schedulable
<1>13. CASE ConvergeCancellation
  <2>1. run'.cancelRequested \/ run'.state = "cancelled"
    BY <1>1, <1>13 DEF ConvergeCancellation, At, Points, Converged, FinishCancelled, RunRow
  <2>. QED  BY <1>2, <2>1 DEF Schedulable
<1>14. CASE HandleResumeCheckpoint \/ TerminalDone
  <2>1. run' = run /\ (run.state = "running" => fr' = Goto("tick"))
    BY <1>14 DEF HandleResumeCheckpoint, TerminalDone
  <2>. QED  BY <1>2, <2>1 DEF Schedulable, Goto, IdleFrame
<1>15. CASE Tick
  <2>1. \/ ~Schedulable /\ run' = run
        \/ Schedulable /\ run' = FinishDone(run)
        \/ fr' = [Goto("scan") EXCEPT !.todo = InState("planned") \ KindOf(graph, "start")]
    BY <1>15 DEF Tick
  <2>2. CASE ~Schedulable /\ run' = run
    BY <1>2, <2>2 DEF Schedulable
  <2>3. CASE Schedulable /\ run' = FinishDone(run)
    BY <1>1, <1>2, <2>3 DEF Schedulable, FinishDone, RunRow
  <2>4. CASE fr' = [Goto("scan") EXCEPT !.todo = InState("planned") \ KindOf(graph, "start")]
    BY <1>2, <2>4 DEF Goto, IdleFrame
  <2>. QED  BY <2>1, <2>2, <2>3, <2>4
<1>16. CASE ScanEnd
  <2>1. fr.pc = "scan" /\ rows' = rows
    BY <1>16 DEF ScanEnd, At
  <2>2. \/ ~Schedulable /\ run' = run
        \/ Schedulable /\ run' \in {FinishDone(run), FinishCancelled(run)}
        \/ fr' = Goto("tick")
        \/ /\ Schedulable /\ fr.todo = {} /\ ~fr.changed /\ run' = run
           /\ \E n \in Node : DepPending(rows, n)
    BY <1>16 DEF ScanEnd
  <2>3. CASE ~Schedulable /\ run' = run
    BY <1>2, <2>3 DEF Schedulable
  <2>4. CASE Schedulable /\ run' \in {FinishDone(run), FinishCancelled(run)}
    BY <1>1, <1>2, <2>4 DEF Schedulable, FinishDone, FinishCancelled, RunRow
  <2>5. CASE fr' = Goto("tick")
    BY <1>2, <2>5 DEF Goto, IdleFrame
  <2>6. CASE /\ Schedulable /\ fr.todo = {} /\ ~fr.changed /\ run' = run
             /\ \E n \in Node : DepPending(rows, n)
    <3>1. InState("running") \cup InState("waiting") # {}
      BY <2>1, <2>6, WaitsInFlight DEF Passed
    <3>. QED  BY <2>1, <3>1 DEF InFlight, InState
  <2>. QED  BY <2>2, <2>3, <2>4, <2>5, <2>6
<1>17. CASE CompleteControlNode \/ BindTask \/ DispatchRejected
  <2>1. fr' = Scanning
    BY <1>17 DEF CompleteControlNode, BindTask, DispatchRejected
  <2>. QED  BY <1>1, <1>2, <2>1 DEF Scanning, Frame
<1>18. ASSUME NEW n \in Node, ScanImpossible(n) \/ ScanWaiting(n) \/ ScanActivate(n)
       PROVE  InFlight'
  <2>1. /\ fr.pc = "scan"
        /\ \/ \E c \in BOOLEAN : fr' = Visited(n, c)
           \/ fr' = [Visited(n, TRUE) EXCEPT !.pc = "active", !.cur = n]
    BY <1>18 DEF ScanImpossible, ScanWaiting, ScanActivate, Scans, At
  <2>2. fr'.pc \in {"scan", "active"}
    BY <1>1, <2>1 DEF Visited, Frame
  <2>. QED  BY <1>2, <2>2
<1>. QED
  BY <1>3, <1>4, <1>5, <1>6, <1>7, <1>8, <1>9, <1>10, <1>11, <1>12, <1>13, <1>14, <1>15,
     <1>16, <1>17, <1>18, Actors, OuterIs
  DEF RunnerStep, FailStep

\* What a pass has found stays true until the pass changes something.
LEMMA PassedStep ==
    ASSUME ~ReattachMayThrow, EInv, [Next]_vars
    PROVE  Passed'
<1>. USE DEF EInv, NInv, Inv
<1>1. fr \in Frame
  BY DEF TypeOK, FrameOK
<1>2. ASSUME fr'.pc # "scan" \/ fr'.changed
      PROVE  Passed'
  BY <1>2 DEF Passed
<1>3. CASE Create
  BY <1>2, <1>3, CreatedIs
<1>4. CASE fr' = IdleFrame \/ fr' = Goto("tick")
  BY <1>2, <1>4 DEF Goto, IdleFrame
<1>5. CASE UNCHANGED <<rows, graph, fr>>
  BY <1>5 DEF Passed, InState, KindOf
<1>6. CASE Crash \/ Stays
  BY <1>4, <1>5, <1>6, CrashIs DEF Stays
<1>7. CASE FailStep
  <2>1. PICK n \in Node : FailsInto(n)
    BY <1>7, FailStepIs
  <2>. QED  BY <1>2, <2>1 DEF FailsInto
<1>8. CASE \/ HandlePause \/ HandleIgnored \/ TerminalStale \/ HandlePatchRequest
           \/ HandlePatchConfirm \/ RejectOnConfirm \/ HandlePatchReject \/ PatchNotFound
  BY <1>2, <1>8, IdleSame
<1>9. CASE HandleRecover \/ HandleStart \/ HandleCancel \/ TerminalInterrupted
  BY <1>2, <1>9
  DEF HandleRecover, HandleStart, HandleCancel, TerminalInterrupted, Goto, IdleFrame
<1>10. CASE BeginCancellation \/ Settle \/ DispatchTask \/ (\E n \in Node : RecoverReattach(n))
  BY <1>1, <1>2, <1>10
  DEF BeginCancellation, Settle, SettleCancel, DispatchTask, RecoverReattach, At, Frame
<1>11. ASSUME NEW n \in Node, CancelNode(n)
       PROVE  Passed'
  <2>1. \/ fr' = [fr EXCEPT !.todo = @ \ {n}]
        \/ \E r : fr' = [fr EXCEPT !.todo = @ \ {n}, !.pending = @ \cup {r}]
    BY <1>11 DEF CancelNode
  <2>. QED  BY <1>1, <1>2, <1>11, <2>1 DEF CancelNode, At, Frame
<1>12. CASE RecoverDone
  BY <1>2, <1>4, <1>12 DEF RecoverDone, Goto, IdleFrame
<1>13. CASE PauseRun \/ ConvergeCancellation
  <2>1. fr'.pc = fr.ret /\ fr'.changed = fr.changed
    BY <1>1, <1>13, ReturnIs DEF PauseRun, ConvergeCancellation
  <2>. QED  BY <1>2, <2>1 DEF Points
<1>14. CASE \/ StartRun \/ HandleResume \/ HandleResumeCheckpoint \/ TerminalDone \/ ScanEnd
  BY <1>4, <1>14 DEF StartRun, HandleResume, HandleResumeCheckpoint, TerminalDone, ScanEnd
<1>15. CASE Tick
  <2>1. UNCHANGED <<rows, graph>>
    BY <1>15 DEF Tick
  <2>2. CASE fr' = [Goto("scan") EXCEPT !.todo = InState("planned") \ KindOf(graph, "start")]
    <3>1. fr'.todo = InState("planned") \ KindOf(graph, "start")
      BY <2>2 DEF Goto, IdleFrame
    <3>. QED  BY <2>1, <3>1 DEF Passed, InState, KindOf
  <2>. QED  BY <1>4, <1>15, <2>2 DEF Tick
<1>16. CASE CompleteControlNode \/ BindTask \/ DispatchRejected
  <2>1. fr' = Scanning /\ fr.changed
    BY <1>16 DEF CompleteControlNode, BindTask, DispatchRejected, At, Points
  <2>. QED  BY <1>1, <1>2, <2>1 DEF Scanning, Frame
<1>17. ASSUME NEW n \in Node, ScanImpossible(n) \/ ScanActivate(n)
       PROVE  Passed'
  <2>1. \/ fr' = Visited(n, TRUE)
        \/ fr' = [Visited(n, TRUE) EXCEPT !.pc = "active", !.cur = n]
    BY <1>17 DEF ScanImpossible, ScanActivate
  <2>. QED  BY <1>1, <1>2, <2>1 DEF Visited, Frame
<1>18. ASSUME NEW n \in Node, ScanWaiting(n)
       PROVE  Passed'
  <2>1. /\ UNCHANGED <<rows, graph>> /\ DependencyStatus(graph, rows, n) = "waiting"
        /\ fr.pc = "scan" /\ fr'.todo = fr.todo \ {n} /\ fr'.changed = fr.changed
    BY <1>1, <1>18 DEF ScanWaiting, Scans, At, Visited, Frame, durable
  <2>. QED  BY <2>1 DEF Passed, InState, KindOf
<1>. QED
  BY <1>3, <1>6, <1>7, <1>8, <1>9, <1>10, <1>11, <1>12, <1>13, <1>14, <1>15,
     <1>16, <1>17, <1>18, Actors, OuterIs
  DEF RunnerStep, FailStep

(***************************************************************************)
(* The ends of task runs.                                                  *)
(***************************************************************************)

\* An ended run stays ended.
LEMMA EndedStays ==
    ASSUME ~ReattachMayThrow, EInv, [Next]_vars, run.state \in Terminal
    PROVE  run'.state = run.state
<1>. USE DEF EInv, NInv, Inv
<1>1. run \in RunRow
  BY DEF TypeOK
<1>2. CASE RunMoves
  BY <1>2 DEF RunMoves, RunTo, Terminal, Schedulable
<1>3. CASE (\E n \in Node : Works(n)) \/ (\E n \in Node : Fails(n))
  BY <1>3 DEF Works, Fails
<1>4. CASE HandlePatchConfirm
  BY <1>1, <1>4, ConfirmIs DEF RunRow
<1>5. CASE Create
  BY <1>5 DEF Create, Terminal
<1>. QED  BY <1>2, <1>3, <1>4, <1>5, StepIs

\* The runner hears of the end of the node's task run.
Heard(n) == <<rows[n].run, n>> \in observed \/ Delivered(rows[n].run, n)

\* Taking an event keeps the task ends queued behind it.
LEMMA TailKeeps ==
    ASSUME TypeOK, queue # <<>>, queue' = Tail(queue), NEW r, NEW n, Delivered(r, n),
           Head(queue).kind = "task_terminal" => Ev.run # r \/ Ev.node # n
    PROVE  Delivered(r, n)'
<1>1. queue \in Seq(Event) /\ Head(queue) = queue[1]
  BY DEF TypeOK
<1>2. PICK i \in DOMAIN queue : /\ queue[i].kind = "task_terminal"
                                /\ queue[i].run = r /\ queue[i].node = n
  BY DEF Delivered
<1>3. i # 1
  BY <1>1, <1>2 DEF Ev
<1>4. i - 1 \in DOMAIN queue' /\ queue'[i - 1] = queue[i]
  BY <1>1, <1>2, <1>3
<1>. QED  BY <1>2, <1>4 DEF Delivered

LEMMA AppendLast ==
    ASSUME TypeOK, NEW e, queue' = Append(queue, e)
    PROVE  Len(queue) + 1 \in DOMAIN queue' /\ queue'[Len(queue) + 1] = e
<1>1. queue \in Seq(Event)
  BY DEF TypeOK
<1>. QED  BY <1>1

LEMMA AppendKeeps ==
    ASSUME TypeOK, NEW e, queue' = Append(queue, e), NEW r, NEW n, Delivered(r, n)
    PROVE  Delivered(r, n)'
<1>1. queue \in Seq(Event)
  BY DEF TypeOK
<1>2. \A i \in DOMAIN queue : i \in DOMAIN queue' /\ queue'[i] = queue[i]
  BY <1>1
<1>. QED  BY <1>2 DEF Delivered

\* Every running row is new to the runner's care, or was in it and stays.
LEMMA WatchedKept ==
    ASSUME Watched, Recovered, run'.state \notin Terminal => run.state \notin Terminal,
           \A m \in Node :
              rows'[m].state = "running" =>
                 \/ m \in fr'.recs
                 \/ fr'.pc \in {"active", "bind"} /\ m = fr'.cur
                 \/ Heard(m)'
                 \/ /\ rows[m].state = "running"
                    /\ fr.pc \notin {"active", "bind"} \/ m # fr.cur
                    /\ m \in fr.recs => m \in fr'.recs
                    /\ Heard(m) => Heard(m)'
    PROVE  Watched'
BY DEF Watched, Heard, InState

\* No end is missed.
LEMMA WatchedStep ==
    ASSUME ~ReattachMayThrow, EInv, [Next]_vars
    PROVE  Watched'
<1>. USE DEF EInv, NInv, Inv
<1>1. /\ fr \in Frame /\ rows \in [Node -> NodeRow] /\ queue \in Seq(Event)
      /\ (fr.pc \in {"active", "bind"} => fr.cur \in Node)
  BY DEF TypeOK, FrameOK
<1>2. run'.state \notin Terminal => run.state \notin Terminal
  BY EndedStays
<1>3. fr.pc \in {"idle", "started", "tick", "scan", "active", "bind"} => fr.recs = {}
  BY DEF Frames
<1>4. CASE Create
  <2>1. \A n \in Node : rows'[n].state # "running"
    BY <1>4, CreatedIs
  <2>. QED  BY <2>1 DEF Watched, InState
<1>5. CASE Crash
  BY <1>5, CrashIs DEF Watched
<1>6. CASE Stays
  <2>1. CASE Recovered'
    BY <1>6, <2>1 DEF Stays, Watched, InState
  <2>2. CASE ~Recovered'
    BY <2>2 DEF Watched
  <2>. QED  BY <2>1, <2>2
\* A handler that is under way and leaves the queue alone.
<1>7. ASSUME up, fr.pc # "idle", queue' = queue, observed \subseteq observed',
             \A m \in Node :
                rows'[m].state = "running" =>
                   \/ fr'.pc \in {"active", "bind"} /\ m = fr'.cur
                   \/ <<rows'[m].run, m>> \in observed'
                   \/ /\ rows'[m] = rows[m]
                      /\ fr.pc \notin {"active", "bind"} \/ m # fr.cur
                      /\ m \in fr.recs => m \in fr'.recs
      PROVE  Watched'
  <2>1. Recovered
    BY <1>7, Busy
  <2>2. ASSUME NEW m \in Node, rows'[m] = rows[m]
        PROVE  Heard(m) => Heard(m)'
    BY <1>7, <2>2 DEF Heard, Delivered
  <2>3. ASSUME NEW m \in Node, <<rows'[m].run, m>> \in observed'
        PROVE  Heard(m)'
    BY <2>3 DEF Heard
  <2>. QED  BY <1>2, <1>7, <2>1, <2>2, <2>3, WatchedKept
\* An event whose handler ends no running node but the one it is about.
<1>8. ASSUME NEW kind, NextEvent(kind), queue' = Tail(queue), Recovered,
             \/ kind # "task_terminal" /\ observed' = observed
             \/ TakeTerminal,
             \A m \in Node :
                rows'[m].state = "running" =>
                   /\ rows'[m] = rows[m]
                   /\ kind # "task_terminal" \/ m # Ev.node \/ rows[m].run # Ev.run
      PROVE  Watched'
  <2>1. fr.pc = "idle" /\ queue # <<>> /\ Head(queue).kind = kind
    BY <1>8 DEF NextEvent
  <2>2. ASSUME NEW m \in Node, rows'[m].state = "running"
        PROVE  Heard(m) => Heard(m)'
    <3>. PICK r : r = rows[m].run
      OBVIOUS
    <3>1. rows'[m] = rows[m] /\ (kind = "task_terminal" => r # Ev.run \/ m # Ev.node)
      BY <1>8, <2>2
    <3>2. Delivered(r, m) => Delivered(r, m)'
      BY <1>8, <2>1, <3>1, TailKeeps
    <3>3. <<r, m>> \in observed => <<r, m>> \in observed'
      BY <1>8, <2>1, <3>1 DEF TakeTerminal, NextEvent
    <3>. QED  BY <3>1, <3>2, <3>3 DEF Heard
  <2>3. \A m \in Node : rows'[m].state = "running" => rows[m].state = "running"
    BY <1>8
  <2>. QED  BY <1>2, <1>3, <1>8, <2>1, <2>2, <2>3, WatchedKept
<1>9. CASE HandleRecover
  <2>1. rows' = rows /\ fr'.recs = InState("running")
    BY <1>9 DEF HandleRecover, Goto, IdleFrame
  <2>. QED  BY <2>1 DEF Watched, InState
<1>10. CASE RecoverDone
  <2>1. /\ fr.pc = "recover" /\ up /\ fr.recs = {} /\ UNCHANGED <<rows, queue, observed>>
    BY <1>10 DEF RecoverDone, At, durable
  <2>. QED  BY <2>1, <1>7
<1>11. ASSUME NEW n \in Node, RecoverReattach(n)
       PROVE  Watched'
  <2>1. /\ fr.pc = "recover" /\ up /\ fr'.recs = fr.recs \ {n} /\ UNCHANGED <<rows, queue>>
        /\ observed' = observed \cup {<<rows[n].run, n>>}
    BY <1>1, <1>11 DEF RecoverReattach, At, Frame, durable
  <2>. QED  BY <2>1, <1>7
<1>12. CASE FailActive \/ \E n \in Node : RecoverFail(n) \/ ScanFail(n)
  <2>1. PICK n \in Node : FailsInto(n)
    BY <1>12, FailStepIs DEF FailStep
  <2>2. up /\ fr.pc # "idle" /\ UNCHANGED <<queue, observed>>
    BY <1>12 DEF FailActive, RecoverFail, ScanFail, Scans, At
  <2>. QED  BY <2>1, <2>2, <1>7 DEF FailsInto
<1>13. CASE PauseRun \/ ConvergeCancellation \/ BeginCancellation \/ Settle
  <2>1. /\ fr.pc \in {"pauseRun", "begin", "cancel"} /\ up /\ UNCHANGED <<rows, queue, observed>>
    BY <1>13
    DEF PauseRun, ConvergeCancellation, BeginCancellation, Settle, SettleCancel, At, durable
  <2>2. fr'.recs = fr.recs
    BY <1>1, <1>13, ReturnIs
    DEF PauseRun, ConvergeCancellation, BeginCancellation, Settle, SettleCancel, Frame
  <2>. QED  BY <2>1, <2>2, <1>7
<1>14. ASSUME NEW n \in Node, CancelNode(n)
       PROVE  Watched'
  <2>1. fr.pc = "cancel" /\ up /\ UNCHANGED <<queue, observed>>
    BY <1>14 DEF CancelNode, At
  <2>2. \/ fr' = [fr EXCEPT !.todo = @ \ {n}]
        \/ \E r : fr' = [fr EXCEPT !.todo = @ \ {n}, !.pending = @ \cup {r}]
    BY <1>14 DEF CancelNode
  <2>3. fr'.recs = fr.recs
    BY <1>1, <2>2 DEF Frame
  <2>4. \/ rows' = rows
        \/ \E s \in {"cancelled", "interrupted"} :
              rows' = [rows EXCEPT ![n] = Row(s, NoRun, NoNode)]
    BY <1>14 DEF CancelNode
  <2>5. \A m \in Node : rows'[m].state = "running" => rows'[m] = rows[m]
    BY <1>1, <2>4 DEF Row
  <2>. QED  BY <2>1, <2>3, <2>5, <1>7
<1>15. CASE HandleStart
  <2>1. NextEvent("start_graph") /\ queue' = Tail(queue) /\ observed' = observed /\ Recovered
    BY <1>15, PopIs DEF HandleStart, HandleSignal
  <2>2. PICK s \in Node : rows' = [rows EXCEPT ![s] = Row("done", NoRun, NoNode)]
    BY <1>15 DEF HandleStart, KindOf
  <2>3. \A m \in Node : rows'[m].state = "running" => rows'[m] = rows[m]
    BY <1>1, <2>2 DEF Row
  <2>. QED  BY <2>1, <2>3, <1>8
<1>16. CASE StartRun \/ Tick \/ ScanEnd
  <2>1. fr.pc \in {"started", "tick", "scan"} /\ up /\ UNCHANGED <<rows, queue, observed>>
    BY <1>16 DEF StartRun, Tick, ScanEnd, At
  <2>. QED  BY <1>3, <2>1, <1>7
<1>17. CASE HandlePause \/ HandleResume \/ HandleCancel
  <2>1. /\ \E kind \in {"pause_graph", "resume_graph", "cancel_graph"} : NextEvent(kind)
        /\ queue' = Tail(queue) /\ UNCHANGED <<rows, observed>>
    BY <1>17 DEF HandlePause, HandleResume, HandleCancel, HandleSignal, durable
  <2>. QED  BY <2>1, <1>8, PopIs
<1>18. CASE HandleResumeCheckpoint
  <2>1. /\ NextEvent("resume_checkpoint") /\ queue' = Tail(queue) /\ observed' = observed
        /\ Recovered
    BY <1>18, PopIs DEF HandleResumeCheckpoint, HandleSignal
  <2>2. PICK s \in Node : rows' = [rows EXCEPT ![s] = Row("done", NoRun, NoNode)]
    BY <1>18, CheckpointTyped DEF HandleResumeCheckpoint, HandleSignal, Ev
  <2>3. \A m \in Node : rows'[m].state = "running" => rows'[m] = rows[m]
    BY <1>1, <2>2 DEF Row
  <2>. QED  BY <2>1, <2>3, <1>8
<1>19. CASE HandleIgnored
  <2>1. /\ \E kind \in GraphSignals \cup {"resume_checkpoint"} : NextEvent(kind)
        /\ queue' = Tail(queue) /\ UNCHANGED <<rows, observed>>
    BY <1>19 DEF HandleIgnored, HandleSignal, durable
  <2>. QED  BY <2>1, <1>8, PopIs DEF GraphSignals
<1>20. CASE TerminalStale
  <2>1. NextEvent("task_terminal") /\ TakeTerminal /\ queue' = Tail(queue) /\ rows' = rows
        /\ ~Expected /\ Recovered /\ run' = run
    BY <1>20, PopIs DEF TerminalStale, TakeTerminal, durable
  <2>2. CASE run.state \in Terminal
    BY <2>1, <2>2 DEF Watched
  <2>3. CASE run.state \notin Terminal
    BY <2>1, <2>3, <1>8 DEF Expected
  <2>. QED  BY <2>2, <2>3
<1>21. CASE TerminalInterrupted \/ TerminalFailed \/ TerminalDone
  <2>1. NextEvent("task_terminal") /\ TakeTerminal /\ queue' = Tail(queue) /\ Recovered
        /\ Ev.node \in Node
    BY <1>21, PopIs, TerminalTyped
    DEF TerminalInterrupted, TerminalFailed, TerminalDone, TakeTerminal
  <2>2. \E s \in {"interrupted", "failed", "done"} :
           rows' = [rows EXCEPT ![Ev.node] = Row(s, Ev.run, NoNode)]
    BY <1>21 DEF TerminalInterrupted, TerminalFailed, TerminalDone, FailNode
  <2>3. \A m \in Node : rows'[m].state = "running" => rows'[m] = rows[m] /\ m # Ev.node
    BY <1>1, <2>1, <2>2 DEF Row
  <2>. QED  BY <2>1, <2>3, <1>8
<1>22. CASE HandlePatchConfirm
  <2>1. NextEvent("patch_confirm") /\ queue' = Tail(queue) /\ observed' = observed /\ Recovered
    BY <1>22, PopIs DEF HandlePatchConfirm
  <2>2. \A n \in Node : rows'[n] = rows[n] \/ rows'[n].state \in {"none", "planned"}
    BY <1>22, ConfirmIs
  <2>. QED  BY <2>1, <2>2, <1>8
<1>23. CASE HandlePatchRequest \/ RejectOnConfirm \/ HandlePatchReject \/ PatchNotFound
  <2>1. /\ \E kind \in {"patch_request", "patch_confirm", "patch_reject"} : NextEvent(kind)
        /\ queue' = Tail(queue) /\ UNCHANGED <<rows, observed>>
    BY <1>23 DEF HandlePatchRequest, RejectOnConfirm, HandlePatchReject, PatchNotFound, durable
  <2>. QED  BY <2>1, <1>8, PopIs
<1>24. ASSUME NEW n \in Node, ScanImpossible(n) \/ ScanWaiting(n)
       PROVE  Watched'
  <2>1. fr.pc = "scan" /\ up /\ UNCHANGED <<queue, observed>>
    BY <1>24 DEF ScanImpossible, ScanWaiting, Scans, At
  <2>2. rows' = rows \/ rows' = [rows EXCEPT ![n] = Row("cancelled", NoRun, NoNode)]
    BY <1>24 DEF ScanImpossible, ScanWaiting, durable
  <2>3. \A m \in Node : rows'[m].state = "running" => rows'[m] = rows[m]
    BY <1>1, <2>2 DEF Row
  <2>. QED  BY <1>3, <2>1, <2>3, <1>7
<1>25. ASSUME NEW n \in Node, ScanActivate(n)
       PROVE  Watched'
  <2>1. fr.pc = "scan" /\ up /\ UNCHANGED <<queue, observed>>
    BY <1>25 DEF ScanActivate, Scans, At
  <2>2. CASE rows' = [rows EXCEPT ![n] = Row("waiting", NoRun, NoNode)]
    <3>1. \A m \in Node : rows'[m].state = "running" => rows'[m] = rows[m]
      BY <1>1, <2>2 DEF Row
    <3>. QED  BY <1>3, <2>1, <3>1, <1>7
  <2>3. CASE /\ fr' = [Visited(n, TRUE) EXCEPT !.pc = "active", !.cur = n]
             /\ rows' = [rows EXCEPT ![n] = Row("running", NoRun, NoNode)]
    <3>1. fr'.pc = "active" /\ fr'.cur = n
      BY <1>1, <2>3 DEF Visited, Frame
    <3>2. \A m \in Node : m # n => rows'[m] = rows[m]
      BY <1>1, <2>3
    <3>. QED  BY <1>3, <2>1, <3>1, <3>2, <1>7
  <2>. QED  BY <1>25, <2>2, <2>3 DEF ScanActivate
<1>26. CASE CompleteControlNode
  <2>1. fr.pc = "active" /\ up /\ UNCHANGED <<queue, observed>> /\ fr.cur \in Node
    BY <1>1, <1>26 DEF CompleteControlNode, At
  <2>2. \E b : rows' = [rows EXCEPT ![fr.cur] = Row("done", NoRun, b)]
    BY <1>26 DEF CompleteControlNode
  <2>3. \A m \in Node : rows'[m].state = "running" => rows'[m] = rows[m] /\ m # fr.cur
    BY <1>1, <2>1, <2>2 DEF Row
  <2>. QED  BY <1>3, <2>1, <2>3, <1>7
<1>27. CASE DispatchTask
  <2>1. /\ fr.pc = "active" /\ up /\ UNCHANGED <<rows, queue, observed>> /\ fr'.pc = "bind"
        /\ fr'.cur = fr.cur
    BY <1>1, <1>27 DEF DispatchTask, At, Frame, durable
  <2>. QED  BY <1>3, <2>1, <1>7
<1>28. CASE BindTask
  <2>1. /\ fr.pc = "bind" /\ up /\ queue' = queue /\ fr.cur \in Node
        /\ rows' = [rows EXCEPT ![fr.cur] = Row("running", fr.bound, NoNode)]
        /\ observed' = observed \cup {<<fr.bound, fr.cur>>}
    BY <1>1, <1>28 DEF BindTask, At
  <2>2. rows'[fr.cur].run = fr.bound /\ \A m \in Node : m # fr.cur => rows'[m] = rows[m]
    BY <1>1, <2>1 DEF Row
  <2>. QED  BY <1>3, <2>1, <2>2, <1>7
<1>29. CASE DispatchRejected
  <2>1. PICK c \in Node : c = fr.cur
    BY <1>1, <1>29 DEF DispatchRejected, At
  <2>2. /\ fr.pc = "active" /\ up /\ observed' = observed
        /\ rows' = [rows EXCEPT ![c] = Row("running", Rejected, NoNode)]
        /\ queue' = Append(queue, TaskTerminal(c, Rejected, FALSE))
    BY <1>29, <2>1 DEF DispatchRejected, At
  <2>3. rows'[c].run = Rejected /\ \A m \in Node : m # c => rows'[m] = rows[m]
    BY <1>1, <2>2 DEF Row
  <2>4. Heard(c)'
    <3>1. /\ Len(queue) + 1 \in DOMAIN queue'
          /\ queue'[Len(queue) + 1] = TaskTerminal(c, Rejected, FALSE)
      BY <2>2, AppendLast
    <3>2. /\ queue'[Len(queue) + 1].kind = "task_terminal"
          /\ queue'[Len(queue) + 1].run = Rejected /\ queue'[Len(queue) + 1].node = c
      BY <3>1 DEF TaskTerminal
    <3>3. Delivered(Rejected, c)'
      BY <3>1, <3>2 DEF Delivered
    <3>. QED  BY <2>3, <3>3 DEF Heard
  <2>5. ASSUME NEW m \in Node, m # c
        PROVE  Heard(m) => Heard(m)'
    <3>1. PICK r : r = rows[m].run
      OBVIOUS
    <3>2. Delivered(r, m) => Delivered(r, m)'
      BY <2>2, AppendKeeps
    <3>3. rows'[m].run = r
      BY <2>3, <2>5, <3>1
    <3>. QED  BY <2>2, <3>1, <3>2, <3>3 DEF Heard
  <2>6. Recovered
    BY <2>2, Busy
  <2>. QED  BY <1>2, <1>3, <2>1, <2>2, <2>3, <2>4, <2>5, <2>6, WatchedKept
<1>. QED
  BY <1>4, <1>5, <1>6, <1>9, <1>10, <1>11, <1>12, <1>13, <1>14, <1>15, <1>16, <1>17, <1>18,
     <1>19, <1>20, <1>21, <1>22, <1>23, <1>24, <1>25, <1>26, <1>27, <1>28, <1>29,
     Actors, OuterIs
  DEF RunnerStep

(***************************************************************************)
(* The theorems.                                                           *)
(***************************************************************************)
LEMMA EInvInit ==
    ASSUME Init
    PROVE  EInv
<1>1. NInv
  BY NInvInit
<1>2. /\ run.state = "absent" /\ run.cause = NoNode /\ run.cancelRequested = FALSE
      /\ run.policy = "pause" /\ queue = <<>> /\ observed = {} /\ ~up
      /\ \A n \in Node : rows[n].state = "none"
  BY DEF Init, NoRow, Row
<1>3. fr.pc = "idle" /\ fr.recs = {} /\ ~fr.failed /\ fr.ret = "idle"
  BY DEF Init, IdleFrame
<1>4. RecoverFirst /\ ~Recovered
  BY <1>2 DEF RecoverFirst, Recovered
<1>. QED  BY <1>1, <1>2, <1>3, <1>4
     DEF EInv, OneUnbound, Unbound, StateRows, Points, Swept, InFlight, Passed, Watched, InState

LEMMA EInvStep ==
    ASSUME ~ReattachMayThrow, EInv, [Next]_vars
    PROVE  EInv'
<1>1. NInv'
  BY NInvStep DEF EInv
<1>. QED
  BY <1>1, RecoverFirstStep, OneUnboundStep, StateRowsStep, PointsStep, SweptStep,
     InFlightStep, PassedStep, WatchedStep
  DEF EInv

\* With a bridge whose reattach does not throw, the invariant above holds in every
\* state of the runner.
THEOREM EndInvariance ==
    ASSUME ~ReattachMayThrow
    PROVE  Spec => []EInv
<1>1. Init => EInv
  BY EInvInit
<1>2. EInv /\ [Next]_vars => EInv'
  BY EInvStep
<1>. QED  BY <1>1, <1>2, PTL DEF Spec

\* NoStuckGraph: a quiescent runner never holds a graph that nothing can move.
THEOREM NoStuckGraphHolds ==
    ASSUME ~ReattachMayThrow
    PROVE  Spec => []NoStuckGraph
<1>1. EInv => NoStuckGraph
  <2>. SUFFICES ASSUME EInv, Quiescent
                PROVE  /\ Schedulable => InState("running") \cup InState("waiting") # {}
                       /\ run.cancelRequested /\ run.state \notin Terminal =>
                             InState("running") # {}
    BY DEF NoStuckGraph, Schedulable
  <2>1. Recovered /\ fr.pc = "idle"
    BY DEF Quiescent, Recovered, Recovering
  <2>. QED  BY <2>1 DEF EInv, InFlight, Swept
<1>. QED  BY <1>1, EndInvariance, PTL

\* NoLostTerminal: the end of a running node's task run cannot be missed.
THEOREM NoLostTerminalHolds ==
    ASSUME ~ReattachMayThrow
    PROVE  Spec => []NoLostTerminal
<1>1. EInv => NoLostTerminal
  BY DEF EInv, Watched, NoLostTerminal, Recovered, Recovering
<1>. QED  BY <1>1, EndInvariance, PTL

\* TerminalIsFinal: done and cancelled are final, and so is what the nodes did.
THEOREM TerminalIsFinalHolds ==
    ASSUME ~ReattachMayThrow
    PROVE  Spec => TerminalIsFinal
<1> DEFINE Final ==
       run.state \in Terminal =>
          /\ run'.state = run.state /\ run'.cause = run.cause
          /\ \A n \in Node : rows[n].state \in {"running", "done", "failed", "interrupted"}
                  /\ run'.revision = run.revision => rows'[n] = rows[n]
<1>1. ASSUME EInv, [Next]_vars
      PROVE  Final
  <2>. USE DEF EInv, NInv, Inv
  <2>. SUFFICES ASSUME run.state \in Terminal
                PROVE  /\ run'.cause = run.cause
                       /\ \A n \in Node :
                             rows[n].state \in {"running", "done", "failed", "interrupted"}
                             /\ run'.revision = run.revision => rows'[n] = rows[n]
    BY <1>1, EndedStays
  <2>1. run \in RunRow
    BY <1>1 DEF TypeOK
  <2>2. CASE RunMoves
    BY <2>2 DEF RunMoves, RunTo
  <2>3. ASSUME NEW n \in Node, Works(n)
        PROVE  /\ run' = run /\ \A m \in Node \ {n} : rows'[m] = rows[m]
               /\ rows[n].state \in {"planned", "waiting"}
    BY <1>1, <2>3, WorksIs DEF Schedulable, Terminal
  <2>4. ~\E n \in Node : Fails(n)
    BY DEF Fails, Terminal
  <2>5. CASE HandlePatchConfirm
    BY <1>1, <2>1, <2>5, ConfirmIs DEF RunRow
  <2>6. ~Create
    BY DEF Create, Terminal
  <2>. QED  BY <1>1, <2>2, <2>3, <2>4, <2>5, <2>6, StepIs
<1>2. EInv /\ [Next]_vars => [Final]_vars
  BY <1>1
<1>. QED  BY <1>2, EndInvariance, PTL DEF Spec, TerminalIsFinal

(***************************************************************************)
(* Refinement.                                                             *)
(***************************************************************************)

\* The stages the lifecycle sees.
LEMMA StageIs ==
    /\ Stage("none") = "absent" /\ Stage("planned") = "planned"
    /\ Stage("running") = "active" /\ Stage("waiting") = "waiting"
    /\ \A s \in {"done", "failed", "interrupted", "cancelled"} : Stage(s) = "settled"
    /\ \A s : Stage(s) \in {"absent", "planned", "active", "waiting", "settled"}
BY DEF Stage

Stages == [n \in Node |-> Stage(rows[n].state)]

\* One row moves, one stage moves.
LEMMA StageMoves ==
    ASSUME NEW n \in Node, \A m \in Node \ {n} : rows'[m] = rows[m]
    PROVE  /\ Stages' = [Stages EXCEPT ![n] = Stage(rows'[n].state)]
           /\ Stages[n] = Stage(rows[n].state)
           /\ Stage(rows'[n].state) = Stage(rows[n].state) => Stages' = Stages
BY DEF Stages

\* Every step of the runner is a step of the lifecycle, or none.
LEMMA LifecycleStep ==
    ASSUME ~ReattachMayThrow, EInv, [Next]_vars
    PROVE  [Lifecycle!Next]_(Lifecycle!vars)
<1>. USE DEF EInv, NInv, Inv
<1>1. /\ run \in RunRow /\ run.state \in RunState /\ rows \in [Node -> NodeRow]
  BY DEF TypeOK, RunRow
<1>2. ASSUME run'.state = run.state, run'.cause = run.cause, Stages' = Stages
      PROVE  UNCHANGED Lifecycle!vars
  BY <1>2 DEF Lifecycle!vars, Stages
<1>3. CASE RunMoves
  <2>1. UNCHANGED <<run.cause, Stages>>
    BY <1>3 DEF RunMoves, RunTo, Stages
  <2>2. \/ run'.state = run.state
        \/ run.state = "created" /\ run'.state = "running"
        \/ run.state = "running" /\ run'.state = "paused"
        \/ run.state = "paused" /\ run'.state = "running"
        \/ run.state = "running" /\ run'.state = "done"
        \/ /\ run.state \in {"created", "running", "paused"} /\ run'.state = "cancelled"
           /\ InState("running") \cup InState("waiting") = {}
    BY <1>3 DEF RunMoves, RunTo, Schedulable
  <2>3. CASE run'.state = run.state
    BY <1>2, <2>1, <2>3
  <2>4. CASE \/ run.state = "created" /\ run'.state = "running"
             \/ run.state = "running" /\ run'.state = "paused"
             \/ run.state = "paused" /\ run'.state = "running"
             \/ run.state = "running" /\ run'.state = "done"
    <3>1. Lifecycle!Control
      BY <2>1, <2>4 DEF Lifecycle!Control, Lifecycle!Move, Stages
    <3>. QED  BY <3>1 DEF Lifecycle!Next
  <2>5. CASE /\ run.state \in {"created", "running", "paused"} /\ run'.state = "cancelled"
             /\ InState("running") \cup InState("waiting") = {}
    <3>1. \A n \in Node : Stage(rows[n].state) \notin {"active", "waiting"}
      <4>. SUFFICES ASSUME NEW n \in Node
                    PROVE  Stage(rows[n].state) \notin {"active", "waiting"}
        OBVIOUS
      <4>1. rows[n].state \in {"none", "planned", "done", "failed", "interrupted", "cancelled"}
        BY <1>1, <2>5 DEF InState, NodeRow, NodeState
      <4>. QED  BY <4>1, StageIs
    <3>2. Lifecycle!Cancel
      BY <2>1, <2>5, <3>1 DEF Lifecycle!Cancel, Lifecycle!Active, Lifecycle!Live, Stages
    <3>. QED  BY <3>2 DEF Lifecycle!Next
  <2>. QED  BY <2>2, <2>3, <2>4, <2>5
<1>4. ASSUME NEW n \in Node, Works(n)
      PROVE  [Lifecycle!Next]_(Lifecycle!vars)
  <2>1. /\ run' = run
        /\ Stages' = [Stages EXCEPT ![n] = Stage(rows'[n].state)]
        /\ Stages[n] = Stage(rows[n].state)
        /\ Stage(rows'[n].state) = Stage(rows[n].state) => Stages' = Stages
    BY <1>4, WorksIs, StageMoves
  <2>2. CASE Stage(rows'[n].state) = Stage(rows[n].state)
    BY <1>2, <2>1, <2>2
  <2>3. CASE rows[n].state \in {"planned", "waiting"} /\ Stage(rows'[n].state) = "settled"
    <3>1. Lifecycle!Drop(n)
      BY <2>1, <2>3, StageIs DEF Lifecycle!Drop, Stages
    <3>. QED  BY <3>1 DEF Lifecycle!Next
  <2>4. CASE /\ run.state \notin Terminal /\ rows[n].state = "running"
             /\ Stage(rows'[n].state) = "settled"
    <3>1. run.state \in {"created", "running", "paused"}
      BY <1>1, <2>4 DEF Born, RunState, Terminal
    <3>2. Lifecycle!Settle(n)
      BY <2>1, <2>4, <3>1, StageIs DEF Lifecycle!Settle, Lifecycle!Live, Stages
    <3>. QED  BY <3>2 DEF Lifecycle!Next
  <2>5. CASE /\ Schedulable /\ rows[n].state = "planned"
             /\ Stage(rows'[n].state) \in {"active", "waiting"}
    <3>1. Lifecycle!Activate(n)
      BY <2>1, <2>5, StageIs DEF Lifecycle!Activate, Schedulable, Stages
    <3>. QED  BY <3>1 DEF Lifecycle!Next
  <2>6. ASSUME run.state = "created", n \in KindOf(graph, "start")
        PROVE  rows[n].state \in {"planned", "done", "interrupted", "cancelled"}
    BY <1>1, <2>6 DEF Matched, KindOf, StateRows, NodeRow, NodeState
  <2>. QED  BY <1>4, <2>2, <2>3, <2>4, <2>5, <2>6, WorksIs, StageIs
<1>5. ASSUME NEW n \in Node, Fails(n)
      PROVE  [Lifecycle!Next]_(Lifecycle!vars)
  <2>1. /\ rows[n].state \in {"planned", "running"} /\ rows'[n].state = "failed"
        /\ \A m \in Node \ {n} : rows'[m] = rows[m]
    BY <1>5, FailsIs
  <2>2. /\ Stages' = [Stages EXCEPT ![n] = "settled"]
        /\ Stages[n] \in {"planned", "active"}
    BY <2>1, StageMoves, StageIs
  <2>3. Lifecycle!Settle(n)
    BY <1>5, <2>2 DEF Fails, Lifecycle!Settle, Lifecycle!Live, Stages
  <2>. QED  BY <2>3 DEF Lifecycle!Next
<1>6. CASE HandlePatchConfirm
  <2>1. /\ run'.state = run.state /\ run'.cause = run.cause
    BY <1>1, <1>6, ConfirmIs DEF RunRow
  <2>2. run.state # "absent"
    BY <1>6, UpHasRun DEF HandlePatchConfirm, NextEvent
  <2>3. ASSUME NEW n \in Node
        PROVE  \/ Stage(rows'[n].state) = Stage(rows[n].state)
               \/ /\ Stage(rows[n].state) \in {"absent", "planned", "settled"}
                  /\ Stage(rows'[n].state) \in {"absent", "planned"}
    <3>1. \/ rows'[n] = rows[n]
          \/ /\ rows[n].state \in {"none", "planned", "failed"}
             /\ rows'[n].state \in {"none", "planned"}
      BY <1>6, ConfirmIs
    <3>. QED  BY <3>1, StageIs
  <2>4. Stages' \in [Node -> {"absent", "planned", "active", "waiting", "settled"}]
    BY StageIs DEF Stages
  <2>5. Lifecycle!Revise
    BY <2>1, <2>2, <2>3, <2>4 DEF Lifecycle!Revise, Lifecycle!Active, Stages
  <2>. QED  BY <2>5 DEF Lifecycle!Next
<1>7. CASE Create
  <2>1. /\ run.state = "absent" /\ run'.state = "created" /\ run'.cause = NoNode
    BY <1>7 DEF Create
  <2>2. run.cause = NoNode
    BY <2>1 DEF StateRows
  <2>3. \A n \in Node : Stage(rows'[n].state) \in {"absent", "planned"}
    BY <1>7, CreatedIs, StageIs
  <2>4. Lifecycle!Create
    BY <2>1, <2>2, <2>3 DEF Lifecycle!Create
  <2>. QED  BY <2>4 DEF Lifecycle!Next
<1>. QED  BY <1>3, <1>4, <1>5, <1>6, <1>7, StepIs

\* ImplementsLifecycle: the runner, its queue, its separate writes and its crashes
\* included, implements the lifecycle of TaskGraphLifecycle.
THEOREM LifecycleImplemented ==
    ASSUME ~ReattachMayThrow
    PROVE  Spec => ImplementsLifecycle
<1>1. Init => Lifecycle!Init
  <2>. SUFFICES ASSUME Init PROVE Lifecycle!Init
    OBVIOUS
  <2>1. \A n \in Node : Stage(rows[n].state) = "absent"
    BY StageIs DEF Init, NoRow, Row
  <2>2. run.state = "absent" /\ run.cause = NoNode
    BY DEF Init
  <2>. QED  BY <2>1, <2>2 DEF Lifecycle!Init
<1>2. EInv /\ [Next]_vars => [Lifecycle!Next]_(Lifecycle!vars)
  BY LifecycleStep
<1>. QED  BY <1>1, <1>2, EndInvariance, PTL DEF Spec, ImplementsLifecycle, Lifecycle!Spec
===============================================================================
