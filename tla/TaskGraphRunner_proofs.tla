------------------------ MODULE TaskGraphRunner_proofs ------------------------
(***************************************************************************)
(* Proofs about TaskGraphRunner, for every set of node ids, every set of   *)
(* initial graphs and patches and every bound.                             *)
(***************************************************************************)
EXTENDS TaskGraphRunner, TLAPS

(***************************************************************************)
(* What the operators return.                                              *)
(***************************************************************************)

\* 0 is no node id.
LEMMA NoNodeNotNode == NoNode \notin Node
BY NodeAssumption DEF NoNode

\* Taking the first event of a queue leaves a queue.
LEMMA TakeTyped ==
    ASSUME NEW S, NEW q \in Seq(S), q # <<>>
    PROVE  Tail(q) \in Seq(S) /\ Head(q) \in S
OBVIOUS

\* An element of a sequence has the type of the elements.
LEMMA EltTyped ==
    ASSUME NEW S, NEW q \in Seq(S), NEW i \in DOMAIN q
    PROVE  q[i] \in S
OBVIOUS

\* A sequence keeps its type when one element is replaced.
LEMMA PutTyped ==
    ASSUME NEW S, NEW q \in Seq(S), NEW i \in DOMAIN q, NEW v \in S
    PROVE  [q EXCEPT ![i] = v] \in Seq(S)
OBVIOUS

\* ... or one is added at the end.
LEMMA AddTyped ==
    ASSUME NEW S, NEW q \in Seq(S), NEW v \in S
    PROVE  Append(q, v) \in Seq(S)
OBVIOUS

\* The event a new runner queues for itself.
LEMMA RecoverTyped == Recover \in Event /\ <<Recover>> \in Seq(Event)
<1>1. Recover \in Event
  BY DEF Recover, Event
<1>. QED  BY <1>1

\* putNodeState writes a row.
LEMMA RowTyped ==
    ASSUME NEW s \in NodeState, NEW r \in Int, NEW b \in Node \cup {NoNode}
    PROVE  Row(s, r, b) \in NodeRow
BY DEF Row, NodeRow

\* Writing one row keeps the table.
LEMMA PutRowTyped ==
    ASSUME rows \in [Node -> NodeRow], NEW n \in Node, NEW s \in NodeState,
           NEW r \in Int, NEW b \in Node \cup {NoNode}
    PROVE  [rows EXCEPT ![n] = Row(s, r, b)] \in [Node -> NodeRow]
BY RowTyped

\* The NULL task run id is a task run id.
LEMMA NoRunInt == NoRun \in Int
BY DEF NoRun

\* The runner between two events.
LEMMA IdleFrameTyped == IdleFrame \in Frame /\ FrameOK(IdleFrame)
BY DEF FrameOK, IdleFrame, Frame, PC, NoNode, NoRun

\* A handler jumps to a control point with fresh locals.
LEMMA GotoTyped ==
    ASSUME NEW pc \in PC \ {"active", "bind"}
    PROVE  FrameOK(Goto(pc))
BY DEF FrameOK, Goto, IdleFrame, Frame, PC, NoNode, NoRun

\* A loop starts over a set of nodes.
LEMMA LoopTyped ==
    ASSUME NEW S \in SUBSET Node
    PROVE  /\ FrameOK([Goto("scan") EXCEPT !.todo = S])
           /\ FrameOK([Goto("recover") EXCEPT !.recs = S])
BY DEF FrameOK, Goto, IdleFrame, Frame, PC, NoNode, NoRun

\* failNode and beginCancellation return to their caller.
LEMMA ReturnTyped ==
    ASSUME NEW f \in Frame
    PROVE  FrameOK(Return(f))
BY DEF FrameOK, Return, Frame, PC, NoNode

\* The post-image of a patch is a graph.
LEMMA PostImageTyped ==
    ASSUME NEW g \in [Node -> NodeDef], NEW ops \in Patches
    PROVE  PostImage(g, ops) \in [Node -> NodeDef]
BY PatchAssumption DEF PostImage, NodeDef, AbsentDef, Kind, PatchOp

\* finishCancelled, finishDone and convergeCancellation return a run row.
LEMMA FinishTyped ==
    ASSUME NEW r \in RunRow
    PROVE  /\ FinishCancelled(r) \in RunRow
           /\ FinishDone(r) \in RunRow
           /\ \A t : Converged(r, t) \in RunRow
BY DEF FinishCancelled, FinishDone, Converged, RunRow, RunState

\* failNode, called for any node by any handler, keeps the types.
LEMMA FailNodeTyped ==
    ASSUME TypeOK, NEW n \in Node, NEW r \in Int, NEW f \in Frame,
           FailNode(n, r, f)
    PROVE  /\ rows' \in [Node -> NodeRow] /\ failedLog' \in Seq(Node)
           /\ run' \in RunRow /\ FrameOK(fr')
<1>1. rows' \in [Node -> NodeRow]
  BY PutRowTyped DEF TypeOK, FailNode, NodeState
<1>2. \A pc \in PC \ {"active", "bind"} : FrameOK([f EXCEPT !.pc = pc])
  BY DEF FrameOK, Frame
<1>3. FrameOK(fr')
  BY <1>2, ReturnTyped DEF FailNode, PC
<1>4. run' \in RunRow
  BY DEF TypeOK, FailNode, RunRow
<1>5. failedLog' \in Seq(Node)
  BY DEF TypeOK, FailNode
<1>. QED  BY <1>1, <1>3, <1>4, <1>5


\* The head of the queue is an event of the kind asked for.
LEMMA EventTyped ==
    ASSUME TypeOK, NEW kind, NextEvent(kind)
    PROVE  /\ Tail(queue) \in Seq(Event) /\ Ev \in Event /\ Ev.kind = kind
BY TakeTyped DEF TypeOK, NextEvent, Ev

\* A terminal event names a node and a task run (handleTaskTerminal).
LEMMA TerminalTyped ==
    ASSUME TypeOK, NextEvent("task_terminal")
    PROVE  Ev.node \in Node /\ Ev.run \in Int
<1>1. Ev \in Event /\ Ev.kind = "task_terminal"
  BY EventTyped
<1>. QED  BY <1>1 DEF Event, GraphSignals

\* consumePatch keeps the stored patches.
LEMMA ConsumeTyped ==
    ASSUME TypeOK, NEW p, Pending(p), NEW s \in {"applied", "rejected"}
    PROVE  Consume(p, s) \in Seq(Patch)
<1>1. patches[p] \in Patch
  BY EltTyped DEF TypeOK, Pending
<1>2. [patches[p] EXCEPT !.status = s] \in Patch
  BY <1>1 DEF Patch
<1>. QED  BY <1>2, PutTyped DEF TypeOK, Pending, Consume

\* A task run changes status.
LEMMA EndTaskTyped ==
    ASSUME TypeOK, NEW r \in DOMAIN tasks, NEW s \in {"live", "done", "failed"}
    PROVE  [tasks EXCEPT ![r].status = s] \in Seq(TaskRun)
<1>1. tasks[r] \in TaskRun
  BY EltTyped DEF TypeOK
<1>2. [tasks[r] EXCEPT !.status = s] \in TaskRun
  BY <1>1 DEF TaskRun
<1>. QED  BY <1>2, PutTyped DEF TypeOK

\* A patch request carries one of the patches and a base revision.
LEMMA RequestTyped ==
    ASSUME TypeOK, NextEvent("patch_request")
    PROVE  Ev.ops \in Patches /\ Ev.base \in Nat
<1>1. Ev \in Event /\ Ev.kind = "patch_request"
  BY EventTyped
<1>. QED  BY <1>1 DEF Event, GraphSignals

\* A checkpoint signal names a node.
LEMMA CheckpointTyped ==
    ASSUME TypeOK, NextEvent("resume_checkpoint")
    PROVE  Ev.node \in Node
<1>1. Ev \in Event /\ Ev.kind = "resume_checkpoint"
  BY EventTyped
<1>. QED  BY <1>1 DEF Event, GraphSignals


(***************************************************************************)
(* The inductive invariant.  repairCancelPolicyFailure writes a cause only *)
(* when there is none, so that what it writes is a node id, and that a     *)
(* cause once recorded is the first failure, both rest on this: a failed   *)
(* row has left a journal row, and under the cancel policy the cause is    *)
(* the first of them.                                                      *)
(***************************************************************************)
FailuresLogged == InState("failed") # {} => failedLog # <<>>

\* Before create there is no runner, so nothing can have failed.
Fresh == run.state = "absent" => failedLog = <<>> /\ ~up /\ phase = "serving"

CauseInv == FirstCause /\ FailuresLogged /\ Fresh

Inv == TypeOK /\ CauseInv


\* Every step of the runner, the bridge, the clients and the process keeps the
\* types; recovery needs the cause invariant to write a node id as cause.
LEMMA TypeStep ==
    ASSUME Inv, [Next]_vars
    PROVE  TypeOK'
<1>. USE DEF Inv, CauseInv
<1>1. CASE HandleRecover
  <2>1. queue' \in Seq(Event)
    BY <1>1, EventTyped DEF HandleRecover
  <2>2. run.policy = "cancel" /\ InState("failed") # {} => run.cause # NoNode
    BY NoNodeNotNode, EltTyped DEF TypeOK, FirstCause, FailuresLogged
  <2>3. run' \in RunRow
    BY <1>1, <2>2 DEF TypeOK, HandleRecover, RepairCancelPolicyFailure, RunRow
  <2>4. FrameOK(fr')
    BY <1>1, LoopTyped DEF HandleRecover, InState
  <2>. QED
    BY <1>1, <2>1, <2>3, <2>4 DEF TypeOK, HandleRecover, process
<1>2. CASE RecoverDone
  <2>1. FrameOK(fr')
    BY <1>2, IdleFrameTyped, GotoTyped DEF TypeOK, RecoverDone, PC
  <2>. QED
    BY <1>2, <2>1
    DEF TypeOK, RecoverDone, durable, process
<1>3. CASE PauseRun
  <2>1. run' \in RunRow
    BY <1>3 DEF TypeOK, PauseRun, RunRow, RunState
  <2>2. FrameOK(fr')
    BY <1>3, ReturnTyped DEF TypeOK, PauseRun, FrameOK
  <2>. QED
    BY <1>3, <2>1, <2>2
    DEF TypeOK, PauseRun, durable, process
<1>4. CASE BeginCancellation
  <2>1. run' \in RunRow
    BY <1>4 DEF TypeOK, BeginCancellation, RunRow
  <2>2. FrameOK(fr')
    BY <1>4 DEF TypeOK, BeginCancellation, FrameOK, Frame, PC, InState, At
  <2>. QED
    BY <1>4, <2>1, <2>2
    DEF TypeOK, BeginCancellation, durable, process
<1>5. CASE ConvergeCancellation
  <2>1. run' \in RunRow
    BY <1>5, FinishTyped DEF TypeOK, ConvergeCancellation
  <2>2. FrameOK(fr')
    BY <1>5, ReturnTyped DEF TypeOK, ConvergeCancellation, FrameOK
  <2>. QED
    BY <1>5, <2>1, <2>2
    DEF TypeOK, ConvergeCancellation, durable, process
<1>6. CASE HandleStart
  <2>1. queue' \in Seq(Event)
    BY <1>6, EventTyped DEF HandleStart, HandleSignal
  <2>2. rows' \in [Node -> NodeRow]
    BY <1>6, PutRowTyped DEF TypeOK, HandleStart, NodeState, NoRun, KindOf
  <2>3. FrameOK(fr')
    BY <1>6, GotoTyped DEF TypeOK, HandleStart, PC
  <2>. QED
    BY <1>6, <2>1, <2>2, <2>3
    DEF TypeOK, HandleStart, durable, process
<1>7. CASE StartRun
  <2>1. run' \in RunRow
    BY <1>7 DEF TypeOK, StartRun, RunRow, RunState
  <2>2. FrameOK(fr')
    BY <1>7, GotoTyped DEF TypeOK, StartRun, PC
  <2>. QED
    BY <1>7, <2>1, <2>2
    DEF TypeOK, StartRun, durable, process
<1>8. CASE HandlePause
  <2>1. queue' \in Seq(Event)
    BY <1>8, EventTyped DEF HandlePause, HandleSignal
  <2>2. run' \in RunRow
    BY <1>8 DEF TypeOK, HandlePause, RunRow, RunState
  <2>. QED
    BY <1>8, <2>1, <2>2
    DEF TypeOK, HandlePause, durable, process
<1>9. CASE HandleResume
  <2>1. queue' \in Seq(Event)
    BY <1>9, EventTyped DEF HandleResume, HandleSignal
  <2>2. run' \in RunRow
    BY <1>9 DEF TypeOK, HandleResume, RunRow, RunState
  <2>3. FrameOK(fr')
    BY <1>9, GotoTyped DEF TypeOK, HandleResume, PC
  <2>. QED
    BY <1>9, <2>1, <2>2, <2>3
    DEF TypeOK, HandleResume, durable, process
<1>10. CASE HandleCancel
  <2>1. queue' \in Seq(Event)
    BY <1>10, EventTyped DEF HandleCancel, HandleSignal
  <2>2. FrameOK(fr')
    BY <1>10, GotoTyped DEF TypeOK, HandleCancel, PC
  <2>. QED
    BY <1>10, <2>1, <2>2
    DEF TypeOK, HandleCancel, durable, process
<1>11. CASE HandleResumeCheckpoint
  <2>1. queue' \in Seq(Event) /\ Ev.node \in Node
    BY <1>11, EventTyped, CheckpointTyped DEF HandleResumeCheckpoint, HandleSignal
  <2>2. rows' \in [Node -> NodeRow]
    BY <1>11, <2>1, PutRowTyped
    DEF TypeOK, HandleResumeCheckpoint, Ev, NodeState, NoRun
  <2>3. FrameOK(fr')
    BY <1>11, GotoTyped, IdleFrameTyped DEF HandleResumeCheckpoint, PC
  <2>. QED
    BY <1>11, <2>1, <2>2, <2>3 DEF TypeOK, HandleResumeCheckpoint, process
<1>12. CASE HandleIgnored
  <2>1. queue' \in Seq(Event)
    BY <1>12, EventTyped DEF HandleIgnored, HandleSignal
  <2>. QED
    BY <1>12, <2>1
    DEF TypeOK, HandleIgnored, durable, process
<1>13. CASE TerminalStale
  <2>1. queue' \in Seq(Event)
    BY <1>13, EventTyped DEF TerminalStale, TakeTerminal
  <2>2. observed' \subseteq Int \X Node
    BY <1>13 DEF TypeOK, TerminalStale, TakeTerminal
  <2>. QED
    BY <1>13, <2>1, <2>2
    DEF TypeOK, TerminalStale, durable, process
<1>14. CASE TerminalInterrupted
  <2>1. Ev.node \in Node /\ Ev.run \in Int
    BY <1>14, TerminalTyped DEF TerminalInterrupted, TakeTerminal
  <2>2. rows' \in [Node -> NodeRow]
    BY <1>14, <2>1, PutRowTyped DEF TypeOK, TerminalInterrupted, NodeState
  <2>3. queue' \in Seq(Event)
    BY <1>14, EventTyped DEF TerminalInterrupted, TakeTerminal
  <2>4. observed' \subseteq Int \X Node
    BY <1>14, <2>1 DEF TypeOK, TerminalInterrupted, TakeTerminal
  <2>5. FrameOK(fr')
    BY <1>14, <2>1, GotoTyped DEF TypeOK, TerminalInterrupted, PC
  <2>. QED
    BY <1>14, <2>1, <2>2, <2>3, <2>4, <2>5
    DEF TypeOK, TerminalInterrupted, durable, process
<1>15. CASE TerminalFailed
  <2>1. Ev.node \in Node /\ Ev.run \in Int
    BY <1>15, TerminalTyped DEF TerminalFailed, TakeTerminal
  <2>2. /\ rows' \in [Node -> NodeRow] /\ failedLog' \in Seq(Node)
         /\ run' \in RunRow /\ FrameOK(fr')
    BY <1>15, <2>1, FailNodeTyped, IdleFrameTyped, NoRunInt DEF TerminalFailed
  <2>3. queue' \in Seq(Event)
    BY <1>15, EventTyped DEF TerminalFailed, TakeTerminal
  <2>4. observed' \subseteq Int \X Node
    BY <1>15, <2>1 DEF TypeOK, TerminalFailed, TakeTerminal
  <2>. QED
    BY <1>15, <2>1, <2>2, <2>3, <2>4
    DEF TypeOK, TerminalFailed, durable, process
<1>16. CASE TerminalDone
  <2>1. Ev.node \in Node /\ Ev.run \in Int
    BY <1>16, TerminalTyped DEF TerminalDone, TakeTerminal
  <2>2. rows' \in [Node -> NodeRow]
    BY <1>16, <2>1, PutRowTyped DEF TypeOK, TerminalDone, NodeState
  <2>3. queue' \in Seq(Event)
    BY <1>16, EventTyped DEF TerminalDone, TakeTerminal
  <2>4. observed' \subseteq Int \X Node
    BY <1>16, <2>1 DEF TypeOK, TerminalDone, TakeTerminal
  <2>5. FrameOK(fr')
    BY <1>16, <2>1, GotoTyped, IdleFrameTyped DEF TypeOK, TerminalDone, PC
  <2>. QED
    BY <1>16, <2>1, <2>2, <2>3, <2>4, <2>5
    DEF TypeOK, TerminalDone, durable, process
<1>17. CASE Tick
  <2>1. run' \in RunRow
    BY <1>17, FinishTyped DEF TypeOK, Tick
  <2>2. FrameOK(fr')
    BY <1>17, IdleFrameTyped, LoopTyped DEF Tick, InState
  <2>. QED
    BY <1>17, <2>1, <2>2 DEF TypeOK, Tick, process
<1>18. CASE ScanEnd
  <2>1. run' \in RunRow
    BY <1>18, FinishTyped DEF TypeOK, ScanEnd
  <2>2. FrameOK(fr')
    BY <1>18, IdleFrameTyped, GotoTyped DEF TypeOK, ScanEnd, PC
  <2>. QED
    BY <1>18, <2>1, <2>2
    DEF TypeOK, ScanEnd, durable, process
<1>19. CASE CompleteControlNode
  <2>1. rows' \in [Node -> NodeRow]
    BY <1>19, PutRowTyped DEF TypeOK, CompleteControlNode, FrameOK, Frame, PC, NodeState, NoRun, At, NodeDef
  <2>2. FrameOK(fr')
    BY <1>19 DEF TypeOK, CompleteControlNode, FrameOK, Frame, PC, Scans, Visited, Scanning, At, NoNode, NoRun
  <2>. QED
    BY <1>19, <2>1, <2>2
    DEF TypeOK, CompleteControlNode, durable, process
<1>20. CASE FailActive
  <2>1. [fr EXCEPT !.ret = "scan"] \in Frame /\ fr.cur \in Node
    BY <1>20 DEF TypeOK, FailActive, At, FrameOK, Frame
  <2>2. /\ rows' \in [Node -> NodeRow] /\ failedLog' \in Seq(Node)
         /\ run' \in RunRow /\ FrameOK(fr')
    BY <1>20, <2>1, FailNodeTyped, NoRunInt DEF FailActive
  <2>. QED
    BY <1>20, <2>1, <2>2
    DEF TypeOK, FailActive, durable, process
<1>21. CASE DispatchTask
  <2>1. fr.cur \in Node /\ Len(tasks) + 1 \in Nat
    BY <1>21 DEF TypeOK, DispatchTask, At, FrameOK
  <2>2. tasks' \in Seq(TaskRun)
    BY <1>21, <2>1, AddTyped DEF TypeOK, DispatchTask, TaskRun, RunRow
  <2>3. FrameOK(fr')
    BY <1>21, <2>1 DEF TypeOK, DispatchTask, FrameOK, Frame, PC
  <2>. QED
    BY <1>21, <2>2, <2>3 DEF TypeOK, DispatchTask, durable, process
<1>22. CASE BindTask
  <2>1. rows' \in [Node -> NodeRow]
    BY <1>22, PutRowTyped DEF TypeOK, BindTask, NodeState, At, FrameOK, Frame, PC
  <2>2. observed' \subseteq Int \X Node
    BY <1>22 DEF TypeOK, BindTask, At, FrameOK, Frame, PC
  <2>3. FrameOK(fr')
    BY <1>22 DEF TypeOK, BindTask, FrameOK, Frame, PC, Scans, Visited, Scanning, At, NoNode, NoRun
  <2>. QED
    BY <1>22, <2>1, <2>2, <2>3
    DEF TypeOK, BindTask, durable, process
<1>23. CASE DispatchRejected
  <2>1. rows' \in [Node -> NodeRow]
    BY <1>23, PutRowTyped DEF TypeOK, DispatchRejected, NodeState, Rejected, At, FrameOK, Frame, PC
  <2>2. queue' \in Seq(Event)
    BY <1>23 DEF TypeOK, DispatchRejected, Event, TaskTerminal, Rejected, At, FrameOK, Frame, PC
  <2>3. FrameOK(fr')
    BY <1>23 DEF TypeOK, DispatchRejected, FrameOK, Frame, PC, Scans, Visited, Scanning, At, NoNode, NoRun
  <2>. QED
    BY <1>23, <2>1, <2>2, <2>3
    DEF TypeOK, DispatchRejected, durable, process
<1>24. CASE HandlePatchRequest
  <2>1. queue' \in Seq(Event) /\ Ev.ops \in Patches /\ Ev.base \in Nat
    BY <1>24, EventTyped, RequestTyped DEF HandlePatchRequest
  <2>2. PostImage(graph, Ev.ops) \in [Node -> NodeDef]
    BY <2>1, PostImageTyped DEF TypeOK
  <2>3. [base |-> Ev.base, ops |-> Ev.ops, post |-> PostImage(graph, Ev.ops),
         status |-> "pending"] \in Patch
    BY <2>1, <2>2 DEF Patch
  <2>4. patches' \in Seq(Patch)
    BY <1>24, <2>3, AddTyped DEF TypeOK, HandlePatchRequest
  <2>. QED
    BY <1>24, <2>1, <2>4 DEF TypeOK, HandlePatchRequest, process
<1>25. CASE HandlePatchConfirm
  <2>1. queue' \in Seq(Event)
    BY <1>25, EventTyped DEF HandlePatchConfirm
  <2>2. Pending(Ev.patch) /\ run' = [run EXCEPT !.revision = @ + 1]
    BY <1>25 DEF HandlePatchConfirm
  <2>3. graph' \in [Node -> NodeDef]
    <3>1. patches[Ev.patch] \in Patch
      BY <2>2, EltTyped DEF TypeOK, Pending
    <3>2. patches[Ev.patch].ops \in Patches
      BY <3>1 DEF Patch
    <3>. QED
      BY <1>25, <3>2, PostImageTyped DEF TypeOK, HandlePatchConfirm
  <2>4. NoRow \in NodeRow /\ Row("planned", NoRun, NoNode) \in NodeRow
    BY RowTyped DEF NoRow, NoRun, NodeState
  <2>5. rows' \in [Node -> NodeRow]
    BY <1>25, <2>4 DEF TypeOK, HandlePatchConfirm
  <2>6. run' \in RunRow
    <3>1. run \in RunRow /\ run.revision + 1 \in Nat
      BY DEF TypeOK, RunRow
    <3>. QED  BY <2>2, <3>1 DEF RunRow
  <2>7. patches' \in Seq(Patch)
    BY <1>25, ConsumeTyped DEF HandlePatchConfirm
  <2>. QED
    BY <1>25, <2>1, <2>3, <2>5, <2>6, <2>7 DEF TypeOK, HandlePatchConfirm, process
<1>26. CASE RejectOnConfirm
  <2>1. queue' \in Seq(Event)
    BY <1>26, EventTyped DEF RejectOnConfirm
  <2>2. patches' \in Seq(Patch)
    BY <1>26, ConsumeTyped DEF RejectOnConfirm
  <2>. QED
    BY <1>26, <2>1, <2>2 DEF TypeOK, RejectOnConfirm, process
<1>27. CASE HandlePatchReject
  <2>1. queue' \in Seq(Event)
    BY <1>27, EventTyped DEF HandlePatchReject
  <2>2. patches' \in Seq(Patch)
    BY <1>27, ConsumeTyped DEF HandlePatchReject
  <2>. QED
    BY <1>27, <2>1, <2>2 DEF TypeOK, HandlePatchReject, process
<1>28. CASE PatchNotFound
  <2>1. queue' \in Seq(Event)
    BY <1>28, EventTyped DEF PatchNotFound
  <2>. QED
    BY <1>28, <2>1
    DEF TypeOK, PatchNotFound, durable, process
<1>29. CASE Create
  <2>1. run' \in RunRow
    BY <1>29 DEF TypeOK, Create, RunRow, RunState
  <2>2. graph' \in [Node -> NodeDef]
    BY <1>29, GraphAssumption DEF TypeOK, Create
  <2>3. rows' \in [Node -> NodeRow]
    BY <1>29, RowTyped DEF TypeOK, Create, NodeState, NoRun, NoRow
  <2>. QED
    BY <1>29, <2>1, <2>2, <2>3
    DEF TypeOK, Create, durable, process
<1>30. CASE Read
  <2>1. queue' \in Seq(Event)
    BY <1>30, RecoverTyped DEF TypeOK, Read, QueueWithRunner
  <2>. QED
    BY <1>30, <2>1 DEF TypeOK, Read, durable
<1>31. CASE Crash
  <2>1. /\ FrameOK(fr') /\ queue' \in Seq(Event)
        /\ observed' \subseteq Int \X Node
    BY <1>31, IdleFrameTyped DEF Crash
  <2>2. crashes' \in Nat
    <3>1. crashes \in Nat
      BY DEF TypeOK
    <3>. QED  BY <1>31, <3>1 DEF Crash
  <2>. QED
    BY <1>31, <2>1, <2>2 DEF TypeOK, Crash, durable
<1>32. CASE Boot
  <2>1. queue' \in Seq(Event)
    BY <1>32, RecoverTyped DEF Boot
  <2>2. up' \in BOOLEAN
    BY <1>32 DEF Boot, Actionable, TypeOK, RunRow
  <2>. QED
    BY <1>32, <2>1, <2>2 DEF TypeOK, Boot, durable
<1>33. CASE Serve
  BY <1>33 DEF TypeOK, Serve, durable, process
<1>34. ASSUME NEW n \in Node, RecoverReattach(n)
      PROVE  TypeOK'
  <2>1. observed' \subseteq Int \X Node
    BY <1>34 DEF TypeOK, RecoverReattach, NodeRow
  <2>2. FrameOK(fr')
    BY <1>34 DEF TypeOK, RecoverReattach, FrameOK, Frame, PC, At
  <2>. QED
    BY <1>34, <2>1, <2>2
    DEF TypeOK, RecoverReattach, durable, process
<1>35. ASSUME NEW n \in Node, RecoverFail(n)
      PROVE  TypeOK'
  <2>1. [fr EXCEPT !.recs = @ \ {n}, !.failed = TRUE, !.ret = "recover"]
             \in Frame
    BY <1>35 DEF TypeOK, FrameOK, Frame
  <2>2. /\ rows' \in [Node -> NodeRow] /\ failedLog' \in Seq(Node)
         /\ run' \in RunRow /\ FrameOK(fr')
    BY <1>35, <2>1, FailNodeTyped DEF TypeOK, RecoverFail, NodeRow
  <2>. QED
    BY <1>35, <2>1, <2>2
    DEF TypeOK, RecoverFail, durable, process
<1>36. ASSUME NEW n \in Node, CancelNode(n)
      PROVE  TypeOK'
  <2>1. rows[n].run \in Int
    BY DEF TypeOK, NodeRow
  <2>2. rows' \in [Node -> NodeRow]
    <3>1. /\ [rows EXCEPT ![n] = Row("cancelled", NoRun, NoNode)] \in [Node -> NodeRow]
          /\ [rows EXCEPT ![n] = Row("interrupted", NoRun, NoNode)] \in [Node -> NodeRow]
      BY PutRowTyped DEF TypeOK, NodeState, NoRun
    <3>. QED  BY <1>36, <3>1 DEF TypeOK, CancelNode
  <2>3. FrameOK(fr')
    <3>1. /\ FrameOK([fr EXCEPT !.todo = @ \ {n}])
          /\ FrameOK([fr EXCEPT !.todo = @ \ {n},
                               !.pending = @ \cup {rows[n].run}])
      BY <2>1 DEF TypeOK, FrameOK, Frame
    <3>. QED  BY <1>36, <3>1 DEF CancelNode
  <2>. QED
    BY <1>36, <2>2, <2>3 DEF TypeOK, CancelNode, process
<1>37. ASSUME NEW n \in Node, ScanImpossible(n)
      PROVE  TypeOK'
  <2>1. rows' \in [Node -> NodeRow]
    BY <1>37, PutRowTyped DEF TypeOK, ScanImpossible, NodeState, NoRun
  <2>2. FrameOK(fr')
    BY <1>37 DEF TypeOK, ScanImpossible, FrameOK, Frame, PC, Scans, Visited, Scanning, At, NoNode, NoRun
  <2>. QED
    BY <1>37, <2>1, <2>2
    DEF TypeOK, ScanImpossible, durable, process
<1>38. ASSUME NEW n \in Node, ScanWaiting(n)
      PROVE  TypeOK'
  <2>1. FrameOK(fr')
    BY <1>38 DEF TypeOK, ScanWaiting, FrameOK, Frame, PC, Scans, Visited, Scanning, At, NoNode, NoRun
  <2>. QED
    BY <1>38, <2>1
    DEF TypeOK, ScanWaiting, durable, process
<1>39. ASSUME NEW n \in Node, ScanActivate(n)
      PROVE  TypeOK'
  <2>1. rows' \in [Node -> NodeRow]
    <3>1. /\ [rows EXCEPT ![n] = Row("waiting", NoRun, NoNode)] \in [Node -> NodeRow]
          /\ [rows EXCEPT ![n] = Row("running", NoRun, NoNode)] \in [Node -> NodeRow]
      BY PutRowTyped DEF TypeOK, NodeState, NoRun
    <3>. QED  BY <1>39, <3>1 DEF ScanActivate
  <2>2. FrameOK(fr')
    <3>1. /\ FrameOK(Visited(n, TRUE))
          /\ FrameOK([Visited(n, TRUE) EXCEPT !.pc = "active", !.cur = n])
      BY <1>39 DEF TypeOK, ScanActivate, Scans, At, Visited, FrameOK, Frame, PC
    <3>. QED  BY <1>39, <3>1 DEF ScanActivate
  <2>. QED
    BY <1>39, <2>1, <2>2 DEF TypeOK, ScanActivate, process
<1>40. ASSUME NEW n \in Node, ScanFail(n)
      PROVE  TypeOK'
  <2>1. [Visited(n, TRUE) EXCEPT !.ret = "scan"] \in Frame
    BY <1>40 DEF TypeOK, Visited, FrameOK, Frame
  <2>2. /\ rows' \in [Node -> NodeRow] /\ failedLog' \in Seq(Node)
         /\ run' \in RunRow /\ FrameOK(fr')
    BY <1>40, <2>1, FailNodeTyped, NoRunInt DEF ScanFail
  <2>. QED
    BY <1>40, <2>1, <2>2
    DEF TypeOK, ScanFail, durable, process
<1>41. ASSUME NEW r \in fr.pending, SettleCancel(r)
      PROVE  TypeOK'
  <2>1. tasks' \in Seq(TaskRun)
    BY <1>41, EndTaskTyped DEF TypeOK, SettleCancel
  <2>2. FrameOK(fr')
    BY <1>41 DEF TypeOK, SettleCancel, FrameOK, Frame
  <2>. QED
    BY <1>41, <2>1, <2>2 DEF TypeOK, SettleCancel, durable, process
<1>42. ASSUME NEW r \in DOMAIN tasks, TaskFinish(r)
      PROVE  TypeOK'
  <2>1. \A s \in {"live", "done", "failed"} :
           [tasks EXCEPT ![r].status = s] \in Seq(TaskRun)
    BY EndTaskTyped
  <2>2. tasks' \in Seq(TaskRun)
    BY <1>42, <2>1 DEF TaskFinish
  <2>. QED
    BY <1>42, <2>2 DEF TypeOK, TaskFinish, durable, process
<1>43. ASSUME NEW e \in ClientEvent, Send(e)
      PROVE  TypeOK'
  <2>1. e \in Event
    BY <1>43 DEF TypeOK, ClientEvent, Event, RunRow
  <2>2. queue' \in Seq(Event)
    BY <1>43, <2>1, RecoverTyped, AddTyped DEF TypeOK, Send, QueueWithRunner
  <2>. QED
    BY <1>43, <2>2 DEF TypeOK, Send, durable
<1>44. ASSUME NEW o \in observed, Deliver(o[1], o[2])
      PROVE  TypeOK'
  <2>1. o[1] \in Int /\ o[2] \in Node
    BY DEF TypeOK
  <2>2. queue' \in Seq(Event)
    BY <1>44, <2>1 DEF TypeOK, Deliver, TaskTerminal, Event
  <2>. QED
    BY <1>44, <2>2 DEF TypeOK, Deliver, durable, process
<1>45. CASE UNCHANGED vars
  BY <1>45 DEF TypeOK, vars, durable, process
<1>. QED
  BY <1>1, <1>2, <1>3, <1>4, <1>5, <1>6, <1>7, <1>8, <1>9, <1>10, <1>11, <1>12, <1>13, <1>14, <1>15, <1>16, <1>17, <1>18, <1>19, <1>20, <1>21, <1>22, <1>23, <1>24, <1>25, <1>26, <1>27, <1>28, <1>29, <1>30, <1>31, <1>32, <1>33, <1>34, <1>35, <1>36, <1>37, <1>38, <1>39, <1>40, <1>41, <1>42, <1>43, <1>44, <1>45
  DEF Next, RunnerStep, Settle, TaskStep, Observe, Client


\* A runner exists only for a graph that does.
LEMMA UpHasRun == Inv /\ up => run.state # "absent"
BY DEF Inv, CauseInv, Fresh

\* A step that fails no node and leaves the cause alone keeps CauseInv.
LEMMA CauseKept ==
    ASSUME Inv, run.state # "absent", run'.state # "absent",
           run'.policy = run.policy, run'.cause = run.cause,
           failedLog' = failedLog,
           \A n \in Node : rows'[n].state = "failed" => rows[n].state = "failed"
    PROVE  CauseInv'
<1>1. FirstCause'
  BY DEF Inv, CauseInv, FirstCause
<1>2. FailuresLogged'
  BY DEF Inv, CauseInv, FailuresLogged, InState
<1>. QED  BY <1>1, <1>2 DEF CauseInv, Fresh

\* ... in particular one that writes a row in another state than failed,
LEMMA CauseRow ==
    ASSUME Inv, run.state # "absent", UNCHANGED <<run, failedLog>>,
           NEW n \in Node, NEW s \in NodeState \ {"failed"}, NEW r, NEW b,
           rows' = [rows EXCEPT ![n] = Row(s, r, b)]
    PROVE  CauseInv'
<1>1. \A m \in Node : rows'[m].state = "failed" => rows[m].state = "failed"
  BY DEF Row, Inv, TypeOK
<1>. QED  BY <1>1, CauseKept

\* ... or one that writes neither.
LEMMA CauseUnchanged ==
    ASSUME Inv, run.state # "absent", UNCHANGED <<run, rows, failedLog>>
    PROVE  CauseInv'
BY CauseKept

\* failNode keeps CauseInv: the first failure is the cause from then on.
LEMMA CauseFailNode ==
    ASSUME Inv, up, NEW n \in Node, NEW r, NEW f, FailNode(n, r, f)
    PROVE  CauseInv'
<1>. USE DEF Inv, CauseInv
<1>1. /\ failedLog' = Append(failedLog, n) /\ failedLog \in Seq(Node)
      /\ run \in RunRow /\ run.state # "absent"
  BY DEF TypeOK, FailNode, Fresh
<1>2. /\ run'.state = run.state /\ run'.policy = run.policy
      /\ run.policy = "cancel" =>
            run'.cause = IF run.cause = NoNode THEN n ELSE run.cause
  BY <1>1 DEF FailNode, RunRow
<1>3. failedLog' # <<>> /\ (failedLog # <<>> => failedLog'[1] = failedLog[1])
      /\ (failedLog = <<>> => failedLog'[1] = n)
  BY <1>1
<1>4. failedLog # <<>> => failedLog[1] \in Node
  BY <1>1
<1>5. FirstCause'
  BY <1>2, <1>3, <1>4, NoNodeNotNode DEF FirstCause
<1>. QED  BY <1>1, <1>2, <1>3, <1>5 DEF FailuresLogged, Fresh

\* Every step keeps the cause invariant: only failNode fails a node or writes a
\* cause, and recovery's repair finds nothing to repair.
LEMMA CauseStep ==
    ASSUME Inv, [Next]_vars
    PROVE  CauseInv'
<1>1. /\ run \in RunRow /\ rows \in [Node -> NodeRow]
      /\ fr.pc \in {"active", "bind"} => fr.cur \in Node
  BY DEF Inv, TypeOK, FrameOK
<1>2. up => run.state # "absent"
  BY UpHasRun
<1>3. CASE HandleRecover
  <2>1. run.policy = "cancel" /\ InState("failed") # {} => run.cause # NoNode
    BY NoNodeNotNode, EltTyped
    DEF Inv, TypeOK, CauseInv, FirstCause, FailuresLogged
  <2>2. run'.state = run.state /\ run'.policy = run.policy /\ run'.cause = run.cause
    BY <1>3, <1>1, <2>1 DEF HandleRecover, RepairCancelPolicyFailure, RunRow
  <2>. QED  BY <1>3, <1>2, <2>2, CauseKept DEF HandleRecover, NextEvent
<1>4. CASE RecoverDone
  BY <1>4, <1>2, CauseUnchanged DEF RecoverDone, At, durable
<1>5. CASE PauseRun
  <2>1. run'.state # "absent" /\ run'.policy = run.policy /\ run'.cause = run.cause
    BY <1>5, <1>1, <1>2 DEF PauseRun, At, RunRow
  <2>. QED  BY <1>5, <1>2, <2>1, CauseKept DEF PauseRun, At
<1>6. CASE BeginCancellation
  <2>1. run'.state # "absent" /\ run'.policy = run.policy /\ run'.cause = run.cause
    BY <1>6, <1>1, <1>2 DEF BeginCancellation, At, RunRow
  <2>. QED  BY <1>6, <1>2, <2>1, CauseKept DEF BeginCancellation, At
<1>7. CASE ConvergeCancellation
  <2>1. run'.state # "absent" /\ run'.policy = run.policy /\ run'.cause = run.cause
    BY <1>7, <1>1, <1>2 DEF ConvergeCancellation, At, RunRow, Converged, FinishCancelled, FinishDone
  <2>. QED  BY <1>7, <1>2, <2>1, CauseKept DEF ConvergeCancellation, At
<1>8. CASE HandleStart
  <2>1. UNCHANGED <<run, failedLog>> /\ run.state # "absent"
    BY <1>8, <1>2 DEF HandleStart, HandleSignal, NextEvent
  <2>2. PICK s \in Node : rows' = [rows EXCEPT ![s] = Row("done", NoRun, NoNode)]
    BY <1>8 DEF HandleStart, KindOf
  <2>. QED  BY <2>1, <2>2, CauseRow DEF NodeState
<1>9. CASE StartRun
  <2>1. run'.state # "absent" /\ run'.policy = run.policy /\ run'.cause = run.cause
    BY <1>9, <1>1, <1>2 DEF StartRun, At, RunRow
  <2>. QED  BY <1>9, <1>2, <2>1, CauseKept DEF StartRun, At
<1>10. CASE HandlePause
  <2>1. run'.state # "absent" /\ run'.policy = run.policy /\ run'.cause = run.cause
    BY <1>10, <1>1, <1>2 DEF HandlePause, HandleSignal, NextEvent, RunRow
  <2>. QED  BY <1>10, <1>2, <2>1, CauseKept DEF HandlePause, HandleSignal, NextEvent
<1>11. CASE HandleResume
  <2>1. run'.state # "absent" /\ run'.policy = run.policy /\ run'.cause = run.cause
    BY <1>11, <1>1, <1>2 DEF HandleResume, HandleSignal, NextEvent, RunRow
  <2>. QED  BY <1>11, <1>2, <2>1, CauseKept DEF HandleResume, HandleSignal, NextEvent
<1>12. CASE HandleCancel
  BY <1>12, <1>2, CauseUnchanged DEF HandleCancel, HandleSignal, NextEvent, durable
<1>13. CASE HandleResumeCheckpoint
  BY <1>13, <1>2, CauseRow, CheckpointTyped DEF HandleResumeCheckpoint, HandleSignal, NextEvent, NodeState, Inv, Ev
<1>14. CASE HandleIgnored
  BY <1>14, <1>2, CauseUnchanged DEF HandleIgnored, HandleSignal, NextEvent, durable
<1>15. CASE TerminalStale
  BY <1>15, <1>2, CauseUnchanged DEF TerminalStale, TakeTerminal, NextEvent, durable
<1>16. CASE TerminalInterrupted
  BY <1>16, <1>2, CauseRow, TerminalTyped DEF TerminalInterrupted, TakeTerminal, NextEvent, NodeState, Inv
<1>17. CASE TerminalFailed
  BY <1>17, CauseFailNode, TerminalTyped DEF TerminalFailed, TakeTerminal, NextEvent, Inv
<1>18. CASE TerminalDone
  BY <1>18, <1>2, CauseRow, TerminalTyped DEF TerminalDone, TakeTerminal, NextEvent, NodeState, Inv
<1>19. CASE Tick
  <2>1. run'.state # "absent" /\ run'.policy = run.policy /\ run'.cause = run.cause
    BY <1>19, <1>1, <1>2 DEF Tick, At, RunRow, Converged, FinishCancelled, FinishDone
  <2>. QED  BY <1>19, <1>2, <2>1, CauseKept DEF Tick, At
<1>20. CASE ScanEnd
  <2>1. run'.state # "absent" /\ run'.policy = run.policy /\ run'.cause = run.cause
    BY <1>20, <1>1, <1>2 DEF ScanEnd, At, RunRow, Converged, FinishCancelled, FinishDone
  <2>. QED  BY <1>20, <1>2, <2>1, CauseKept DEF ScanEnd, At
<1>21. CASE CompleteControlNode
  <2>1. UNCHANGED <<run, failedLog>> /\ run.state # "absent" /\ fr.cur \in Node
    BY <1>21, <1>1, <1>2 DEF CompleteControlNode, At
  <2>2. PICK b : rows' = [rows EXCEPT ![fr.cur] = Row("done", NoRun, b)]
    BY <1>21 DEF CompleteControlNode
  <2>. QED  BY <2>1, <2>2, CauseRow DEF NodeState
<1>22. CASE FailActive
  BY <1>22, CauseFailNode, <1>1 DEF FailActive, At, Inv
<1>23. CASE DispatchTask
  BY <1>23, <1>2, CauseUnchanged DEF DispatchTask, At, durable
<1>24. CASE BindTask
  BY <1>24, <1>2, CauseRow, <1>1 DEF BindTask, At, NodeState, Inv
<1>25. CASE DispatchRejected
  BY <1>25, <1>2, CauseRow, <1>1 DEF DispatchRejected, At, NodeState, Inv
<1>26. CASE HandlePatchRequest
  BY <1>26, <1>2, CauseUnchanged DEF HandlePatchRequest, NextEvent, durable
<1>27. CASE HandlePatchConfirm
  <2>1. run'.state = run.state /\ run'.policy = run.policy /\ run'.cause = run.cause
    BY <1>27, <1>1 DEF HandlePatchConfirm, RunRow
  <2>2. \A n \in Node : rows'[n].state = "failed" => rows[n].state = "failed"
    BY <1>27 DEF HandlePatchConfirm, Row, NoRow
  <2>. QED
    BY <1>27, <1>2, <2>1, <2>2, CauseKept DEF HandlePatchConfirm, NextEvent
<1>28. CASE RejectOnConfirm
  BY <1>28, <1>2, CauseUnchanged DEF RejectOnConfirm, NextEvent, durable
<1>29. CASE HandlePatchReject
  BY <1>29, <1>2, CauseUnchanged DEF HandlePatchReject, NextEvent, durable
<1>30. CASE PatchNotFound
  BY <1>30, <1>2, CauseUnchanged DEF PatchNotFound, NextEvent, durable
<1>31. CASE Create
  <2>1. failedLog' = <<>> /\ run'.cause = NoNode /\ run'.state = "created"
    BY <1>31 DEF Create, Inv, CauseInv, Fresh
  <2>2. \A n \in Node : rows'[n].state # "failed"
    BY <1>31 DEF Create, Row, NoRow
  <2>. QED
    BY <2>1, <2>2 DEF CauseInv, FirstCause, FailuresLogged, Fresh, InState
<1>32. CASE Read
  BY <1>32, <1>2, CauseUnchanged DEF Read, durable
<1>33. CASE Crash
  BY <1>33, <1>2, CauseUnchanged DEF Crash, durable
<1>34. CASE Boot
  BY <1>34 DEF Boot, Inv, CauseInv, FirstCause, FailuresLogged, Fresh, InState,
     durable, process
<1>35. CASE Serve
  BY <1>35 DEF Serve, Inv, CauseInv, FirstCause, FailuresLogged, Fresh, InState,
     durable, process
<1>36. ASSUME NEW n \in Node, RecoverReattach(n)
      PROVE  CauseInv'
  BY <1>36, <1>2, CauseUnchanged DEF RecoverReattach, At, durable
<1>37. ASSUME NEW n \in Node, RecoverFail(n)
      PROVE  CauseInv'
  BY <1>37, CauseFailNode DEF RecoverFail, At, Inv
<1>38. ASSUME NEW n \in Node, CancelNode(n)
      PROVE  CauseInv'
  <2>1. UNCHANGED <<run, failedLog>> /\ run.state # "absent"
    BY <1>38, <1>2 DEF CancelNode, At
  <2>2. \/ rows' = [rows EXCEPT ![n] = Row("cancelled", NoRun, NoNode)]
        \/ rows' = [rows EXCEPT ![n] = Row("interrupted", NoRun, NoNode)]
        \/ rows' = rows
    BY <1>38 DEF CancelNode
  <2>. QED  BY <2>1, <2>2, CauseRow, CauseUnchanged DEF NodeState
<1>39. ASSUME NEW n \in Node, ScanImpossible(n)
      PROVE  CauseInv'
  BY <1>39, <1>2, CauseRow DEF ScanImpossible, Scans, At, NodeState, Inv
<1>40. ASSUME NEW n \in Node, ScanWaiting(n)
      PROVE  CauseInv'
  BY <1>40, <1>2, CauseUnchanged DEF ScanWaiting, Scans, At, durable
<1>41. ASSUME NEW n \in Node, ScanActivate(n)
      PROVE  CauseInv'
  <2>1. UNCHANGED <<run, failedLog>> /\ run.state # "absent"
    BY <1>41, <1>2 DEF ScanActivate, Scans, At
  <2>2. \/ rows' = [rows EXCEPT ![n] = Row("waiting", NoRun, NoNode)]
        \/ rows' = [rows EXCEPT ![n] = Row("running", NoRun, NoNode)]
        \/ rows' = rows
    BY <1>41 DEF ScanActivate
  <2>. QED  BY <2>1, <2>2, CauseRow, CauseUnchanged DEF NodeState
<1>42. ASSUME NEW n \in Node, ScanFail(n)
      PROVE  CauseInv'
  BY <1>42, CauseFailNode DEF ScanFail, Scans, At, Inv
<1>43. ASSUME NEW r \in fr.pending, SettleCancel(r)
      PROVE  CauseInv'
  BY <1>43, <1>2, CauseUnchanged DEF SettleCancel, At, durable
<1>44. ASSUME NEW r \in DOMAIN tasks, TaskFinish(r)
      PROVE  CauseInv'
  BY <1>44 DEF TaskFinish, Inv, CauseInv, FirstCause, FailuresLogged, Fresh, InState,
     durable, process
<1>45. ASSUME NEW e \in ClientEvent, Send(e)
      PROVE  CauseInv'
  BY <1>45, <1>2, CauseUnchanged DEF Send, durable
<1>46. ASSUME NEW o \in observed, Deliver(o[1], o[2])
      PROVE  CauseInv'
  BY <1>46 DEF Deliver, Inv, CauseInv, FirstCause, FailuresLogged, Fresh, InState,
     durable, process
<1>47. CASE UNCHANGED vars
  BY <1>47 DEF Inv, CauseInv, FirstCause, FailuresLogged, Fresh, InState, vars,
     durable, process
<1>. QED
  BY <1>3, <1>4, <1>5, <1>6, <1>7, <1>8, <1>9, <1>10, <1>11, <1>12, <1>13, <1>14, <1>15, <1>16, <1>17, <1>18, <1>19, <1>20, <1>21, <1>22, <1>23, <1>24, <1>25, <1>26, <1>27, <1>28, <1>29, <1>30, <1>31, <1>32, <1>33, <1>34, <1>35, <1>36, <1>37, <1>38, <1>39, <1>40, <1>41, <1>42, <1>43, <1>44, <1>45, <1>46, <1>47
  DEF Next, RunnerStep, Settle, TaskStep, Observe, Client

\* Before the graph is created the invariant holds.
LEMMA InvInit == Init => Inv
<1>. SUFFICES ASSUME Init PROVE Inv
  OBVIOUS
<1>1. NoRow \in NodeRow /\ AbsentDef \in NodeDef
  BY RowTyped DEF NoRow, NodeState, NoRun, AbsentDef, NodeDef, Kind
<1>2. run \in RunRow
  BY DEF Init, RunRow, RunState
<1>3. graph \in [Node -> NodeDef] /\ rows \in [Node -> NodeRow]
  BY <1>1 DEF Init
<1>4. /\ failedLog \in Seq(Node) /\ patches \in Seq(Patch)
      /\ tasks \in Seq(TaskRun) /\ queue \in Seq(Event)
  BY DEF Init
<1>5. FrameOK(fr)
  BY IdleFrameTyped DEF Init
<1>6. TypeOK
  BY <1>2, <1>3, <1>4, <1>5 DEF Init, TypeOK
<1>7. CauseInv
  BY DEF Init, CauseInv, FirstCause, FailuresLogged, Fresh, InState, NoRow, Row
<1>. QED  BY <1>6, <1>7 DEF Inv

(***************************************************************************)
(* Theorems.                                                               *)
(***************************************************************************)

\* The inductive invariant holds in every reachable state.
THEOREM Invariance == Spec => []Inv
<1>1. Init => Inv
  BY InvInit
<1>2. Inv /\ [Next]_vars => Inv'
  BY TypeStep, CauseStep DEF Inv
<1>. QED  BY <1>1, <1>2, PTL DEF Spec

\* Every table row, event and handler local keeps its type.
THEOREM TypeCorrect == Spec => []TypeOK
<1>1. Inv => TypeOK
  BY DEF Inv
<1>. QED  BY <1>1, Invariance, PTL

\* Under the cancel policy the recorded cause is the first journalled failure,
\* whatever the graph, the patches, the interleaving and the crashes.
THEOREM FirstCauseHolds == Spec => []FirstCause
<1>1. Inv => FirstCause
  BY DEF Inv, CauseInv
<1>. QED  BY <1>1, Invariance, PTL
===============================================================================
