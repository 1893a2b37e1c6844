------------------------ MODULE TaskGraphNodes_proofs ------------------------
(***************************************************************************)
(* Proofs about the nodes of a task graph, for every set of node ids,      *)
(* graphs, patches and signals and every bound: a node runs only when its  *)
(* dependencies allow it, is dispatched at most once per definition, and   *)
(* only while the graph runs; a patch applies what was previewed and       *)
(* leaves alone what has started.                                          *)
(***************************************************************************)
EXTENDS TaskGraphRunner_proofs

(***************************************************************************)
(* The inductive invariant.                                                *)
(***************************************************************************)

\* What the locals of a handler are at its control points.  A handler that
\* called failNode keeps its own locals for the return.
Frames ==
    /\ phase = "down" => ~up
    /\ ~up => fr.pc = "idle"
    /\ fr.pc \in {"idle", "started", "tick"} => fr.todo = {} /\ fr.pending = {}
    /\ fr.pc \in {"idle", "started", "tick", "scan", "active", "bind", "recover"} =>
          fr.ret = "idle"
    /\ fr.recs # {} => fr.pc = "recover" \/ fr.ret = "recover"
    /\ fr.failed => fr.pc = "recover" \/ fr.ret = "recover"
    /\ fr.changed => fr.pc \in {"scan", "active", "bind"} \/ fr.ret = "scan"
    /\ fr.bound # NoRun => fr.pc = "bind"
    /\ fr.cur # NoNode => fr.pc \in {"active", "bind"} \/ fr.ret = "scan"

\* Before create there is nothing.
Born ==
    run.state = "absent" =>
        /\ tasks = <<>> /\ patches = <<>>
        /\ \A n \in Node : rows[n].state = "none" /\ graph[n].kind = "absent"

\* Node rows are in step with a valid graph.
Matched ==
    /\ run.state # "absent" => WellFormed(graph)
    /\ \A n \in Node : rows[n].state = "none" <=> graph[n].kind = "absent"

\* What a loop still has to visit is as the loop expects it: the scan's nodes
\* are planned, the node it has activated runs without a task run in a graph
\* that may schedule, and recovery's nodes have not completed.
Loops ==
    /\ fr.pc \in {"scan", "active", "bind"} => fr.todo \subseteq InState("planned")
    /\ fr.pc \in {"active", "bind"} =>
          /\ Schedulable
          /\ rows[fr.cur].state = "running" /\ rows[fr.cur].run = NoRun
    /\ fr.recs \subseteq InState("running") \cup InState("interrupted")

\* A node that may be dispatched has no task run of the graph's revision.
Dispatched ==
    \A i \in DOMAIN tasks :
        /\ tasks[i].rev <= run.revision
        /\ rows[tasks[i].node].state = "planned" => tasks[i].rev < run.revision
        /\ fr.pc = "active" /\ fr.cur = tasks[i].node => tasks[i].rev < run.revision

\* A preview of the present revision shows the graph its confirmation makes.
Previews ==
    \A p \in DOMAIN patches :
        /\ patches[p].base <= run.revision
        /\ patches[p].base = run.revision =>
              patches[p].post = PostImage(graph, patches[p].ops)

NInv == /\ Inv /\ Frames /\ Born /\ Matched /\ Loops /\ DepsRespected
        /\ Dispatched /\ NoSilentRedispatch /\ Previews
(***************************************************************************)
(* What a step may do to the graph and its rows at all.                    *)
(***************************************************************************)

\* One row is written, in one of the states S.
Writes(n, S) ==
    \E s \in S, r \in Int, b \in Node \cup {NoNode} :
        rows' = [rows EXCEPT ![n] = Row(s, r, b)]

\* A node ends without a result, begins, is bound to its task run, completes, or
\* is the start node of a graph that is started.
Stops(n) == /\ rows[n].state \in {"planned", "running", "waiting", "interrupted"}
            /\ Writes(n, {"failed", "cancelled", "interrupted"})
Begins(n) == /\ rows[n].state = "planned"
             /\ DependencyStatus(graph, rows, n) = "satisfied"
             /\ Writes(n, {"running", "waiting"})
Binds(n) == rows[n].state = "running" /\ Writes(n, {"running"})
Completes(n) == rows[n].state \in {"running", "waiting"} /\ Writes(n, {"done"})
Starts(n) == n \in KindOf(graph, "start") /\ Writes(n, {"done"})

RowMoves == \/ rows' = rows
            \/ \E n \in Node : \/ Stops(n) \/ Begins(n) \/ Binds(n)
                               \/ Completes(n) \/ Starts(n)

\* The definition stays, and at most one row moves.
Moves == /\ graph' = graph /\ run'.revision = run.revision
         /\ run.state # "absent" /\ run'.state # "absent"
         /\ RowMoves

\* A task run or the bridge moves: the tables stay.
Rests == UNCHANGED durable

\* The other actions of the loops and handlers that call failNode.
LEMMA FailMoves ==
    ASSUME TypeOK, run.state # "absent", NEW n \in Node, NEW r \in Int, NEW f,
           rows[n].state \in {"planned", "running", "interrupted"},
           FailNode(n, r, f), graph' = graph
    PROVE  Moves
<1>1. run'.revision = run.revision /\ run'.state = run.state
  BY DEF FailNode, TypeOK, RunRow
<1>2. Stops(n)
  BY DEF Stops, Writes, FailNode
<1>. QED  BY <1>1, <1>2 DEF Moves, RowMoves

\* A step that writes one row and leaves run and graph.
LEMMA RowWritten ==
    ASSUME NEW n \in Node, NEW s, NEW r \in Int, NEW b \in Node \cup {NoNode},
           rows' = [rows EXCEPT ![n] = Row(s, r, b)]
    PROVE  \A S : s \in S => Writes(n, S)
BY DEF Writes

\* Every step rests, moves at most one row, confirms a patch or creates the graph.
LEMMA StepMoves ==
    ASSUME NInv, [Next]_vars
    PROVE  Rests \/ Moves \/ HandlePatchConfirm \/ Create
<1>. USE DEF NInv, Inv
<1>1. /\ run \in RunRow /\ rows \in [Node -> NodeRow] /\ graph \in [Node -> NodeDef]
      /\ fr \in Frame /\ (fr.pc \in {"active", "bind"} => fr.cur \in Node)
      /\ NoRun \in Int /\ NoNode \in Node \cup {NoNode}
  BY DEF TypeOK, FrameOK, NoRun
<1>2. up => run.state # "absent"
  BY UpHasRun
<1>3. CASE HandleRecover
  <2>1. run'.revision = run.revision /\ run'.state = run.state
    BY <1>3, <1>1 DEF HandleRecover, RepairCancelPolicyFailure, RunRow
  <2>. QED  BY <1>3, <1>2, <2>1 DEF HandleRecover, NextEvent, Moves, RowMoves
<1>4. CASE PauseRun
  BY <1>4, <1>1, <1>2 DEF PauseRun, At, Moves, RowMoves, RunRow
<1>5. CASE BeginCancellation
  BY <1>5, <1>1, <1>2 DEF BeginCancellation, At, Moves, RowMoves, RunRow
<1>6. CASE ConvergeCancellation
  BY <1>6, <1>1, <1>2
  DEF ConvergeCancellation, At, Moves, RowMoves, RunRow, Converged, FinishCancelled
<1>7. CASE HandleStart
  <2>1. PICK s \in KindOf(graph, "start") :
           rows' = [rows EXCEPT ![s] = Row("done", NoRun, NoNode)]
    BY <1>7 DEF HandleStart
  <2>2. s \in Node /\ Starts(s)
    BY <2>1, <1>1 DEF KindOf, Starts, Writes
  <2>. QED  BY <1>7, <1>2, <2>2 DEF HandleStart, HandleSignal, NextEvent, Moves, RowMoves
<1>8. CASE StartRun
  BY <1>8, <1>1, <1>2 DEF StartRun, At, Moves, RowMoves, RunRow
<1>9. CASE HandlePause
  BY <1>9, <1>1, <1>2 DEF HandlePause, HandleSignal, NextEvent, Moves, RowMoves, RunRow
<1>10. CASE HandleResume
  BY <1>10, <1>1, <1>2 DEF HandleResume, HandleSignal, NextEvent, Moves, RowMoves, RunRow
<1>11. CASE HandleResumeCheckpoint
  <2>1. /\ Ev.node \in Node /\ rows[Ev.node].state = "waiting"
        /\ rows' = [rows EXCEPT ![Ev.node] = Row("done", NoRun, NoNode)]
        /\ UNCHANGED <<run, graph>> /\ up
    BY <1>11, CheckpointTyped DEF HandleResumeCheckpoint, HandleSignal, NextEvent, Ev
  <2>2. Completes(Ev.node)
    BY <2>1, <1>1, RowWritten DEF Completes
  <2>. QED  BY <2>1, <2>2, <1>2 DEF Moves, RowMoves
<1>12. CASE TerminalInterrupted
  <2>1. /\ Ev.node \in Node /\ Ev.run \in Int /\ rows[Ev.node].state = "running"
        /\ rows' = [rows EXCEPT ![Ev.node] = Row("interrupted", Ev.run, NoNode)]
        /\ UNCHANGED <<run, graph>> /\ up
    BY <1>12, TerminalTyped DEF TerminalInterrupted, TakeTerminal, Expected, NextEvent
  <2>2. Stops(Ev.node)
    BY <2>1, <1>1, RowWritten DEF Stops
  <2>. QED  BY <2>1, <2>2, <1>2 DEF Moves, RowMoves
<1>13. CASE TerminalFailed
  <2>1. /\ Ev.node \in Node /\ Ev.run \in Int /\ rows[Ev.node].state = "running"
        /\ FailNode(Ev.node, Ev.run, IdleFrame) /\ graph' = graph /\ up
    BY <1>13, TerminalTyped DEF TerminalFailed, TakeTerminal, Expected, NextEvent
  <2>. QED  BY <2>1, <1>2, FailMoves
<1>14. CASE TerminalDone
  <2>1. /\ Ev.node \in Node /\ Ev.run \in Int /\ rows[Ev.node].state = "running"
        /\ rows' = [rows EXCEPT ![Ev.node] = Row("done", Ev.run, NoNode)]
        /\ UNCHANGED <<run, graph>> /\ up
    BY <1>14, TerminalTyped DEF TerminalDone, TakeTerminal, Expected, NextEvent
  <2>2. Completes(Ev.node)
    BY <2>1, <1>1, RowWritten DEF Completes
  <2>. QED  BY <2>1, <2>2, <1>2 DEF Moves, RowMoves
<1>15. CASE Tick
  BY <1>15, <1>1, <1>2 DEF Tick, At, Moves, RowMoves, RunRow, FinishDone
<1>16. CASE ScanEnd
  BY <1>16, <1>1, <1>2 DEF ScanEnd, At, Moves, RowMoves, RunRow, FinishDone, FinishCancelled
<1>17. CASE CompleteControlNode
  <2>1. /\ fr.cur \in Node /\ rows[fr.cur].state = "running" /\ up
        /\ UNCHANGED <<run, graph>>
    BY <1>17, <1>1 DEF CompleteControlNode, At, Loops
  <2>2. PICK b \in Node \cup {NoNode} : rows' = [rows EXCEPT ![fr.cur] = Row("done", NoRun, b)]
    BY <1>17, <1>1, <2>1 DEF CompleteControlNode, NodeDef
  <2>3. Completes(fr.cur)
    BY <2>1, <2>2, <1>1, RowWritten DEF Completes
  <2>. QED  BY <2>1, <2>3, <1>2 DEF Moves, RowMoves
<1>18. CASE FailActive
  <2>1. /\ fr.cur \in Node /\ rows[fr.cur].state = "running" /\ up /\ graph' = graph
        /\ FailNode(fr.cur, NoRun, [fr EXCEPT !.ret = "scan"])
    BY <1>18, <1>1 DEF FailActive, At, Loops
  <2>. QED  BY <2>1, <1>1, <1>2, FailMoves
<1>19. CASE BindTask
  <2>1. /\ fr.cur \in Node /\ rows[fr.cur].state = "running" /\ up /\ fr.bound \in Int
        /\ rows' = [rows EXCEPT ![fr.cur] = Row("running", fr.bound, NoNode)]
        /\ UNCHANGED <<run, graph>>
    BY <1>19, <1>1 DEF BindTask, At, Loops, Frame
  <2>2. Binds(fr.cur)
    BY <2>1, <1>1, RowWritten DEF Binds
  <2>. QED  BY <2>1, <2>2, <1>2 DEF Moves, RowMoves
<1>20. CASE DispatchRejected
  <2>1. /\ fr.cur \in Node /\ rows[fr.cur].state = "running" /\ up /\ Rejected \in Int
        /\ rows' = [rows EXCEPT ![fr.cur] = Row("running", Rejected, NoNode)]
        /\ UNCHANGED <<run, graph>>
    BY <1>20, <1>1 DEF DispatchRejected, At, Loops, Rejected
  <2>2. Binds(fr.cur)
    BY <2>1, <1>1, RowWritten DEF Binds
  <2>. QED  BY <2>1, <2>2, <1>2 DEF Moves, RowMoves
<1>21. ASSUME NEW n \in Node, RecoverFail(n)
       PROVE  Moves
  <2>1. rows[n].state \in {"running", "interrupted"} /\ rows[n].run \in Int
    BY <1>21, <1>1 DEF RecoverFail, First, Loops, InState, NodeRow
  <2>. QED  BY <1>21, <1>2, <2>1, FailMoves DEF RecoverFail, At
<1>22. ASSUME NEW n \in Node, CancelNode(n)
       PROVE  Moves
  <2>1. /\ up /\ UNCHANGED <<run, graph>>
        /\ \/ rows' = rows
           \/ /\ rows[n].state \in {"planned", "waiting"}
              /\ rows' = [rows EXCEPT ![n] = Row("cancelled", NoRun, NoNode)]
           \/ /\ rows[n].state = "running"
              /\ rows' = [rows EXCEPT ![n] = Row("interrupted", NoRun, NoNode)]
    BY <1>22 DEF CancelNode, At
  <2>2. rows' = rows \/ Stops(n)
    BY <2>1, <1>1, RowWritten DEF Stops
  <2>. QED  BY <2>1, <2>2, <1>2 DEF Moves, RowMoves
<1>23. ASSUME NEW n \in Node, ScanImpossible(n)
       PROVE  Moves
  <2>1. /\ up /\ UNCHANGED <<run, graph>> /\ rows[n].state = "planned"
        /\ rows' = [rows EXCEPT ![n] = Row("cancelled", NoRun, NoNode)]
    BY <1>23 DEF ScanImpossible, Scans, At, Loops, InState
  <2>2. Stops(n)
    BY <2>1, <1>1, RowWritten DEF Stops
  <2>. QED  BY <2>1, <2>2, <1>2 DEF Moves, RowMoves
<1>24. ASSUME NEW n \in Node, ScanActivate(n)
       PROVE  Moves
  <2>1. /\ up /\ UNCHANGED <<run, graph>> /\ rows[n].state = "planned"
        /\ DependencyStatus(graph, rows, n) = "satisfied"
        /\ \/ rows' = [rows EXCEPT ![n] = Row("waiting", NoRun, NoNode)]
           \/ rows' = [rows EXCEPT ![n] = Row("running", NoRun, NoNode)]
    BY <1>24 DEF ScanActivate, Scans, At, Loops, InState
  <2>2. Begins(n)
    BY <2>1, <1>1, RowWritten DEF Begins
  <2>. QED  BY <2>1, <2>2, <1>2 DEF Moves, RowMoves
<1>25. ASSUME NEW n \in Node, ScanFail(n)
       PROVE  Moves
  <2>1. up /\ rows[n].state = "planned"
    BY <1>25 DEF ScanFail, Scans, At, Loops, InState
  <2>. QED  BY <1>25, <1>1, <1>2, <2>1, FailMoves DEF ScanFail
<1>26. CASE HandlePatchRequest \/ RejectOnConfirm \/ HandlePatchReject
  BY <1>26, <1>2
  DEF HandlePatchRequest, RejectOnConfirm, HandlePatchReject, NextEvent, Moves, RowMoves
<1>27. CASE UNCHANGED vars
  BY <1>27 DEF vars, Rests
<1>28. CASE \/ RecoverDone \/ HandleCancel \/ HandleIgnored \/ TerminalStale \/ DispatchTask
            \/ PatchNotFound \/ (\E n \in Node : RecoverReattach(n) \/ ScanWaiting(n))
            \/ Settle \/ TaskStep \/ Observe \/ Read \/ (\E e \in ClientEvent : Send(e))
            \/ Crash \/ Boot \/ Serve
  BY <1>28
  DEF RecoverDone, HandleCancel, HandleIgnored, TerminalStale, DispatchTask, PatchNotFound,
      RecoverReattach, ScanWaiting, Settle, SettleCancel, TaskStep, TaskFinish, Observe,
      Deliver, Read, Send, Crash, Boot, Serve, Rests
<1>. QED
  BY <1>3, <1>4, <1>5, <1>6, <1>7, <1>8, <1>9, <1>10, <1>11, <1>12, <1>13, <1>14, <1>15,
     <1>16, <1>17, <1>18, <1>19, <1>20, <1>21, <1>22, <1>23, <1>24, <1>25, <1>26, <1>27, <1>28
  DEF Next, RunnerStep, Client

(***************************************************************************)
(* The locals of the handlers.                                             *)
(***************************************************************************)

\* The locals with which failNode and beginCancellation return.
LEMMA ReturnIs ==
    ASSUME NEW f \in Frame
    PROVE  /\ Return(f) \in Frame
           /\ Return(f).pc = f.ret /\ Return(f).ret = "idle" /\ Return(f).recs = f.recs
           /\ Return(f).failed = f.failed /\ Return(f).changed = f.changed
           /\ Return(f).cur = NoNode /\ Return(f).bound = f.bound
           /\ Return(f).todo = {} /\ Return(f).pending = {}
BY DEF Return, Frame, PC

\* They return with the caller's locals.
LEMMA ReturnFrames ==
    ASSUME NEW f \in Frame, Frames, fr = f, f.pc \in {"pauseRun", "begin", "cancel"},
           fr' = Return(f), up' = up, phase' = phase
    PROVE  Frames'
BY ReturnIs DEF Frames, Frame

\* failNode called by a handler with locals f.
LEMMA FailFrames ==
    ASSUME NEW n, NEW r, NEW f \in Frame, FailNode(n, r, f), up, UNCHANGED <<up, phase>>,
           Frames,
           f.recs # {} \/ f.failed => f.ret = "recover",
           f.changed \/ f.cur # NoNode => f.ret = "scan",
           f.bound = NoRun
    PROVE  Frames'
<1>1. CASE fr' = Return(f)
  BY <1>1, ReturnIs DEF Frames, Frame
<1>2. CASE \E pc \in {"begin", "pauseRun"} : fr' = [f EXCEPT !.pc = pc]
  BY <1>2 DEF Frames, Frame
<1>. QED  BY <1>1, <1>2 DEF FailNode

\* A handler returns or jumps with fresh locals.
LEMMA FreshFrames ==
    ASSUME Frames, up, UNCHANGED <<up, phase>>,
           \/ fr' = IdleFrame
           \/ \E pc \in {"begin", "cancel", "started", "tick"} : fr' = Goto(pc)
    PROVE  Frames'
BY DEF Frames, Goto, IdleFrame

\* The handler is left alone.
LEMMA SameFrames ==
    ASSUME Frames, fr' = fr, UNCHANGED <<up, phase>> \/ (up' /\ phase' = "serving")
    PROVE  Frames'
BY DEF Frames

LEMMA FramesStep ==
    ASSUME NInv, [Next]_vars
    PROVE  Frames'
<1>. USE DEF NInv
<1>1. fr \in Frame /\ (fr.pc \in {"active", "bind"} => fr.cur \in Node)
  BY DEF Inv, TypeOK, FrameOK
<1>2. CASE HandleRecover
  BY <1>2 DEF HandleRecover, NextEvent, process, Frames, Goto, IdleFrame
<1>3. CASE RecoverDone \/ HandleStart \/ StartRun \/ HandleResume \/ HandleCancel
           \/ HandleResumeCheckpoint \/ TerminalInterrupted \/ TerminalDone
  BY <1>3, FreshFrames
  DEF RecoverDone, HandleStart, StartRun, HandleResume, HandleCancel,
      HandleResumeCheckpoint, TerminalInterrupted, TerminalDone, TakeTerminal, NextEvent,
      HandleSignal, At, process
<1>4. CASE PauseRun \/ ConvergeCancellation
  BY <1>4, <1>1, ReturnFrames DEF PauseRun, ConvergeCancellation, At, process
<1>5. CASE BeginCancellation
  BY <1>5, <1>1 DEF BeginCancellation, At, process, Frames, Frame
<1>6. CASE \E n \in Node : CancelNode(n)
  <2>1. PICK n \in Node :
           /\ fr.pc = "cancel" /\ UNCHANGED <<up, phase>>
           /\ \/ fr' = [fr EXCEPT !.todo = @ \ {n}]
              \/ \E r : fr' = [fr EXCEPT !.todo = @ \ {n}, !.pending = @ \cup {r}]
    BY <1>6 DEF CancelNode, At, process
  <2>. QED  BY <1>1, <2>1 DEF Frames, Frame
<1>7. CASE Settle
  BY <1>7, <1>1 DEF Settle, SettleCancel, At, process, Frames, Frame
<1>8. CASE \E n \in Node : RecoverReattach(n)
  BY <1>8, <1>1 DEF RecoverReattach, At, process, Frames, Frame
<1>9. ASSUME NEW n \in Node, RecoverFail(n)
      PROVE  Frames'
  <2> DEFINE f == [fr EXCEPT !.recs = @ \ {n}, !.failed = TRUE, !.ret = "recover"]
  <2>1. /\ f \in Frame /\ f.ret = "recover" /\ ~f.changed /\ f.cur = NoNode
        /\ f.bound = NoRun /\ up /\ UNCHANGED <<up, phase>> /\ FailNode(n, rows[n].run, f)
    BY <1>9, <1>1 DEF RecoverFail, At, process, Frames, Frame
  <2>. QED  BY <2>1, FailFrames
<1>10. CASE TerminalFailed
  <2>1. IdleFrame \in Frame /\ up /\ UNCHANGED <<up, phase>> /\ FailNode(Ev.node, Ev.run, IdleFrame)
    BY <1>10, IdleFrameTyped DEF TerminalFailed, TakeTerminal, NextEvent, process
  <2>. QED  BY <2>1, FailFrames DEF IdleFrame
<1>11. CASE Tick
  <2>1. up /\ UNCHANGED <<up, phase>>
    BY <1>11 DEF Tick, At, process
  <2>2. CASE fr' = IdleFrame
    BY <2>1, <2>2, FreshFrames
  <2>3. CASE fr' = [Goto("scan") EXCEPT !.todo = InState("planned") \ KindOf(graph, "start")]
    BY <2>1, <2>3 DEF Frames, Goto, IdleFrame
  <2>. QED  BY <1>11, <2>2, <2>3 DEF Tick
<1>12. CASE ScanEnd
  <2>1. up /\ UNCHANGED <<up, phase>> /\ (fr' = IdleFrame \/ fr' = Goto("tick"))
    BY <1>12 DEF ScanEnd, At, process
  <2>. QED  BY <2>1, FreshFrames
<1>13. CASE \E n \in Node : ScanImpossible(n) \/ ScanWaiting(n)
  <2>1. /\ fr.pc = "scan" /\ UNCHANGED <<up, phase>>
        /\ \E n \in Node, c \in BOOLEAN : fr' = Visited(n, c)
    BY <1>13 DEF ScanImpossible, ScanWaiting, Scans, At, process
  <2>. QED  BY <1>1, <2>1 DEF Visited, Frames, Frame
<1>14. ASSUME NEW n \in Node, ScanActivate(n)
       PROVE  Frames'
  <2>1. up /\ UNCHANGED <<up, phase>> /\ fr.pc = "scan"
    BY <1>14 DEF ScanActivate, Scans, At, process
  <2>2. CASE fr' = Visited(n, TRUE)
    BY <1>1, <2>1, <2>2 DEF Visited, Frames, Frame
  <2>3. CASE fr' = [Visited(n, TRUE) EXCEPT !.pc = "active", !.cur = n]
    BY <1>1, <2>1, <2>3 DEF Visited, Frames, Frame
  <2>. QED  BY <1>14, <2>2, <2>3 DEF ScanActivate
<1>15. ASSUME NEW n \in Node, ScanFail(n)
       PROVE  Frames'
  <2> DEFINE f == [Visited(n, TRUE) EXCEPT !.ret = "scan"]
  <2>1. /\ f \in Frame /\ f.ret = "scan" /\ f.recs = {} /\ ~f.failed
        /\ f.bound = NoRun /\ up /\ UNCHANGED <<up, phase>> /\ FailNode(n, NoRun, f)
    BY <1>15, <1>1 DEF ScanFail, Scans, Visited, At, process, Frames, Frame
  <2>. QED  BY <2>1, FailFrames
<1>16. CASE FailActive
  <2> DEFINE f == [fr EXCEPT !.ret = "scan"]
  <2>1. /\ f \in Frame /\ f.ret = "scan" /\ f.recs = {} /\ ~f.failed
        /\ f.bound = NoRun /\ up /\ UNCHANGED <<up, phase>> /\ FailNode(fr.cur, NoRun, f)
    BY <1>16, <1>1 DEF FailActive, At, process, Frames, Frame
  <2>. QED  BY <2>1, FailFrames
<1>17. CASE CompleteControlNode \/ BindTask \/ DispatchRejected
  <2>1. fr.pc \in {"active", "bind"} /\ UNCHANGED <<up, phase>> /\ fr' = Scanning
    BY <1>17 DEF CompleteControlNode, BindTask, DispatchRejected, At, process
  <2>. QED  BY <1>1, <2>1 DEF Scanning, Frames, Frame
<1>18. CASE DispatchTask
  BY <1>18, <1>1 DEF DispatchTask, At, process, Frames, Frame
<1>19. CASE Crash
  BY <1>19 DEF Crash, Frames, IdleFrame
<1>20. CASE Boot
  BY <1>20 DEF Boot, Frames
<1>21. CASE Serve
  BY <1>21 DEF Serve, Frames
<1>22. CASE UNCHANGED vars
  BY <1>22, SameFrames DEF vars, process
<1>23. CASE \/ HandlePause \/ HandleIgnored \/ TerminalStale \/ HandlePatchRequest
            \/ HandlePatchConfirm \/ RejectOnConfirm \/ HandlePatchReject \/ PatchNotFound
            \/ TaskStep \/ Observe \/ Create \/ Read \/ (\E e \in ClientEvent : Send(e))
  BY <1>23, SameFrames
  DEF HandlePause, HandleIgnored, TerminalStale, HandlePatchRequest, HandlePatchConfirm,
      RejectOnConfirm, HandlePatchReject, PatchNotFound, TaskStep, TaskFinish, Observe,
      Deliver, Create, Read, Send, process
<1>. QED
  BY <1>2, <1>3, <1>4, <1>5, <1>6, <1>7, <1>8, <1>9, <1>10, <1>11, <1>12, <1>13, <1>14,
     <1>15, <1>16, <1>17, <1>18, <1>19, <1>20, <1>21, <1>22, <1>23
  DEF Next, RunnerStep, Client

(***************************************************************************)
(* What the loops still have to visit.                                     *)
(***************************************************************************)

\* Between events, and where a handler has no node left to visit.
LEMMA LoopsQuiet ==
    ASSUME fr'.pc \notin {"scan", "active", "bind"}, fr'.recs = {}
    PROVE  Loops'
BY DEF Loops

\* Neither the handler nor what it looks at changes.
LEMMA LoopsSame ==
    ASSUME Loops, UNCHANGED <<fr, rows, run>>
    PROVE  Loops'
BY DEF Loops, InState, Schedulable

\* failNode: the failed node is none of those recovery has still to visit.
LEMMA LoopsFail ==
    ASSUME Inv, NEW n \in Node, NEW r, NEW f \in Frame, FailNode(n, r, f),
           f.recs \subseteq (InState("running") \cup InState("interrupted")) \ {n}
    PROVE  Loops'
<1>1. \A m \in Node \ {n} : rows'[m] = rows[m]
  BY DEF FailNode, Inv, TypeOK
<1>2. /\ fr'.recs = f.recs
      /\ fr'.pc \in {"begin", "pauseRun", "idle", "recover", "scan"}
      /\ fr'.pc = "scan" => fr'.todo = {}
  BY ReturnIs DEF FailNode, Frame
<1>. QED  BY <1>1, <1>2 DEF Loops, InState

LEMMA LoopsStep ==
    ASSUME NInv, [Next]_vars
    PROVE  Loops'
<1>. USE DEF NInv
<1>1. /\ fr \in Frame /\ (fr.pc \in {"active", "bind"} => fr.cur \in Node)
      /\ rows \in [Node -> NodeRow] /\ (~up => fr.pc = "idle")
  BY DEF Inv, TypeOK, FrameOK, Frames
<1>2. fr.pc # "recover" /\ fr.ret # "recover" => fr.recs = {}
  BY DEF Frames
<1>3. fr.pc \in {"idle", "started", "tick", "scan", "active", "bind"} => fr.recs = {}
  BY <1>2 DEF Frames
<1>4. CASE HandleRecover
  BY <1>4 DEF HandleRecover, Goto, IdleFrame, Loops, InState
<1>5. CASE RecoverDone \/ HandleStart \/ StartRun \/ HandleResume \/ HandleCancel
           \/ HandleResumeCheckpoint \/ TerminalInterrupted \/ TerminalDone
  <2>1. \/ fr' = IdleFrame
        \/ \E pc \in {"begin", "cancel", "started", "tick"} : fr' = Goto(pc)
    BY <1>5
    DEF RecoverDone, HandleStart, StartRun, HandleResume, HandleCancel,
        HandleResumeCheckpoint, TerminalInterrupted, TerminalDone
  <2>. QED  BY <2>1, LoopsQuiet DEF Goto, IdleFrame
<1>6. CASE PauseRun \/ ConvergeCancellation
  <2>1. /\ rows' = rows /\ fr'.recs = fr.recs
        /\ fr'.pc \in {"idle", "recover", "scan"} /\ fr'.todo = {}
    BY <1>6, <1>1, ReturnIs DEF PauseRun, ConvergeCancellation, Frame
  <2>. QED  BY <2>1 DEF Loops, InState
<1>7. CASE BeginCancellation
  BY <1>7, <1>1 DEF BeginCancellation, Loops, InState, Frame
<1>8. ASSUME NEW n \in Node, CancelNode(n)
      PROVE  Loops'
  <2>1. \/ fr' = [fr EXCEPT !.todo = @ \ {n}]
        \/ \E r : fr' = [fr EXCEPT !.todo = @ \ {n}, !.pending = @ \cup {r}]
    BY <1>8 DEF CancelNode
  <2>2. fr'.pc = "cancel" /\ fr'.recs = fr.recs
    BY <1>8, <1>1, <2>1 DEF CancelNode, At, Frame
  <2>3. \/ rows' = rows
        \/ /\ rows[n].state \in {"planned", "waiting"}
           /\ rows' = [rows EXCEPT ![n] = Row("cancelled", NoRun, NoNode)]
        \/ rows' = [rows EXCEPT ![n] = Row("interrupted", NoRun, NoNode)]
    BY <1>8 DEF CancelNode
  <2>4. /\ \A m \in Node \ {n} : rows'[m] = rows[m]
        /\ rows[n].state \in {"running", "interrupted"} =>
              rows'[n].state \in {"running", "interrupted"}
    BY <1>1, <2>3 DEF Row
  <2>. QED  BY <2>2, <2>4 DEF Loops, InState
<1>9. CASE Settle
  BY <1>9, <1>1 DEF Settle, SettleCancel, At, durable, Loops, InState, Frame
<1>10. CASE \E n \in Node : RecoverReattach(n)
  BY <1>10, <1>1 DEF RecoverReattach, At, durable, Loops, InState, Frame
<1>11. ASSUME NEW n \in Node, RecoverFail(n)
       PROVE  Loops'
  <2> DEFINE f == [fr EXCEPT !.recs = @ \ {n}, !.failed = TRUE, !.ret = "recover"]
  <2>1. f \in Frame /\ f.recs = fr.recs \ {n} /\ FailNode(n, rows[n].run, f)
    BY <1>11, <1>1 DEF RecoverFail, Frame
  <2>. QED  BY <2>1, LoopsFail DEF Loops
<1>12. CASE TerminalFailed
  <2>1. Ev.node \in Node /\ IdleFrame \in Frame /\ FailNode(Ev.node, Ev.run, IdleFrame)
    BY <1>12, IdleFrameTyped, TerminalTyped DEF TerminalFailed, TakeTerminal, Inv
  <2>. QED  BY <2>1, LoopsFail DEF IdleFrame
<1>13. CASE Tick
  <2>1. CASE fr' = IdleFrame
    BY <2>1, LoopsQuiet DEF IdleFrame
  <2>2. CASE fr' = [Goto("scan") EXCEPT !.todo = InState("planned") \ KindOf(graph, "start")]
    BY <1>13, <2>2 DEF Tick, Goto, IdleFrame, Loops, InState
  <2>. QED  BY <1>13, <2>1, <2>2 DEF Tick
<1>14. CASE ScanEnd
  BY <1>14, LoopsQuiet DEF ScanEnd, Goto, IdleFrame
<1>15. ASSUME NEW n \in Node, NEW c \in BOOLEAN, Scans(n), fr' = Visited(n, c),
              \A m \in Node \ {n} : rows'[m] = rows[m]
       PROVE  Loops'
  <2>1. fr'.pc = "scan" /\ fr'.todo = fr.todo \ {n} /\ fr'.recs = {}
    BY <1>15, <1>1, <1>3 DEF Scans, At, Visited, Frame
  <2>. QED  BY <1>15, <2>1 DEF Loops, InState, Scans, At
<1>16. ASSUME NEW n \in Node, ScanImpossible(n) \/ ScanWaiting(n)
       PROVE  Loops'
  <2>1. Scans(n) /\ \E c \in BOOLEAN : fr' = Visited(n, c)
    BY <1>16 DEF ScanImpossible, ScanWaiting
  <2>2. \A m \in Node \ {n} : rows'[m] = rows[m]
    BY <1>16, <1>1 DEF ScanImpossible, ScanWaiting, durable
  <2>. QED  BY <2>1, <2>2, <1>15
<1>17. ASSUME NEW n \in Node, ScanActivate(n)
       PROVE  Loops'
  <2>1. /\ Scans(n) /\ run' = run /\ \A m \in Node \ {n} : rows'[m] = rows[m]
    BY <1>17, <1>1 DEF ScanActivate
  <2>2. CASE fr' = Visited(n, TRUE)
    BY <2>1, <2>2, <1>15
  <2>3. CASE /\ fr' = [Visited(n, TRUE) EXCEPT !.pc = "active", !.cur = n]
             /\ rows' = [rows EXCEPT ![n] = Row("running", NoRun, NoNode)]
    <3>1. /\ fr'.pc = "active" /\ fr'.todo = fr.todo \ {n} /\ fr'.recs = {} /\ fr'.cur = n
          /\ fr.pc = "scan"
      BY <2>1, <2>3, <1>1, <1>3 DEF Scans, At, Visited, Frame
    <3>2. rows'[n].state = "running" /\ rows'[n].run = NoRun
      BY <2>3, <1>1 DEF Row
    <3>. QED  BY <2>1, <3>1, <3>2 DEF Loops, InState, Scans, Schedulable
  <2>. QED  BY <1>17, <2>2, <2>3 DEF ScanActivate
<1>18. ASSUME NEW n \in Node, ScanFail(n)
       PROVE  Loops'
  <2> DEFINE f == [Visited(n, TRUE) EXCEPT !.ret = "scan"]
  <2>1. f \in Frame /\ f.recs = {} /\ FailNode(n, NoRun, f)
    BY <1>18, <1>1, <1>3 DEF ScanFail, Scans, At, Visited, Frame
  <2>. QED  BY <2>1, LoopsFail
<1>19. CASE FailActive
  <2> DEFINE f == [fr EXCEPT !.ret = "scan"]
  <2>1. f \in Frame /\ f.recs = {} /\ fr.cur \in Node /\ FailNode(fr.cur, NoRun, f)
    BY <1>19, <1>1, <1>3 DEF FailActive, At, Frame
  <2>. QED  BY <2>1, LoopsFail
<1>20. CASE CompleteControlNode \/ BindTask \/ DispatchRejected
  <2>1. /\ fr.pc \in {"active", "bind"} /\ fr.cur \in Node /\ fr' = Scanning
        /\ \A m \in Node \ {fr.cur} : rows'[m] = rows[m]
    BY <1>20, <1>1 DEF CompleteControlNode, BindTask, DispatchRejected, At
  <2>2. fr'.pc = "scan" /\ fr'.todo = fr.todo /\ fr'.recs = {}
    BY <2>1, <1>1, <1>3 DEF Scanning, Frame
  <2>. QED  BY <2>1, <2>2 DEF Loops, InState
<1>21. CASE DispatchTask
  <2>1. /\ fr.pc = "active" /\ fr'.pc = "bind" /\ fr'.todo = fr.todo /\ fr'.recs = fr.recs
        /\ fr'.cur = fr.cur /\ UNCHANGED <<rows, run>>
    BY <1>21, <1>1 DEF DispatchTask, At, Frame, durable
  <2>. QED  BY <2>1 DEF Loops, InState, Schedulable
<1>22. CASE Crash
  BY <1>22, LoopsQuiet DEF Crash, IdleFrame
<1>23. CASE HandlePause \/ HandlePatchConfirm \/ Create
  <2>1. fr' = fr /\ fr.pc = "idle"
    BY <1>23, <1>1 DEF HandlePause, HandleSignal, NextEvent, HandlePatchConfirm, Create,
       Inv, CauseInv, Fresh
  <2>. QED  BY <2>1, <1>3, LoopsQuiet
<1>24. CASE \/ HandleIgnored \/ TerminalStale \/ HandlePatchRequest
            \/ RejectOnConfirm \/ HandlePatchReject \/ PatchNotFound
            \/ TaskStep \/ Observe \/ Read \/ (\E e \in ClientEvent : Send(e)) \/ Boot \/ Serve
            \/ UNCHANGED vars
  BY <1>24, LoopsSame
  DEF HandleIgnored, TerminalStale, HandlePatchRequest, RejectOnConfirm, HandlePatchReject,
      PatchNotFound, TaskStep, TaskFinish, Observe, Deliver, Read, Send, Boot, Serve, vars,
      durable
<1>. QED
  BY <1>4, <1>5, <1>6, <1>7, <1>8, <1>9, <1>10, <1>11, <1>12, <1>13, <1>14,
     <1>16, <1>17, <1>18, <1>19, <1>20, <1>21, <1>22, <1>23, <1>24
  DEF Next, RunnerStep, Client

(***************************************************************************)
(* The graph, its rows and its task runs.                                  *)
(***************************************************************************)

\* A moving row keeps its id in or out of the graph, and is planned before or
\* not at all after.
LEMMA MoveIs ==
    ASSUME TypeOK, Moves, Matched, NEW m \in Node
    PROVE  /\ rows'[m].state = "none" <=> rows[m].state = "none"
           /\ rows'[m].state = "planned" => rows'[m] = rows[m]
<1>1. rows \in [Node -> NodeRow] /\ graph \in [Node -> NodeDef]
  BY DEF TypeOK
<1>2. ASSUME NEW n \in Node, NEW S, Writes(n, S), S \subseteq NodeState \ {"none", "planned"}
      PROVE  /\ m # n => rows'[m] = rows[m]
             /\ m = n => rows'[m].state \notin {"none", "planned"}
  BY <1>2, <1>1 DEF Writes, Row
<1>3. ASSUME NEW n \in Node, Stops(n) \/ Begins(n) \/ Binds(n) \/ Completes(n) \/ Starts(n)
      PROVE  /\ rows[n].state # "none"
             /\ \E S \in SUBSET (NodeState \ {"none", "planned"}) : Writes(n, S)
  BY <1>3, <1>1
  DEF Stops, Begins, Binds, Completes, Starts, NodeState, KindOf, Matched
<1>4. CASE rows' = rows
  BY <1>4
<1>5. CASE \E n \in Node : Stops(n) \/ Begins(n) \/ Binds(n) \/ Completes(n) \/ Starts(n)
  BY <1>5, <1>2, <1>3
<1>. QED  BY <1>4, <1>5 DEF Moves, RowMoves

\* What confirming a patch does to the graph and its rows: edited nodes were
\* planned, failed or absent, and are planned or absent afterwards.
LEMMA ConfirmIs ==
    ASSUME TypeOK, Matched, HandlePatchConfirm
    PROVE  /\ WellFormed(graph')
           /\ \A n \in Node :
                 \/ graph'[n] = graph[n] /\ rows'[n] = rows[n]
                 \/ /\ rows[n].state \in {"none", "planned", "failed"}
                    /\ rows'[n].state = IF graph'[n].kind = "absent" THEN "none" ELSE "planned"
           /\ run' = [run EXCEPT !.revision = @ + 1]
<1> DEFINE ops == patches[Ev.patch].ops
<1>1. /\ ValidPatch(graph, NodeStates, ops) /\ graph' = PostImage(graph, ops)
      /\ run' = [run EXCEPT !.revision = @ + 1]
      /\ rows' = [n \in Node |->
                IF \E o \in ops : o.id = n
                THEN IF PostImage(graph, ops)[n].kind = "absent" THEN NoRow
                     ELSE Row("planned", NoRun, NoNode)
                ELSE rows[n]]
  BY DEF HandlePatchConfirm, Applicable
<1>2. WellFormed(graph')
  BY <1>1 DEF ValidPatch
<1>3. ASSUME NEW n \in Node
      PROVE  \/ graph'[n] = graph[n] /\ rows'[n] = rows[n]
             \/ /\ rows[n].state \in {"none", "planned", "failed"}
                /\ rows'[n].state = IF graph'[n].kind = "absent" THEN "none" ELSE "planned"
  <2>1. CASE ~ \E o \in ops : o.id = n
    BY <1>1, <2>1 DEF PostImage
  <2>2. CASE \E o \in ops : o.id = n
    <3>1. PICK o \in ops : o.id = n /\ OpAllowed(graph, NodeStates, o)
      BY <2>2, <1>1 DEF ValidPatch
    <3>2. rows[n].state \in {"none", "planned", "failed"}
      BY <3>1 DEF OpAllowed, Ids, Editable, NodeStates, Matched
    <3>3. rows'[n].state = IF graph'[n].kind = "absent" THEN "none" ELSE "planned"
      BY <1>1, <2>2 DEF NoRow, Row
    <3>. QED  BY <3>2, <3>3
  <2>. QED  BY <2>1, <2>2
<1>. QED  BY <1>1, <1>2, <1>3

\* What creating the graph does.
LEMMA CreateIs ==
    ASSUME Create
    PROVE  /\ WellFormed(graph') /\ run'.state = "created" /\ run'.revision = 1
           /\ \A n \in Node :
                 rows'[n].state = IF graph'[n].kind = "absent" THEN "none" ELSE "planned"
BY GraphAssumption DEF Create, Ids, NoRow, Row

\* Task runs are added by a dispatch and end by themselves or by a cancel.
LEMMA TasksMove ==
    ASSUME [Next]_vars
    PROVE  DispatchTask \/ Settle \/ TaskStep \/ UNCHANGED tasks
BY DEF Next, RunnerStep, Client, vars, HandleRecover, RecoverDone, RecoverReattach,
       RecoverFail, PauseRun, BeginCancellation, ConvergeCancellation, CancelNode,
       HandleStart, StartRun, HandlePause, HandleResume, HandleCancel,
       HandleResumeCheckpoint, HandleIgnored, TerminalStale, TerminalInterrupted,
       TerminalFailed, TerminalDone, Tick, ScanEnd, ScanImpossible, ScanWaiting,
       ScanActivate, ScanFail, CompleteControlNode, FailActive, BindTask, DispatchRejected,
       HandlePatchRequest, HandlePatchConfirm, RejectOnConfirm, HandlePatchReject,
       PatchNotFound, Observe, Deliver, Create, Read, Send, Crash, Boot, Serve

\* ... and otherwise keep their node and revision.
LEMMA TasksKept ==
    ASSUME TypeOK, [Next]_vars, ~DispatchTask
    PROVE  /\ DOMAIN tasks' = DOMAIN tasks
           /\ \A i \in DOMAIN tasks : /\ tasks'[i].node = tasks[i].node
                                      /\ tasks'[i].rev = tasks[i].rev
<1>1. tasks \in Seq(TaskRun)
  BY DEF TypeOK
<1>2. ASSUME NEW r \in DOMAIN tasks, NEW st, tasks' = [tasks EXCEPT ![r].status = st]
      PROVE  /\ DOMAIN tasks' = DOMAIN tasks
             /\ \A i \in DOMAIN tasks : /\ tasks'[i].node = tasks[i].node
                                        /\ tasks'[i].rev = tasks[i].rev
  <2>1. \A i \in DOMAIN tasks : tasks[i] \in TaskRun
    BY <1>1, EltTyped
  <2>. QED  BY <1>2, <2>1 DEF TaskRun
<1>3. \/ UNCHANGED tasks
      \/ \E r \in DOMAIN tasks : \E st : tasks' = [tasks EXCEPT ![r].status = st]
  BY TasksMove DEF Settle, SettleCancel, TaskStep, TaskFinish
<1>. QED  BY <1>2, <1>3

\* Rows and graph stay in step.
LEMMA MatchedStep ==
    ASSUME NInv, [Next]_vars
    PROVE  Matched' /\ Born'
<1>. USE DEF NInv, Inv
<1>1. CASE Rests
  <2>1. run.state = "absent" => UNCHANGED <<tasks, patches>> \/ run'.state # "absent"
    <3>. SUFFICES ASSUME run.state = "absent", tasks' # tasks PROVE FALSE
      BY <1>1 DEF Rests, durable
    <3>1. ~up /\ tasks = <<>>
      BY DEF CauseInv, Fresh, Born
    <3>2. DispatchTask \/ Settle \/ TaskStep
      BY TasksMove
    <3>. QED  BY <3>1, <3>2 DEF DispatchTask, Settle, SettleCancel, TaskStep, At
  <2>. QED  BY <1>1, <2>1 DEF Rests, durable, Matched, Born
<1>2. CASE Moves
  BY <1>2, MoveIs DEF Moves, Matched, Born
<1>3. CASE HandlePatchConfirm
  <2>1. run'.state # "absent"
    BY <1>3, UpHasRun, ConfirmIs DEF HandlePatchConfirm, NextEvent, TypeOK, RunRow
  <2>. QED  BY <1>3, <2>1, ConfirmIs DEF Matched, Born
<1>4. CASE Create
  BY <1>4, CreateIs DEF Matched, Born
<1>. QED  BY <1>1, <1>2, <1>3, <1>4, StepMoves DEF NInv

\* A started or completed node keeps completed dependencies: a completed row
\* never moves, except that starting the graph completes its start node.
LEMMA DepsStep ==
    ASSUME NInv, [Next]_vars
    PROVE  DepsRespected'
<1>. USE DEF NInv, Inv
<1>1. rows \in [Node -> NodeRow] /\ graph \in [Node -> NodeDef] /\ Matched
  BY DEF TypeOK
<1>2. \A n \in Node : graph[n].deps \subseteq Node
  BY <1>1 DEF NodeDef
<1>3. CASE Rests
  BY <1>3 DEF Rests, durable, DepsRespected, DepSatisfied
<1>4. ASSUME graph' = graph, rows' = rows
      PROVE  DepsRespected'
  BY <1>4 DEF DepsRespected, DepSatisfied
<1>5. ASSUME NEW k \in Node, graph' = graph, NEW S, Writes(k, S),
             \/ rows[k].state # "done"
             \/ S = {"done"} /\ graph[k].kind = "start",
             S \cap {"running", "waiting", "done"} # {} =>
                 \A d \in graph[k].deps : DepSatisfied(graph, rows, k, d)
      PROVE  DepsRespected'
  <2>. SUFFICES ASSUME NEW n \in Node, rows'[n].state \in {"running", "waiting", "done"},
                       NEW d \in graph[n].deps
                PROVE  DepSatisfied(graph, rows', n, d)
    BY <1>5 DEF DepsRespected
  <2>1. d \in Node
    BY <1>2
  <2>2. PICK s \in S, r \in Int, b \in Node \cup {NoNode} :
           rows' = [rows EXCEPT ![k] = Row(s, r, b)]
    BY <1>5 DEF Writes
  <2>3. /\ \A m \in Node \ {k} : rows'[m] = rows[m]
        /\ rows'[k].state = s
    BY <2>2, <1>1 DEF Row
  <2>4. DepSatisfied(graph, rows, n, d)
    BY <1>5, <2>3 DEF DepsRespected
  <2>. QED  BY <1>5, <2>1, <2>3, <2>4 DEF DepSatisfied
<1>6. CASE Moves
  <2>1. graph' = graph /\ run.state # "absent"
    BY <1>6 DEF Moves
  <2>2. ASSUME NEW k \in Node, Stops(k)
        PROVE  DepsRespected'
    BY <2>1, <2>2, <1>5 DEF Stops
  <2>3. ASSUME NEW k \in Node, Begins(k)
        PROVE  DepsRespected'
    <3>1. \A d \in graph[k].deps : DepSatisfied(graph, rows, k, d)
      BY <2>3 DEF Begins, DependencyStatus
    <3>. QED  BY <2>1, <2>3, <3>1, <1>5 DEF Begins
  <2>4. ASSUME NEW k \in Node, Binds(k) \/ Completes(k)
        PROVE  DepsRespected'
    <3>1. \A d \in graph[k].deps : DepSatisfied(graph, rows, k, d)
      BY <2>4 DEF Binds, Completes, DepsRespected
    <3>. QED  BY <2>1, <2>4, <3>1, <1>5 DEF Binds, Completes
  <2>5. ASSUME NEW k \in Node, Starts(k)
        PROVE  DepsRespected'
    <3>1. graph[k].deps = {} /\ graph[k].kind = "start"
      BY <2>1, <2>5 DEF Starts, Matched, WellFormed, KindOf
    <3>. QED  BY <2>1, <2>5, <3>1, <1>5 DEF Starts
  <2>. QED  BY <1>4, <1>6, <2>1, <2>2, <2>3, <2>4, <2>5 DEF Moves, RowMoves
<1>7. CASE HandlePatchConfirm
  <2>. SUFFICES ASSUME NEW n \in Node, rows'[n].state \in {"running", "waiting", "done"},
                       NEW d \in graph'[n].deps
                PROVE  DepSatisfied(graph', rows', n, d)
    BY DEF DepsRespected
  <2>1. graph'[n] = graph[n] /\ rows'[n] = rows[n]
    BY <1>7, ConfirmIs
  <2>2. DepSatisfied(graph, rows, n, d) /\ d \in Node
    BY <2>1, <1>2 DEF DepsRespected
  <2>3. graph'[d] = graph[d] /\ rows'[d] = rows[d]
    BY <1>7, <2>2, ConfirmIs DEF DepSatisfied
  <2>. QED  BY <2>2, <2>3 DEF DepSatisfied
<1>8. CASE Create
  BY <1>8, CreateIs DEF DepsRespected
<1>. QED  BY <1>3, <1>6, <1>7, <1>8, StepMoves

\* failNode does not activate a node.
LEMMA FailInactive ==
    ASSUME NEW n, NEW r, NEW f \in Frame, FailNode(n, r, f)
    PROVE  fr'.pc # "active"
<1>1. Return(f).pc # "active"
  BY ReturnIs DEF Frame
<1>. QED  BY <1>1 DEF FailNode, Frame

\* The runner activates a node that is planned.
LEMMA Activates ==
    ASSUME NInv, [Next]_vars, fr'.pc = "active"
    PROVE  rows[fr'.cur].state = "planned" \/ (fr.pc = "active" /\ fr.cur = fr'.cur)
<1>. USE DEF NInv, Inv
<1>1. fr \in Frame
  BY DEF TypeOK, FrameOK
<1>2. fr' # IdleFrame /\ \A pc : fr' = Goto(pc) => pc = "active"
  BY DEF Goto, IdleFrame
<1>3. CASE fr' = fr
  BY <1>3
<1>4. ASSUME NEW n \in Node, ScanActivate(n)
      PROVE  rows[fr'.cur].state = "planned"
  <2>1. rows[n].state = "planned" /\ fr.pc = "scan"
    BY <1>4 DEF ScanActivate, Scans, At, Loops, InState
  <2>2. CASE fr' = Visited(n, TRUE)
    BY <1>1, <2>1, <2>2 DEF Visited, Frame
  <2>3. CASE fr' = [Visited(n, TRUE) EXCEPT !.pc = "active", !.cur = n]
    BY <1>1, <2>1, <2>3 DEF Visited, Frame
  <2>. QED  BY <1>4, <2>2, <2>3 DEF ScanActivate
<1>5. ~(RecoverDone \/ HandleStart \/ StartRun \/ HandleResume \/ HandleCancel
        \/ HandleResumeCheckpoint \/ TerminalInterrupted \/ TerminalDone \/ ScanEnd \/ Crash)
  BY <1>2
  DEF RecoverDone, HandleStart, StartRun, HandleResume, HandleCancel,
      HandleResumeCheckpoint, TerminalInterrupted, TerminalDone, ScanEnd, Crash
<1>6. ~(HandleRecover \/ Tick)
  BY <1>2 DEF HandleRecover, Tick, Goto, IdleFrame
<1>7. ~(PauseRun \/ ConvergeCancellation)
  BY <1>1, ReturnIs DEF PauseRun, ConvergeCancellation, Frame
<1>8. ~BeginCancellation
  BY <1>1 DEF BeginCancellation, Frame
<1>9. \A n \in Node : ~CancelNode(n)
  <2>. SUFFICES ASSUME NEW n \in Node, CancelNode(n) PROVE FALSE
    OBVIOUS
  <2>1. \/ fr' = [fr EXCEPT !.todo = @ \ {n}]
        \/ \E r : fr' = [fr EXCEPT !.todo = @ \ {n}, !.pending = @ \cup {r}]
    BY DEF CancelNode
  <2>. QED  BY <1>1, <2>1 DEF CancelNode, At, Frame
<1>10. ~Settle /\ \A n \in Node : ~RecoverReattach(n)
  BY <1>1 DEF Settle, SettleCancel, RecoverReattach, At, Frame
<1>11. \A n \in Node : ~RecoverFail(n)
  <2>1. \A n \in Node : [fr EXCEPT !.recs = @ \ {n}, !.failed = TRUE, !.ret = "recover"] \in Frame
    BY <1>1 DEF Frame
  <2>. QED  BY <2>1, FailInactive DEF RecoverFail
<1>12. ~TerminalFailed
  BY IdleFrameTyped, FailInactive DEF TerminalFailed
<1>13. \A n \in Node : ~ScanImpossible(n) /\ ~ScanWaiting(n)
  BY <1>1 DEF ScanImpossible, ScanWaiting, Scans, At, Visited, Frame
<1>14. \A n \in Node : ~ScanFail(n)
  <2>1. \A n \in Node : [Visited(n, TRUE) EXCEPT !.ret = "scan"] \in Frame
    BY <1>1 DEF Visited, Frame
  <2>. QED  BY <2>1, FailInactive DEF ScanFail
<1>15. ~FailActive
  <2>1. [fr EXCEPT !.ret = "scan"] \in Frame
    BY <1>1 DEF Frame
  <2>. QED  BY <2>1, FailInactive DEF FailActive
<1>16. ~(CompleteControlNode \/ BindTask \/ DispatchRejected)
  BY <1>1 DEF CompleteControlNode, BindTask, DispatchRejected, Scanning, Frame
<1>17. ~DispatchTask
  BY <1>1 DEF DispatchTask, Frame
<1>18. CASE \/ HandlePause \/ HandleIgnored \/ TerminalStale \/ HandlePatchRequest
            \/ HandlePatchConfirm \/ RejectOnConfirm \/ HandlePatchReject \/ PatchNotFound
            \/ TaskStep \/ Observe \/ Create \/ Read \/ (\E e \in ClientEvent : Send(e))
            \/ Boot \/ Serve \/ UNCHANGED vars
  BY <1>3, <1>18
  DEF HandlePause, HandleIgnored, TerminalStale, HandlePatchRequest, HandlePatchConfirm,
      RejectOnConfirm, HandlePatchReject, PatchNotFound, TaskStep, TaskFinish, Observe,
      Deliver, Create, Read, Send, Boot, Serve, vars
<1>. QED
  BY <1>4, <1>5, <1>6, <1>7, <1>8, <1>9, <1>10, <1>11, <1>12, <1>13, <1>14, <1>15, <1>16,
     <1>17, <1>18
  DEF Next, RunnerStep, Client

\* A node's task runs come from different revisions: a row is planned again
\* only by a patch, which makes a new revision.
LEMMA DispatchedStep ==
    ASSUME NInv, [Next]_vars
    PROVE  Dispatched' /\ NoSilentRedispatch'
<1>. USE DEF NInv, Inv
<1>1. /\ tasks \in Seq(TaskRun) /\ run.revision \in Nat
      /\ \A i \in DOMAIN tasks : tasks[i].node \in Node /\ tasks[i].rev \in Nat
  <2>1. tasks \in Seq(TaskRun) /\ run.revision \in Nat
    BY DEF TypeOK, RunRow
  <2>2. \A i \in DOMAIN tasks : tasks[i] \in TaskRun
    BY <2>1, EltTyped
  <2>. QED  BY <2>1, <2>2 DEF TaskRun
<1>2. CASE DispatchTask
  <2>1. /\ fr.pc = "active" /\ fr'.pc = "bind" /\ UNCHANGED <<run, rows>> /\ fr.cur \in Node
        /\ rows[fr.cur].state = "running"
        /\ tasks' = Append(tasks, [node |-> fr.cur, status |-> "live", rev |-> run.revision])
    BY <1>2 DEF DispatchTask, At, durable, TypeOK, FrameOK, Frame, Loops
  <2>2. /\ DOMAIN tasks' = DOMAIN tasks \cup {Len(tasks) + 1}
        /\ \A i \in DOMAIN tasks : tasks'[i] = tasks[i] /\ i < Len(tasks) + 1
        /\ tasks'[Len(tasks) + 1].node = fr.cur /\ tasks'[Len(tasks) + 1].rev = run.revision
    BY <1>1, <2>1
  <2>3. Dispatched'
    BY <1>1, <2>1, <2>2 DEF Dispatched
  <2>4. \A i \in DOMAIN tasks : tasks[i].node = fr.cur => tasks[i].rev < run.revision
    BY <2>1 DEF Dispatched
  <2>5. NoSilentRedispatch'
    <3>. SUFFICES ASSUME NEW i \in DOMAIN tasks', NEW j \in DOMAIN tasks', i < j,
                         tasks'[i].node = tasks'[j].node
                  PROVE  tasks'[i].rev < tasks'[j].rev
      BY DEF NoSilentRedispatch
    <3>1. i \in DOMAIN tasks
      BY <1>1, <2>2
    <3>2. CASE j \in DOMAIN tasks
      BY <2>2, <3>1, <3>2 DEF NoSilentRedispatch
    <3>3. CASE j = Len(tasks) + 1
      BY <2>2, <2>4, <3>1, <3>3
    <3>. QED  BY <2>2, <3>2, <3>3
  <2>. QED  BY <2>3, <2>5
<1>3. CASE ~DispatchTask
  <2>1. /\ DOMAIN tasks' = DOMAIN tasks
        /\ \A i \in DOMAIN tasks : /\ tasks'[i].node = tasks[i].node
                                   /\ tasks'[i].rev = tasks[i].rev
    BY <1>3, TasksKept
  <2>2. NoSilentRedispatch'
    BY <2>1 DEF NoSilentRedispatch
  <2>3. ASSUME run'.revision = run.revision,
               \A m \in Node : rows'[m].state = "planned" => rows[m].state = "planned",
               fr'.pc = "active" =>
                   rows[fr'.cur].state = "planned" \/ (fr.pc = "active" /\ fr.cur = fr'.cur)
        PROVE  Dispatched'
    BY <1>1, <2>1, <2>3 DEF Dispatched
  <2>4. fr'.pc = "active" =>
            rows[fr'.cur].state = "planned" \/ (fr.pc = "active" /\ fr.cur = fr'.cur)
    BY <1>3, Activates
  <2>5. CASE Rests
    BY <2>2, <2>3, <2>4, <2>5 DEF Rests, durable
  <2>6. CASE Moves
    <3>1. \A m \in Node : rows'[m].state = "planned" => rows[m].state = "planned"
      BY <2>6, MoveIs
    <3>. QED  BY <2>2, <2>3, <2>4, <2>6, <3>1 DEF Moves
  <2>7. CASE HandlePatchConfirm
    <3>1. run'.revision = run.revision + 1
      BY <2>7, ConfirmIs DEF TypeOK, RunRow
    <3>. QED  BY <1>1, <2>1, <2>2, <3>1 DEF Dispatched
  <2>8. CASE Create
    <3>1. tasks = <<>>
      BY <2>8 DEF Create, Born
    <3>. QED  BY <2>1, <2>2, <3>1 DEF Dispatched
  <2>. QED  BY <2>5, <2>6, <2>7, <2>8, StepMoves
<1>. QED  BY <1>2, <1>3

\* Patches are stored by a request and consumed by a confirmation or a rejection.
LEMMA PatchesMove ==
    ASSUME [Next]_vars
    PROVE  \/ HandlePatchRequest \/ HandlePatchConfirm \/ RejectOnConfirm
           \/ HandlePatchReject \/ UNCHANGED patches
BY DEF Next, RunnerStep, Client, vars, durable, HandleRecover, RecoverDone, RecoverReattach,
       RecoverFail, PauseRun, BeginCancellation, ConvergeCancellation, CancelNode,
       HandleStart, StartRun, HandlePause, HandleResume, HandleCancel,
       HandleResumeCheckpoint, HandleIgnored, TerminalStale, TerminalInterrupted,
       TerminalFailed, TerminalDone, Tick, ScanEnd, ScanImpossible, ScanWaiting,
       ScanActivate, ScanFail, CompleteControlNode, FailActive, DispatchTask, BindTask,
       DispatchRejected, PatchNotFound, Settle, SettleCancel, TaskStep, TaskFinish,
       Observe, Deliver, Create, Read, Send, Crash, Boot, Serve

\* Consuming a patch changes its status only, and no other patch.
LEMMA ConsumeIs ==
    ASSUME TypeOK, NEW q, Pending(q), NEW s, patches' = Consume(q, s)
    PROVE  /\ DOMAIN patches' = DOMAIN patches
           /\ \A p \in DOMAIN patches :
                 /\ patches'[p].base = patches[p].base /\ patches'[p].ops = patches[p].ops
                 /\ patches'[p].post = patches[p].post
                 /\ patches'[p].status = IF p = q THEN s ELSE patches[p].status
<1>1. patches \in Seq(Patch) /\ q \in DOMAIN patches
  BY DEF TypeOK, Pending
<1>2. \A p \in DOMAIN patches : patches[p] \in Patch
  BY <1>1, EltTyped
<1>. QED  BY <1>1, <1>2 DEF Consume, Patch

\* A stored preview stays true until the revision it was made for is left.
LEMMA PreviewsStep ==
    ASSUME NInv, [Next]_vars
    PROVE  Previews'
<1>. USE DEF NInv, Inv
<1>1. /\ patches \in Seq(Patch) /\ run \in RunRow /\ run.revision \in Nat
      /\ \A p \in DOMAIN patches : patches[p].base \in Nat
  <2>1. patches \in Seq(Patch) /\ run \in RunRow
    BY DEF TypeOK
  <2>2. \A p \in DOMAIN patches : patches[p] \in Patch
    BY <2>1, EltTyped
  <2>. QED  BY <2>1, <2>2 DEF Patch, RunRow
<1>2. CASE UNCHANGED patches
  <2>1. CASE Rests \/ Moves
    BY <1>2, <2>1 DEF Rests, durable, Moves, Previews
  <2>2. CASE HandlePatchConfirm
    <3>1. run'.revision = run.revision + 1
      BY <2>2, <1>1 DEF HandlePatchConfirm, RunRow
    <3>. QED  BY <1>1, <1>2, <3>1 DEF Previews
  <2>3. CASE Create
    <3>1. patches = <<>>
      BY <2>3 DEF Create, Born
    <3>. QED  BY <1>2, <3>1 DEF Previews
  <2>. QED  BY <2>1, <2>2, <2>3, StepMoves
<1>3. CASE HandlePatchRequest
  <2>1. UNCHANGED <<run, graph>>
    BY <1>3 DEF HandlePatchRequest
  <2>2. CASE UNCHANGED patches
    BY <2>1, <2>2 DEF Previews
  <2>3. CASE /\ Ev.base = run.revision
             /\ patches' = Append(patches, [base |-> Ev.base, ops |-> Ev.ops,
                                            post |-> PostImage(graph, Ev.ops),
                                            status |-> "pending"])
    <3>1. /\ DOMAIN patches' = DOMAIN patches \cup {Len(patches) + 1}
          /\ \A p \in DOMAIN patches : patches'[p] = patches[p]
          /\ patches'[Len(patches) + 1].base = run.revision
          /\ patches'[Len(patches) + 1].post =
                PostImage(graph, patches'[Len(patches) + 1].ops)
      BY <1>1, <2>3
    <3>. QED  BY <1>1, <2>1, <3>1 DEF Previews
  <2>. QED  BY <1>3, <2>2, <2>3 DEF HandlePatchRequest
<1>4. CASE RejectOnConfirm \/ HandlePatchReject
  <2>1. PICK q : Pending(q) /\ patches' = Consume(q, "rejected") /\ UNCHANGED <<run, graph>>
    BY <1>4 DEF RejectOnConfirm, HandlePatchReject
  <2>. QED  BY <2>1, ConsumeIs DEF Previews
<1>5. CASE HandlePatchConfirm
  <2>1. run'.revision = run.revision + 1
    BY <1>5, <1>1 DEF HandlePatchConfirm, RunRow
  <2>2. PICK q : Pending(q) /\ patches' = Consume(q, "applied")
    BY <1>5 DEF HandlePatchConfirm
  <2>. QED  BY <1>1, <2>1, <2>2, ConsumeIs DEF Previews
<1>. QED  BY <1>2, <1>3, <1>4, <1>5, PatchesMove

\* Before the graph is created the invariant holds.
LEMMA NInvInit == Init => NInv
<1>. SUFFICES ASSUME Init PROVE NInv
  OBVIOUS
<1>1. Inv
  BY InvInit
<1>2. Frames /\ Loops
  BY DEF Init, Frames, Loops, IdleFrame
<1>3. \A n \in Node : rows[n].state = "none" /\ graph[n].kind = "absent"
  BY DEF Init, NoRow, Row, AbsentDef
<1>4. Born /\ Matched /\ DepsRespected
  BY <1>3 DEF Init, Born, Matched, DepsRespected
<1>5. Dispatched /\ NoSilentRedispatch /\ Previews
  BY DEF Init, Dispatched, NoSilentRedispatch, Previews
<1>. QED  BY <1>1, <1>2, <1>4, <1>5 DEF NInv

\* A step keeps it.
LEMMA NInvStep ==
    ASSUME NInv, [Next]_vars
    PROVE  NInv'
<1>1. Inv'
  BY TypeStep, CauseStep DEF NInv, Inv
<1>. QED
  BY <1>1, FramesStep, MatchedStep, LoopsStep, DepsStep, DispatchedStep, PreviewsStep
  DEF NInv

(***************************************************************************)
(* Theorems.                                                               *)
(***************************************************************************)

\* The inductive invariant holds in every reachable state.
THEOREM NodeInvariance == Spec => []NInv
<1>1. NInv /\ [Next]_vars => NInv'
  BY NInvStep
<1>. QED  BY <1>1, NInvInit, PTL DEF Spec

\* A node that started or completed did so with its dependencies completed and
\* chosen, through recovery, checkpoints, pauses and patches.
THEOREM DepsRespectedHolds == Spec => []DepsRespected
<1>1. NInv => DepsRespected
  BY DEF NInv
<1>. QED  BY <1>1, NodeInvariance, PTL

\* No node is dispatched twice for one definition, however often the daemon
\* restarts between the dispatch and the write of the run id.
THEOREM NoSilentRedispatchHolds == Spec => []NoSilentRedispatch
<1>1. NInv => NoSilentRedispatch
  BY DEF NInv
<1>. QED  BY <1>1, NodeInvariance, PTL

\* Task runs start only while the graph runs and is not being cancelled.
THEOREM DispatchOnlyWhileRunningHolds == Spec => DispatchOnlyWhileRunning
<1>1. NInv /\ [Next]_vars =>
         [tasks' # tasks /\ Len(tasks') > Len(tasks) =>
             run.state = "running" /\ ~run.cancelRequested]_vars
  <2>. SUFFICES ASSUME NInv, [Next]_vars, Len(tasks') > Len(tasks)
                PROVE  run.state = "running" /\ ~run.cancelRequested
    OBVIOUS
  <2>1. CASE DispatchTask
    BY <2>1 DEF NInv, Loops, Schedulable, DispatchTask, At
  <2>2. CASE ~DispatchTask
    <3>1. tasks \in Seq(TaskRun) /\ tasks' \in Seq(TaskRun)
      BY TypeStep DEF NInv, Inv, TypeOK
    <3>2. DOMAIN tasks' = DOMAIN tasks
      BY <2>2, TasksKept DEF NInv, Inv
    <3>. QED  BY <3>1, <3>2
  <2>. QED  BY <2>1, <2>2
<1>. QED  BY <1>1, NodeInvariance, PTL DEF Spec, DispatchOnlyWhileRunning

\* A patch never edits a node that has left planned or failed.
THEOREM StartedNodesFrozenHolds == Spec => StartedNodesFrozen
<1>1. NInv /\ [Next]_vars =>
         [\A n \in Node :
             rows[n].state \in {"running", "waiting", "done", "interrupted",
                                "cancelled"} => graph'[n] = graph[n]]_vars
  <2>. SUFFICES ASSUME NInv, [Next]_vars, NEW n \in Node,
                       rows[n].state \in {"running", "waiting", "done", "interrupted",
                                          "cancelled"}
                PROVE  graph'[n] = graph[n]
    OBVIOUS
  <2>1. CASE Rests \/ Moves
    BY <2>1 DEF Rests, durable, Moves
  <2>2. CASE HandlePatchConfirm
    BY <2>2, ConfirmIs DEF NInv, Inv
  <2>3. CASE Create
    BY <2>3 DEF Create, NInv, Born
  <2>. QED  BY <2>1, <2>2, <2>3, StepMoves
<1>. QED  BY <1>1, NodeInvariance, PTL DEF Spec, StartedNodesFrozen

\* Confirming a patch makes exactly the graph that was previewed.
THEOREM ConfirmAppliesPreviewHolds == Spec => ConfirmAppliesPreview
<1>1. NInv /\ [Next]_vars =>
         [\A p \in DOMAIN patches :
             patches[p].status = "pending" /\ patches'[p].status = "applied" =>
                 graph' = patches[p].post]_vars
  <2>. SUFFICES ASSUME NInv, [Next]_vars, NEW p \in DOMAIN patches,
                       patches[p].status = "pending", patches'[p].status = "applied"
                PROVE  graph' = patches[p].post
    OBVIOUS
  <2>1. patches \in Seq(Patch)
    BY DEF NInv, Inv, TypeOK
  <2>2. CASE HandlePatchConfirm
    <3>1. /\ Pending(Ev.patch) /\ patches' = Consume(Ev.patch, "applied")
          /\ patches[Ev.patch].base = run.revision
          /\ graph' = PostImage(graph, patches[Ev.patch].ops)
      BY <2>2 DEF HandlePatchConfirm, Applicable
    <3>2. p = Ev.patch
      BY <3>1, ConsumeIs DEF NInv, Inv
    <3>. QED  BY <3>1, <3>2 DEF NInv, Previews
  <2>3. CASE HandlePatchRequest
    BY <2>1, <2>3 DEF HandlePatchRequest
  <2>4. CASE RejectOnConfirm \/ HandlePatchReject
    <3>1. PICK q : Pending(q) /\ patches' = Consume(q, "rejected")
      BY <2>4 DEF RejectOnConfirm, HandlePatchReject
    <3>. QED  BY <3>1, ConsumeIs DEF NInv, Inv
  <2>. QED  BY <2>2, <2>3, <2>4, PatchesMove
<1>. QED  BY <1>1, NodeInvariance, PTL DEF Spec, ConfirmAppliesPreview
=============================================================================
