---------------------------- MODULE MCTaskGraph ----------------------------
(* Instances of TaskGraphRunner for TLC: small graphs and patches. *)
EXTENDS TaskGraphRunner

D(kind, deps, branches) ==
    [kind |-> kind, deps |-> deps, branches |-> branches]

\* start 1; tasks 2 and 3; end 4 needs only 2, so 3 can outlive the graph.
Parallel == <<D("start", {}, {}), D("task", {1}, {}), D("task", {1}, {}),
              D("end", {2}, {})>>

\* start 1; tasks 2 then 3; end 4.
Chain == <<D("start", {}, {}), D("task", {1}, {}), D("task", {2}, {}),
           D("end", {3}, {})>>

\* start 1; condition 2 chooses checkpoint 3 or task 4; end 5 needs 3.
Branching == <<D("start", {}, {}), D("condition", {1}, {3, 4}),
               D("checkpoint", {2}, {}), D("task", {2}, {}),
               D("end", {3}, {})>>

\* start 1; convert 2; checkpoint 3; join 4 of both; end 5.
Assembly == <<D("start", {}, {}), D("convert", {1}, {}),
              D("checkpoint", {1}, {}), D("join", {2, 3}, {}),
              D("end", {4}, {})>>

\* start 1; task 2; end 3; id 4 unused.
Short == <<D("start", {}, {}), D("task", {1}, {}), D("end", {2}, {}), AbsentDef>>

\* start 1; checkpoint 2, which the end does not need; task 3; end 4.
Aside == <<D("start", {}, {}), D("checkpoint", {1}, {}), D("task", {1}, {}),
           D("end", {3}, {})>>

Op(op, id, def) == [op |-> op, id |-> id, def |-> def]

ParallelGraphs  == {Parallel}
\* The control nodes, and Parallel with an unused fifth id.
ControlGraphs   == {Branching, Assembly, Append(Parallel, AbsentDef)}
ShortGraphs     == {Short}
LifecycleGraphs == {Parallel, Chain, Aside}
NoPatches       == {}

\* Replace the task; add a second one that the end waits for; remove the end;
\* a patch that closes a cycle.
ShortPatches ==
    {{Op("ReplaceNode", 2, D("task", {1}, {}))},
     {Op("AddNode", 4, D("task", {1}, {})),
      Op("ReplaceNode", 3, D("end", {2, 4}, {}))},
     {Op("RemoveNode", 3, AbsentDef)},
     {Op("AddNode", 4, D("task", {3}, {})),
      Op("ReplaceNode", 3, D("end", {4}, {}))}}

AllSignals == GraphSignals \cup {"resume_checkpoint"}
StartOnly  == {"start_graph"}
PatchSignals == {"start_graph", "resume_graph"}
============================================================================
