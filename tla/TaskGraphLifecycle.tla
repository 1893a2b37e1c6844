-------------------------- MODULE TaskGraphLifecycle --------------------------
(***************************************************************************)
(* What a task graph promises its clients, with no runner, queue, task run *)
(* or crash in sight: the life of the graph, the stage each node is in,    *)
(* and the cause of an unattended failure.  TaskGraphRunner implements it  *)
(* under the mapping given there.                                          *)
(***************************************************************************)
CONSTANTS Node, NoNode

VARIABLES
    state,      \* "absent", "created", "running", "paused", "done", "cancelled"
    stage,      \* per node: "absent", "planned", "active" (a task or a control step),
                \* "waiting" (a checkpoint that asks for an answer), "settled"
    cause       \* the node whose failure ended the graph, or NoNode

vars == <<state, stage, cause>>

Live == {"created", "running", "paused"}

Active == {n \in Node : stage[n] \in {"active", "waiting"}}

Init == state = "absent" /\ stage = [n \in Node |-> "absent"] /\ cause = NoNode

Create ==
    /\ state = "absent" /\ state' = "created"
    /\ stage' \in [Node -> {"absent", "planned"}]
    /\ UNCHANGED cause

\* The graph starts, pauses and resumes, and ends in one of two ways; it is
\* cancelled only once nothing is active.
Move(from, to) == state = from /\ state' = to /\ UNCHANGED <<stage, cause>>

Control == \/ Move("created", "running") \/ Move("running", "paused")
           \/ Move("paused", "running") \/ Move("running", "done")

Cancel == /\ state \in Live /\ Active = {}
          /\ state' = "cancelled" /\ UNCHANGED <<stage, cause>>

\* Work begins only in a running graph, on a node that was planned.
Activate(n) ==
    /\ state = "running" /\ stage[n] = "planned"
    /\ \E s \in {"active", "waiting"} : stage' = [stage EXCEPT ![n] = s]
    /\ UNCHANGED <<state, cause>>

\* A node ends; the first failure of an unattended graph is its cause.
Settle(n) ==
    /\ state \in Live /\ stage[n] \in {"planned", "active", "waiting"}
    /\ stage' = [stage EXCEPT ![n] = "settled"]
    /\ (cause' = cause \/ (cause = NoNode /\ cause' = n))
    /\ UNCHANGED state

\* A node that runs nothing ends at any time, the end of the graph included: a
\* planned one is dropped, a checkpoint is answered.
Drop(n) ==
    /\ stage[n] \in {"planned", "waiting"}
    /\ stage' = [stage EXCEPT ![n] = "settled"]
    /\ UNCHANGED <<state, cause>>

\* A patch: nodes come, go or are planned again; active nodes are untouchable.
Revise ==
    /\ state # "absent"
    /\ stage' \in [Node -> {"absent", "planned", "active", "waiting", "settled"}]
    /\ \A n \in Node :
          stage'[n] # stage[n] => /\ n \notin Active
                                  /\ stage'[n] \in {"absent", "planned"}
    /\ UNCHANGED <<state, cause>>

Next == \/ Create \/ Control \/ Cancel \/ Revise
        \/ \E n \in Node : Activate(n) \/ Settle(n) \/ Drop(n)

Spec == Init /\ [][Next]_vars
==============================================================================
