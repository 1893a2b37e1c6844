------------------------------ MODULE TaskGraph ------------------------------
(***************************************************************************)
(* The structure of a task graph and the pure functions the runner         *)
(* evaluates over it: full-graph validation of a patched post-image        *)
(* (core/taskgraph/validator.mts), dependency status of a node and the     *)
(* completed end node (core/taskgraph/runner.mts).                         *)
(*                                                                         *)
(* A node id is a positive number; the code's string order on ids (rows    *)
(* are read ORDER BY node_id, cancellation sorts its keys) is the order on *)
(* numbers.  Schemas, input slots, prompts and task parameters are         *)
(* abstracted away: what they can do to control is to make an activation,  *)
(* a completion or a patch fail, and the runner module allows that.        *)
(***************************************************************************)
EXTENDS Integers, FiniteSets

CONSTANT Node       \* ids a graph may use

ASSUME NodeAssumption == Node \subseteq Nat \ {0}

NoNode == 0

\* action.type of a node; "absent" marks an id the graph does not contain.
Kind == {"absent", "start", "task", "checkpoint", "condition",
         "convert", "join", "end"}

\* branches: the node ids a condition's cases and default name.
NodeDef == [kind : Kind, deps : SUBSET Node, branches : SUBSET Node]

AbsentDef == [kind |-> "absent", deps |-> {}, branches |-> {}]

\* The ids graph g contains.
Ids(g) == {n \in Node : g[n].kind # "absent"}

KindOf(g, k) == {n \in Node : g[n].kind = k}

\* One patch operation.  def is AbsentDef for RemoveNode.
PatchOp == [op : {"AddNode", "RemoveNode", "ReplaceNode"},
            id : Node, def : NodeDef]

(***************************************************************************)
(* validateTaskGraphPostImage.  A patch is a set of operations on pairwise *)
(* different ids, so their order does not matter.  state[n] is the node's  *)
(* run state.                                                              *)
(***************************************************************************)

Editable(state, n) == state[n] \in {"planned", "failed"}

OpAllowed(g, state, o) ==
    IF o.op = "AddNode" THEN o.id \notin Ids(g)
                        ELSE o.id \in Ids(g) => Editable(state, o.id)

PostImage(g, ops) ==
    [n \in Node |->
        IF \E o \in ops : o.id = n
        THEN LET o == CHOOSE o \in ops : o.id = n
             IN  IF o.op = "RemoveNode" THEN AbsentDef ELSE o.def
        ELSE g[n]]

\* Every non-empty set of nodes has a member that depends on none of them.
Acyclic(g) ==
    \A S \in SUBSET Ids(g) :
        S # {} => \E n \in S : g[n].deps \cap S = {}

WellFormed(g) ==
    /\ \E s \in Node : KindOf(g, "start") = {s} /\ g[s].deps = {}
    /\ \A n \in KindOf(g, "convert") : Cardinality(g[n].deps) = 1
    /\ \A n \in KindOf(g, "join") : Cardinality(g[n].deps) >= 2
    /\ \A n \in Ids(g) : g[n].deps \subseteq Ids(g)
    /\ \A n \in KindOf(g, "condition") :
          /\ g[n].branches # {}
          /\ \A b \in g[n].branches : b \in Ids(g) /\ n \in g[b].deps
    /\ Acyclic(g)

ValidPatch(g, state, ops) ==
    /\ \A o \in ops : OpAllowed(g, state, o)
    /\ WellFormed(PostImage(g, ops))

(***************************************************************************)
(* What the scheduler reads of a graph whose node rows are r (r[n].state,  *)
(* and r[n].branch, the branch a completed condition chose).               *)
(***************************************************************************)
DepSatisfied(g, r, n, d) ==
    /\ r[d].state = "done"
    /\ g[d].kind = "condition" => r[d].branch = n

DepPending(r, d) == r[d].state \in {"planned", "running", "waiting"}

\* Mutant: the branch a condition chose is not looked at.
DependencyStatusNoBranch(g, r, n) ==
    CASE \E d \in g[n].deps : r[d].state # "done" /\ ~DepPending(r, d)
            -> "impossible"
      [] \A d \in g[n].deps : r[d].state = "done" -> "satisfied"
      [] OTHER -> "waiting"

DependencyStatus(g, r, n) ==
    CASE \E d \in g[n].deps : ~DepSatisfied(g, r, n, d) /\ ~DepPending(r, d)
            -> "impossible"
      [] \A d \in g[n].deps : DepSatisfied(g, r, n, d)
            -> "satisfied"
      [] OTHER -> "waiting"

CompletedEnd(g, r) == \E n \in KindOf(g, "end") : r[n].state = "done"
==============================================================================
