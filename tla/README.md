# Verification of wrenyard

wrenyard is a local-first workbench for coding agents. A daemon on the user's
machine runs agent tasks, graphs of such tasks, chat sessions and bots, routes
their model calls through a gateway to many providers, and serves a desktop
application and a command line over a local control channel. This directory
holds TLA+ models of the parts whose correctness rests on ordering, failure and
recovery, the TLC runs that check them, and TLAPS proofs about them.

## 1. Inventory

| Component | State it keeps | Operations | Talks to | What is hard |
|---|---|---|---|---|
| Task graph runner (`core/taskgraph/runner.mts`, `store.mts`, `service.mts`) | SQLite rows of a graph, its nodes, journal and patches; in memory one event queue per graph and the set of observed task runs | create, signal (start, pause, resume, cancel, resume a checkpoint), patch request / confirm / reject, task terminals, recovery, startup reconciliation | task service through `task-bridge.mts`; clients through the service | several durable writes per handler, awaits inside handlers, crash anywhere, terminals that come late, cancels that fail |
| Task graph structure (`validator.mts`) | none | validation of a patched graph, dependency status | runner | cycles, frozen nodes, branches |
| Gateway route state (`gateway/src/route-state.ts`) | fault blocks per scope, generations, tombstones, timers | admit, mark, success, credential observed, provider cleared, expiry | gateway pipeline, execution kernel | completions of concurrent requests that arrive after the scope changed; bounded tombstones |
| Gateway pipeline and relay (`pipeline.ts`, `relay.ts`, `health.ts`) | one request's attempts | credential, admission, upstream call, retry after refresh, stream relay | route state, providers | outcomes classified after the stream began |
| Exec service (`exec/src/service.ts`, `replay.ts`) | registered executions, bounded replay buffers | start, queue, cancel, close, drain, read events, prune | agent clients, desktop lane | cancel racing start, close racing start, retention racing readers |
| Desktop lane (`daemon/execution/operation-adapter.mts`) | owner, number of holds, waiting runs | acquire, abort, release, close, adopt | exec service, supervisor | retries that join, waiters that give up, a process that survived a restart |
| Agent supervisor, execution kernel (`daemon/execution/`) | `executions` rows, registry, repository write locks, timers | admit, promote, launch, cancel, time out, close, shut down, reconcile at startup | exec service, task service | a loop that awaits launches, bounds that race the stream, locks released on every path |
| Task service (`core/task/service.mts`) | task runs | start, cancel, wait, recover | supervisor, task graphs | restart with runs in flight |
| Session ledger (`session/src/ledger/store.ts`) | append-only event files and an index | append, load, compact, repair | turn engine | torn tail after a crash |
| Session turn engine (`session/src/turn/`) | one running turn per session, live state | start, steer, interrupt, compact | ledger, model calls | interruption racing completion |
| Bot kernel, scheduler (`services/bot-agents/`, `scheduler.mts`) | wake queues, watches, routines | wake, watch, run, restart | sessions, task graphs | missed or doubled wakes |
| Daemon (`daemon.mts`, `control/`, `supervisor.mjs`) | instance lock, services | start, reconcile, serve, stop | everything | order of startup |
| Storage, events, projects, vcs | database, files | CRUD | everything | I/O |
| Desktop, CLI, providers, clients, protocol | user interface and catalogues | | daemon | I/O |

`PROJECT.json` lists every component with its sources and status, and under
`hazards` the places where the code is exposed to something a test hardly
reaches.

What makes the task graph correct:

* a node runs only when its dependencies, with the branches conditions chose,
  allow it, and at most once per definition, across crashes;
* pausing stops scheduling, cancelling stops everything and really ends, a
  terminal state is final;
* no completion of a task is lost and no graph is left that nothing can move;
* the first failure is the recorded cause;
* a patch applies exactly what was previewed, and never to a node that started.

What makes the route state correct:

* a request that completes late neither rebuilds a fault that was cleared nor
  clears one that is newer than the request, with any number of requests in
  flight and although old generations are evicted;
* the memory for that stays bounded, and eviction refuses no more than documented;
* the instant a refused caller is told is one it can rely on;
* every block ends, with or without traffic.

What makes the executions correct:

* no agent process outlives its run, or the daemon, without having been told to
  stop, however a cancel, a deadline or a shutdown races its start;
* two runs never drive the desktop, and two writers never edit the same files, at
  once; what a run holds is given back on every path, and nobody waits for ever
  (sections 5 and 6 say where the code stops short of these two: a stop that cannot be
  confirmed, a consumer that fails, a process that survives a restart);
* a stop takes effect although the stream of the process never ends, and the first
  decided outcome stays;
* a reader of a run's events misses nothing silently and never hangs;
* a queued execution that could run is not left standing.

## 2. Plan

1. `TaskGraph`, `TaskGraphRunner`, `TaskGraphLifecycle` and their proofs, the
   refinement included: done.
2. `RouteState`, the gateway's fault scopes with concurrent requests, and its proofs:
   done.
3. `DesktopLane` and `ExecService` (start, cancel, close, drain, retention, readers)
   and their proofs: done.
4. `AgentSupervisor` with the repository write locks, and its proofs: done. Left: the
   execution kernel's retries and the task service above it, and the task graph's
   bridge composed with the task service's restart.
5. `SessionLedger`, `SessionTurn`; then `BotKernel`, `Scheduler`.
6. Proofs left: none of the safety properties the runs check; the properties that are
   only model-checked are liveness, which is outside the prover's reach.

## 3. The task graph

### Modules

`TaskGraph` holds the pure part: what a graph is, `ValidPatch` (the validator),
`DependencyStatus` and `CompletedEnd` (what `tick` reads). Node ids are positive
numbers, so that the code's order on ids is the order on numbers.

`TaskGraphRunner` is the state machine of one graph.

| Variable | Code |
|---|---|
| `run` | `taskgraph_run` row: state, cancel intent, policy, failure cause, graph revision |
| `graph`, `rows`, `patches` | `taskgraph_graph`, `taskgraph_node_state`, `taskgraph_patch` |
| `failedLog` | the node ids of the journal's `taskgraph.node.failed` rows, in order |
| `tasks` | the task runs started through the bridge; they outlive the daemon |
| `phase`, `up` | daemon process; whether a `GraphRunner` exists |
| `queue`, `observed` | the runner's event queue and `observedTaskRuns` |
| `fr` | where the current handler is, and its locals |
| `crashes` | counter for the bound |

The runner handles one event at a time (`pump`). A handler is cut into actions
where it awaits and where two durable writes are separate commits, because other
actors can move, or the process can die, exactly there. `fr.pc` names the cut:
`recover` (the loop of `handleRecover`), `pauseRun` (after the failed row, before
the paused state), `begin` and `cancel` (`beginCancellation`), `started`,
`tick`, `scan` (one pass of `tick`), `active` and `bind` (`activateNode`,
`dispatchTask`). One transaction in the code is one action in the model.

Actions: clients `Create`, `Send`, `Read`; the process `Crash`, `Boot`, `Serve`;
the bridge and the tasks `TaskFinish`, `Deliver`, `SettleCancel`; and the runner's
handlers, named after the methods they model. `HandleSignal` with `Accepts` is
`decideTaskGraphSignal`.

Abstraction. Values, schemas, prompts and parameters do not appear: what they can
do to control is to make an activation, a completion, a signal or a patch fail,
and the model allows that wherever the code checks (`ScanFail`, `FailActive`,
`HandleIgnored`, `RejectOnConfirm`, a task run that ends as not usable). SQLite
transactions are atomic and durable. The order in which one pass visits nodes is
any order that respects dependencies.

`TaskGraphLifecycle` is what the runner promises to a reader of the tables: the
states of the graph and the stages of its nodes with the only moves between
them. `ImplementsLifecycle` says that the runner, with its queue, its separate
commits and its crashes, implements it (rows map to stages by `Stage`). A checkpoint
that waits is a stage of its own: the code answers it whatever the state of the graph,
so a checkpoint that the end of the graph does not depend on can be answered, and so
settle, after the graph is done, where a running node can not.

`MCTaskGraph` defines the graphs, patches and signal sets of the runs.

### Runs

| Run | Instance | Shows |
|---|---|---|
| `taskgraph_core` | two-task graphs and one with a checkpoint aside, both policies, queue of 2, one crash anywhere | `TypeOK`; nothing stuck (`NoStuckGraph`), lost (`NoLostTerminal`), dispatched twice (`NoSilentRedispatch`), dispatched while not running (`DispatchOnlyWhileRunning`) or changed after the end (`TerminalIsFinal`); refinement (`ImplementsLifecycle`) |
| `taskgraph_control` | condition, checkpoint, convert and join graphs, one crash, fairness | dependencies with branches (`DepsRespected`); cancellation converges, a running graph settles |
| `taskgraph_patch` | two patches that add, remove and replace, one crash, a bridge whose reattach may throw | `FirstCause`, `StartedNodesFrozen`, `ConfirmAppliesPreview` |
| `taskgraph_intent` | violation | an ended graph gets its cancel intent back (finding) |
| `taskgraph_pause_policy` | violation | a crash inside `failNode` skips the pause (finding) |

Bounds. `MaxQueue` bounds what clients send ahead: two queued events give every
order of a signal and a terminal, or two signals. Events the runner or the bridge
queue are not bounded. `MaxCrashes` 1 puts a crash at every step including
recovery's. `MaxPatches` 2 is a stale preview. Two tasks are the smallest graph
with a failure of one while the other is in flight. `ReattachMayThrow` is TRUE only
in `taskgraph_patch`: the shipped bridge's `reattach` never throws, but the code
handles it. With a bridge that threw, recovery of a done graph that has a leftover
running row would move it out of `done`, and a cancelling graph of the pause policy
could get stuck, so the other two runs are stated for the shipped bridge.

Deadlock is checked in these runs: a client may always send one more signal.

Fairness (`FairSpec`, `taskgraph_control` only). The runner's pump, a bridge cancel
that settles, a task that ends (every task has a timeout), the poll of an observed
run, and the restart of the daemon are weakly fair. Clients are not: nobody has
to resume a paused graph.

### Findings

Both are in `PROJECT.json` with the lines. (1) `repairCancelPolicyFailure` tests
intent *and* cause; an ended graph has a cause and, by `finishCancelled`, no
intent, so recovery writes the intent again and nothing clears it. (2) A
pause-policy failure is two commits; a crash between them leaves a running graph
with a failed node, which recovery schedules to a terminal `cancelled` instead of
pausing.

### Proofs

For every set of node ids, every set of well-formed initial graphs, patches and
signals, and every bound (the module's `ASSUME`s, which TLC evaluates on every
run). Three modules, each on top of the one before, each with an inductive invariant
that TLC checked on the three instances before it was proved.

`TaskGraphRunner_proofs`: `TypeCorrect` (`Spec => []TypeOK`) and `FirstCauseHolds`
(`Spec => []FirstCause`), from `Inv == TypeOK /\ CauseInv`. Type
correctness alone is not inductive: `repairCancelPolicyFailure` may write as cause
the result of a search of the journal, which is a node id only because a failed
row has left a journal row (`FailuresLogged`), and under the cancel policy the
cause is then already there (`FirstCause`), so that recovery's repair never
replaces it. `Fresh` says that before creation there is no runner and no failure,
which `Create` needs. The proof has one step per action (`TypeStep`, `CauseStep`);
`failNode` is one lemma used by its five callers.

`TaskGraphNodes_proofs`: `DepsRespectedHolds`, `NoSilentRedispatchHolds`,
`DispatchOnlyWhileRunningHolds`, `StartedNodesFrozenHolds` and
`ConfirmAppliesPreviewHolds`, with no condition on the bridge, from `NInv`. Its parts
tie the handler's locals to the tables: `Frames` says which locals are live at which
control point, `Loops` that what a pass still has to visit is planned and that a node
being activated runs in a graph that may schedule (awaits inside `tick` do not break
this, because only the runner itself writes the run), `Matched` that rows and graph
agree, `Dispatched` that a node that may still be dispatched has no task run of the
current revision, and `Previews` that a pending patch on the current revision stores
what applying it now yields.

`TaskGraphEnds_proofs`: `NoStuckGraphHolds`, `NoLostTerminalHolds`,
`TerminalIsFinalHolds` and `LifecycleImplemented`, from `EInv`. These assume
`~ReattachMayThrow`, the shipped bridge: with one that throws they are false (see the
bounds above). The parts of `EInv`:

| Part | Why it is needed |
|---|---|
| `RecoverFirst` | a runner made by a restart handles nothing before its recovery |
| `OneUnbound` | a running row without a task run exists only during its own activation, or until recovery fails it; so recovery fails a node only in a graph that may schedule, and never moves an ended one |
| `StateRows` | what the state of the run says of the rows (a created graph has nothing active, a cancelled one neither, a started one has its start done) |
| `Points` | the state of the run at the control points that write it without looking again (`started`, `pauseRun`, `begin`, `cancel`) |
| `Swept` | a cancellation that returned with the graph alive left running tasks and no checkpoint |
| `InFlight`, `Passed` | a pass that changed nothing found every planned node waiting; in an acyclic graph (`WaitsInFlight`) one of them then waits for a node in flight |
| `Watched` | `NoLostTerminal` with the control points that own a node named |

`StepIs` reduces every action to one of five ways to move the tables (the run moves, a
row moves, a node fails, a patch is confirmed, the graph is created), each with the
condition under which the code takes it. `TerminalIsFinal` and the refinement follow
from it: a way to move is a step of the lifecycle or none (`LifecycleStep`). An earlier
form of the lifecycle, in which nothing active settled in an ended graph, failed in
this proof at the answer of a checkpoint; TLC had not met the case because no graph of
the run had a checkpoint beside its end. Both were corrected.

### Only model-checked

`CancelConverges` and `RunSettles`: liveness and `ENABLED` are out of the prover's reach.

## 4. The gateway's route state

### Modules

`RouteState` is `RouteStateStore` with the requests that run against it. A fault
scope (a provider, a route, a quota pool) is a key; keys are positive numbers, no
two providers share one.

| Variable | Code |
|---|---|
| `store.blocks` | `blocks`; `open` is `phase`, `cred` the fingerprint an auth fault carries, `timer` when its timer fires |
| `store.gens`, `store.seq`, `store.floor` | `generations` (0: no entry), `sequence`, `retiredFloor` |
| `calls` | one HTTP request or native attempt each: the route, the credential it read, its `RouteGuard` |
| `cred`, `funding` | the provider's configured credential; `effectivePools` |
| `now` | the injected clock |
| `truth` | history: the last generation of every scope, as if nothing were evicted |
| `promise` | history: the instant the route was last refused with |

The methods are synchronous, so each call is one action, trailing eviction
(`Commit`) and expiry on read included; requests interleave between admission and
completion. `BeginRequest`, `Admit`, `Refresh`, `Succeed`, `Fault`, `Late` and
`Drop` are the pipeline, `AdmitNative` the execution kernel; a native attempt
reports its fault without a credential and reads the status back (`ReadBack`).
`ListModels`, `Status`, `TimerFires`, `ClearProvider` are the other callers;
`Rotate`, `SwitchFunding` and `Tick` the environment.

Abstraction. The classification of an answer is the set of failures it can yield
(`Failure`); fault kinds, texts, HTTP statuses and emitted events are left out.
A removal of several scopes numbers them in key order where the code uses the
order in which their blocks were opened. Eviction runs once, at the end of the
method: within one method only scopes that still hold a block advance, so evicting
after each removal takes the same scopes. `used`, `at` and `floor` in a block and
a call are history. `close()` is left out.

### Runs (`MCRouteState`)

| Run | Instance | Shows |
|---|---|---|
| `routestate` | one route on a pool, an HTTP request and a native attempt, two faults, two account switches, one tombstone | types and timers; `PromiseKept`; `NoStaleClear`; `FenceSound`, `FencePrecise`, `EvictionSafe` (open scopes keep their generation, the tombstones stay bounded); `NoStaleRebuild` |
| `routestate_live` | timers of one tick, blocks of up to four, two credentials, fairness | `HoldsEnd` |
| `routestate_native_auth` | violation | a native auth fault is cleared by the credential that failed (finding) |

Bounds. `MaxFaults` 2 is a fault and a newer one on the same or another scope (3
in the live run, where it drives the backoff to its cap); `MaxSwitches` 2 with
`MaxTombstones` 1 evicts the tombstone of a change a request in flight has not
seen. `MaxTime` bounds the clock and the ends of blocks. One provider is enough to
meet eviction: its provider, route and pool scopes compete for the tombstone. Several
providers, routes and pools are the proofs' part. Deadlock is not checked: with the faults used up,
the clock at its bound and no request the model may stop.

Fairness (`FairSpec`). Time passes, and a timer that is due fires. The requests,
the reads and the operator owe nothing: a block must end without them.

### Finding

`reportNativeRouteFault` records an authentication fault with the fingerprint of
the empty credential. Every observed credential differs from it, the one that
failed included, so the next model listing or request clears the fault, where the
comments promise recovery on a *different* credential and the same treatment as a
fault the gateway saw.

### Proofs (`RouteState_proofs`, `RouteStateFence_proofs`)

For every set of providers, routes, pools and requests and every bound, a tombstone
limit of zero included, from `ScopeAssumption`, `CallAssumption` and
`BoundAssumption`:

* `RouteTypeCorrect`: `Spec => []TypeOK`, with no timer beyond its block's end;
* `FenceSoundHolds`: `Spec => []FenceSound`;
* `NoStaleRebuildHolds`: `Spec => NoStaleRebuild`;
* `NoStaleClearHolds`: `Spec => NoStaleClear`.

`FenceSound` is not inductive: it speaks of scopes that changed, and eviction is
about the others too. The invariant `IInv` says what the store remembers
(`StoreFence`: a generation in the map is the scope's last change, a change not in
the map is at most the floor, a scope with a block has a generation, nothing
exceeds the sequence) and what a request knows (`CallFence`: it was admitted at or
below the sequence, and its guard is at most its admission). The argument goes in
two halves: each method makes a store that `Succeeds` the current one
(`AdvanceSucceeds`, `RemoveSucceeds`, `ExpireSucceeds`, `MarkedSucceeds`), and
committing any such store keeps `StoreFence` whatever is evicted (`CommitFence`).
The two action properties then follow from `EndsHow` (only completions end a
request) and one lemma per completion.

`RouteStateFence_proofs` goes on from there, under the same assumptions:

* `EvictionSafeHolds`: `Spec => []EvictionSafe`;
* `FencePreciseHolds`: `Spec => []FencePrecise`;
* `PromiseKeptHolds`: `Spec => []PromiseKept`.

The first two share the invariant `FInv`. `StoreOrder` says that no two scopes share a
generation, that a block's generation is its scope's, and that a tombstone is never
older than the floor; `Captured` says what a guard covers as long as its scope does
not change. The bound on the tombstones needs the first: the oldest one kept has
fewer than `MaxTombstones` newer ones, and all the others kept are newer
(`KeptBounded`). The precision needs the last: what is evicted is no newer than what
is kept (`RetiredOlder`), so a guard taken from a tombstone is at least the floor of
the admission, while a scope with a block may be older than the floor, but cannot lose
its generation without changing. `clearProvider` passes through a store that is not in
order, where the provider scope has advanced under its block; `RemoveMethodical` asks
for the order only outside the scopes it removes. `PromiseKept` rests on `Promised`,
which compares ends and not the clock: no block in a refused caller's way ends later
than it was told. `IInv`, `StoreOrder`, `Captured` and `Promised` were checked with TLC as
invariants of the safety run's instance as well (322,593 states).

### Only model-checked

`HoldsEnd` (liveness).

## 5. The desktop lane and the exec service

### Modules

`DesktopLane` is the FIFO queue for the user's one desktop session, as an object of
its own: `acquire` (refused, joined, taken or queued), an abort signal, `release`,
`close`, and `adoptOwner` as an initial state. Its methods are synchronous and each
is one action. `phase` is what the `acquire()` promise of a run came to, `position`
what the run was last told. `Without` is what `splice` leaves of the queue,
said without recursion: the one ordering of the others that keeps their order.
`#grantNext`'s loop is the choice of the first waiter that was not aborted
(`GrantTo`), or of none (`NobodyNext`).

`ExecService` composes it (`L == INSTANCE DesktopLane`) with the service.

| Variable | Code |
|---|---|
| `call` | where `start()` of a run is suspended: resolving its operation, in the lane, in `client.start`, undoing a late start, in `catch` or `finally` |
| `entry` | `ExecEntry`: request, status, `cancelRequested`, whether a session is bound |
| `runs`, `retained` | the ids in `#runs`; the terminal ones, oldest first |
| `consumer`, `observed` | the drain loop (`#consume`) and the finished event it saw |
| `replay` | `ExecReplayBuffer`: sizes of the retained events, next sequence number |
| `child`, `killed` | the agent process (`loose`: its session tried to stop it and could not confirm that it is gone); whether its session was told to stop |
| `reader` | the handle's iterator: its cursor, the batch it holds, how many events it gave |
| `closing`, `toClose` | where `close()` is, and the live entries it found |

An action is the code between two awaits. `StartPlain` and `StartQueued` to
`Finalized` are `start()`; `Record` to `ReleaseRun` the drain loop; `Cancel`,
`Close`, `CloseCancelled` and `CloseSettles` the two ends; `Read`, `Yield` and
`Resume` the iterator. `Settle` and `Prune` are what every ending does: status,
wake of the readers, retention. `close()` settles what is left in the order of its map;
the model settles the set in any order, and prunes once, which drops the same runs
as pruning after each. `Spawn`, `Die` and `ShutLane` are the environment:
the client spawns before its promise resolves, and the daemon closes the lane first.
`TerminationFails` is the session's failed stop (`packages/execution/src/session.ts`,
`settle` and `terminateProcessTree`), told to or by itself. After it `cancel()` rejects,
the stream closes and the start rejects exactly as after a confirmed stop
(`StopAnswered`), and the service goes on: `service.ts:440` swallows the rejection, one
at line 194 goes to the `catch`, line 339 is `allSettled`.

Abstraction. An event is its size; texts, frames and usage are left out. A run has
one iterator. A confirmed stop means a dead process; a `loose` one may be alive or gone
and never changes again. A client that never answers is an action that is not taken for
as long as fairness lets it.

### Runs

| Run | Instance | Shows |
|---|---|---|
| `desktop_lane` | two attempts of one task and two other runs, one adopted owner | `OneOwner`, `PositionTrue`, `Fifo`, `WaitEnds` |
| `exec_service` | two runs: both want the desktop; one does beside a raw run; two raw runs compete for retention, one read; one with a slow reader and three events | `TypeOK`, `NoOrphan`, `ActiveSeen`, `OneDesktop`, `ReaderComplete`, `TerminalFinal`, `CloseEnds`, `CancelTakes`, `ReaderEnds` |

Bounds. Four runs let one attempt join, one wait and one arrive behind the waiter.
A buffer of two events or three units and events of one or two units trim by count
and by bytes; three events expire a cursor. One retained terminal run of two units
makes retention drop a run that is still read. Deadlock is not checked: when every
run is over, both systems stop.

Fairness. In the lane a holder releases and nothing else is owed. That is a condition,
not a fact of the code: a supervised attempt has a deadline, but a raw `exec.start` run
has none (`core.mts` passes no `timeoutMs`) and may keep the lane until it is cancelled.
`WaitEnds` says that the lane then loses nobody. In the service promises settle, a
process told to stop dies (the kill escalates) or its session gives up, the stream ends
after either, a consumer goes on reading
and `close()` goes on. Nobody has to start, cancel, close, emit or exit.

### What the code does otherwise than a reader may expect

The model follows the code; none of these is asserted as a property.

* `cancel()` resolves when the session was stopped, before the run is settled by its
  drain loop, and `close()` does not await starts in flight
  (`packages/features/exec/README.md:72` and `:118-120` read stronger). What does hold is `CancelTakes` and `CloseEnds`.
* `events()` throws for an expired cursor where the comment at `service.ts:267` speaks
  of an empty array; an iterator that falls behind fails, loudly (`ReaderComplete`).
* An event recorded while a consumer is busy with the last event of a batch wakes
  nobody, and the iterator then waits (`service.ts:415`): the event is delivered with
  the next one, or with the end of the run. Late, never lost.
* A stop that cannot be confirmed ends like one that was: the run settles, its lane
  goes to the next run and `hasActiveRuns()` turns false, though the agent may be alive.
  Nothing of the service shows it any more, and `close()` does not wait for it (its
  comment says that an agent process "must not outlive the service that owns it").
  `ActiveSeen`, `OneDesktop`, `CloseEnds` and `CancelTakes` are therefore about agents
  that a session still answers for; that every other was told to stop is `NoOrphan`.
* A lane adopted for a process that survived a restart is not released by anything
  in the code, so a waiter of another owner waits until the lane closes. `WaitEnds`
  excludes that state.

### Proofs (`DesktopLane_proofs`, `ExecService_proofs`)

Of the lane, for any runs, owners and adopted processes, from `OwnerAssumption` (an
owner is a string, never `undefined`): `OneOwnerHolds`, `PositionTrueHolds` and
`FifoHolds`, from `LInv`. The run-by-run view and the lane's own fields only agree
because of each other, so the invariant has both: `QueueOK` (a run waits exactly when it
is in the queue, once, and was not aborted), `HoldsOK` (the counter is the number of
holders, plus one for an adopted process: without it the last release could free a lane
that somebody still has), `RestOK` (a free lane has no queue) and `PositionTrue`.
`Fifo` follows step by step, from the fact that `GrantTo` skips aborted waiters only and
there are none.

Of the service, for any set of runs, requests and event sizes and all positive
retention bounds (`RequestAssumption`, `BoundAssumption`, and `RunAssumption`: an id
is not `undefined`): `TypeOKHolds`, `NoOrphanHolds`, `ActiveSeenHolds`,
`OneDesktopHolds`, `ReaderCompleteHolds` and `TerminalFinalHolds`, from `XInv`
(`ExecInvariance`), which TLC checked on the instance of `exec_service` first.

| Part of `XInv` | Why it is needed |
|---|---|
| `StartOK` | what each suspended point of `start()` owes: from `client` to `undo` a run with an operation has the lane, after `catch` it has not, and only a run in `lane` waits |
| `ChildOK` | a `live` agent is under a `start()` or a drain loop, and it, or a `loose` one, was told to stop wherever the code no longer looks at it |
| `DrainOK` | a drain loop's run is listed, running and has its session, unless `close()` settled it; this is what makes `hasActiveRuns()` and `Cancel` see it |
| `RetOK` | the retained ids are terminal, listed, and listed once, so pruning never drops a live run |
| `ReadersOK` | an iterator's batch continues its cursor without a gap (`BatchOK`), and one that read its last batch reads a buffer that no longer grows |
| `LP!LInv` | the lane's invariant: two runs that have the lane are one run |

The lane's lemmas are used through `LP == INSTANCE DesktopLane_proofs`: each call of the
service is a step of the lane, and other runs only go from waiting to held or refused
(`Moved`). `RunFrame` and `ReadFrame` say what a step may not touch to keep a run's and a
reader's part; `SettleIs` and `PruneIs` are the facts about settlement and retention,
used by its five callers. `ReaderComplete` exempts the runs `close()` had to settle
(`toClose`): there the drain loop may still record an event after the iterator ended.

### Only model-checked

`WaitEnds`, `CloseEnds`, `CancelTakes` and `ReaderEnds`: liveness is out of the
prover's reach.

## 6. The agent supervisor and the repository write locks

### Module

`AgentSupervisor` is the supervised executions: one per attempt of a task run.

| Variable | Code |
|---|---|
| `row`, `queue` | the `executions` rows' status; the queued ones by `created_at` |
| `registry`, `intent` | the in-memory registry; `terminalIntent` of its entries |
| `starting` | launches suspended in `execService.start` |
| `locks` | holders in `RepoWriteLocks` |
| `child`, `killed` | the agent process; whether it was told to stop. `loose`: its session could not confirm a stop. `left`: the consumer of its stream failed and nobody stopped it. `stray`: alive after a restart without an active row |
| `bounds` | bounded settlements under way, of a cancel or of a deadline |
| `promoter` | the loop of `promoteQueued`: the candidates it read, the launch it awaits |
| `stage`, `awaited` | where `shutdown()` is (`failed`: an awaited kill rejected), and the entry whose kill its sweep awaits |
| `owed`, `restarts` | history: a settlement made room and promoted nobody; the bound |

An action is the code between two awaits, the terminal transaction (`Commit`) and
the call of `promoteQueued` included. The loop runs alone while `promoter.pc` is
`scan` and is suspended in a launch at `await`: others then cancel its candidates,
queue new ones, or find it busy and return. Whether a path lies in a directory is the
relation `Inside`; an execution without exact files locks the whole repository.

`handleChildClose` follows the end of the stream, which comes after the process or after
its session gave up (`terminationFails`). `streamConsumerFails` is the other way to the
same code: `consumeStream` throws, because its cursor expired in the exec service's
buffer or its transaction failed, and the execution ends with its agent at work. A kill
that rejects rejects `cancelExecution`, whose bound is then not set, and ends the sweep
(`sweepRejects`). What an entry is to the sweep can be read off the entry (`Unswept`), so
visited entries are not remembered.

`restart` is a crash or an exit at any step, followed by
`markInterruptedOnStartup`: rows become interrupted and recorded processes are killed; a
row whose process resists, or whose kill throws though the process is gone, is kept
running. Locks, registry and loop are memory.

### Runs

`supervisor`: three executions, one that edits a file, one that edits the directory
it is in and one that needs no lock; one slot; one restart. `OneWriter`,
`Supervised`, `NoOrphan`, `NoStranded`, `TerminalFinal`, `StopTakes`. The three make a
holder, one that waits for its lock, and one that may overtake; one slot makes them
wait for the slot too. Deadlock is not checked: executions end.

`supervisor_survivor`: the two writers alone, one restart; `WriteProtected` is violated
(see the finding).

Fairness: the loop goes on, and so does every stop (`stopGoesOn`): the process told to
stop dies or its session gives up, the stream of a session that gave up ends, or the
timer of a bound fires. No other end of a stream is assumed: the bounds exist because it
may never come, and `StopTakes` says that they suffice. Nothing is assumed of a process
whose execution has ended.

### Finding

A row that a restart keeps, because its process could not be killed, has no repository
write lock: the locks were the memory of the previous daemon and `startExecution` of a
conflicting execution acquires one and launches beside it. `agent-supervisor.mts:653-654`
says that such rows "stay active and keep their repo-write protection" (and 565-567 and
1464-1469 likewise). `WriteProtected` states this; `OneWriter` is what does hold, for the
executions registered with this daemon.

### What the code does otherwise than a reader may expect

* `runningCount` counts running entries, not starting ones: two admissions while a
  start is under way exceed `MAX_CONCURRENT_EXECUTIONS`. The limit is therefore
  not stated as a property.
* A cancel during `starting` releases the lock while the agent may still spawn,
  and a deadline releases it without asking whether the process is gone.
  `OneWriter` is about registered executions for that reason.
* Settlements by a bound promote nobody. `NoStranded` says that this is the only way
  for an execution to be left standing, and `owed` that it lasts until the next call.
* `promoteQueued` does not ask whether the supervisor still accepts: promotions go on
  during the grace period of `shutdown()`. The sweep comes after it (`NoOrphan`).
* A row kept by a restart stays running until it is cancelled, also when its process
  was gone and only the kill threw.
* An execution whose stream's consumer fails ends and gives up its lock while its agent
  works on; nobody tells the agent to stop (`left`). It ends with its work, or when the
  exec service closes. `NoOrphan` excepts it by name.
* A stop that cannot be confirmed ends the execution all the same, with its lock.
* A kill that rejects in the sweep ends `shutdown()`: the entries behind it are not
  visited. The daemon logs it and closes the exec service, which tells their sessions.
* While the promotion loop is suspended in a launch, which may wait for the desktop
  lane, nobody else is promoted. `NoStranded` says nothing of that time.
* A process spawned before a crash in `starting` has no recorded id (`stray`).

Not modelled: a failing database transaction outside the consumer of a stream (a lock
taken in one that rolls back would stay).

### Proofs (`AgentSupervisor_proofs`)

For every finite set of executions, every assignment of repositories and paths and
every relation `Inside`, every concurrency limit and any number of restarts (from
`ExecAssumption` and `LimitAssumption`):

* `SupervisorTypeCorrect`: `Spec => []TypeOK`;
* `OneWriterHolds`: `Spec => []OneWriter`, for the executions registered with this daemon;
* `SupervisedHolds`: `Spec => []Supervised`;
* `NoOrphanHolds`: `Spec => []NoOrphan`, with the exceptions it names;
* `NoStrandedHolds`: `Spec => []NoStranded`;
* `TerminalFinalHolds`: `Spec => TerminalFinal`.

None of the invariants is inductive alone. `OneWriter` speaks of rows, while what
keeps them apart is the lock set: `Locked` says that holders never conflict and that
every registered writer that starts or runs is a holder, and needs `Supervised` (a lock goes with
its entry). `NoOrphan` speaks of ended rows, while a process is lost earlier or not
at all: `Processes` follows it from its start through the running row to the kill,
`Launches` ties a start under way to a row that is starting or ended, `Bounded` says
that who is settled by a bound was killed, and `Swept` that whatever `shutdown()`
leaves registered is running, marked and dead. `IInv` is their conjunction with `TypeOK`
and `Supervised`; `InvStep` has one step per action. `ConflictMutual` and
`AcquiredLocked` are the facts about the locks, where the two directions of
`pathsOverlap` matter. `TerminalFinal` needs `Supervised` and `Bounded`: whoever
writes a row's end found it active.

`NoStranded` has an invariant of its own above `IInv`: `QInv` adds that every queued
row is in the queue (`Listed`, with `DequeuedListed` for the removals) and where the
loop stands (`Loops`: a loop that has promoted nobody yet still has the whole queue
before it, and a loop that is suspended has promoted). So a call of `promoteQueued()`
that finds the loop running is not lost: the loop was suspended, hence has promoted,
hence reads the queue again. `QueueStep` has one step per action.

### Only model-checked

`StopTakes` (liveness).

## 7. Not modelled

The models cover the code whose correctness rests on interleaving, failure and
recovery: under two per cent of the repository's lines. By far the most of the
repository is a desktop application, a command line, provider and client adapters,
wire formats, prompts, settings, catalogues, statistics and SQL, whose behaviour is
data transformation and I/O, and tests and tools; a model of them would repeat the
code without a state space to explore. `PROJECT.json` gives the reason for each part.

What is worth modelling and still open, in the order of the plan: the execution
kernel's retries and the task service, the session ledger and turn engine, the bot
kernel and the scheduler.

Within the task graph: the wall clock, event pages and cursors, templates and
compilation of graph definitions, and the values that flow along the edges. Within
the gateway: the relayed streams, the protocols and the events. Within the
executions: the operation adapter's components and containment, run facts and
diagnostics, and the disk guard beyond its refusal.
