------------------------------ MODULE RouteState ------------------------------
(***************************************************************************)
(* The gateway's route health: RouteStateStore, the single authority for   *)
(* admission, with the requests that run concurrently against it.          *)
(* Source: packages/features/gateway/src/route-state.ts; the callers are   *)
(* gateway/src/pipeline.ts (HTTP requests) and the daemon's execution      *)
(* kernel (native task attempts).                                          *)
(*                                                                         *)
(* A fault scope (a provider, one route, one quota pool) is a key, a       *)
(* positive number.  Each method of the store is synchronous, so it is one *)
(* action; requests interleave between admission and completion.           *)
(***************************************************************************)
EXTENDS Integers, FiniteSets

CONSTANTS
    Provider, Route, Call, Credential,
    ProviderKey,        \* [Provider -> Key]: its provider scope
    RouteKey,           \* [Route -> Key]: its own scope
    ProviderOf,         \* [Route -> Provider]
    PoolsOf,            \* [Route -> SUBSET Key]: the pools it draws from
    Native,             \* calls that are native task attempts
    Base, Cap,          \* first and longest backoff
    MaxTimer,           \* longest delay of one timer
    MaxTombstones,      \* generations kept of scopes without a block
    MaxFaults,          \* bound: faults ever recorded
    MaxSwitches,        \* bound: account switches
    MaxTime             \* bound: the clock, and the end of every block

Key == {ProviderKey[p] : p \in Provider} \cup {RouteKey[r] : r \in Route}
         \cup UNION {PoolsOf[r] : r \in Route}

NoKey  == 0
NoCred == "no credential"   \* the empty credential native reports carry

\* The scopes that can apply to a route (applicableKeys).
KeysOf(r) == {ProviderKey[ProviderOf[r]], RouteKey[r]} \cup PoolsOf[r]

\* The scopes of a provider's blocks.
KeysOfProvider(p) ==
    {ProviderKey[p]} \cup UNION {KeysOf(r) : r \in {s \in Route : ProviderOf[s] = p}}

ASSUME ScopeAssumption ==
    /\ ProviderKey \in [Provider -> Nat \ {0}] /\ RouteKey \in [Route -> Nat \ {0}]
    /\ ProviderOf \in [Route -> Provider]
    /\ PoolsOf \in [Route -> SUBSET (Nat \ {0})]
    /\ \A p, q \in Provider : p # q => KeysOfProvider(p) \cap KeysOfProvider(q) = {}
    /\ IsFiniteSet(Key)
ASSUME CallAssumption == Native \subseteq Call /\ NoCred \notin Credential
ASSUME BoundAssumption ==
    /\ Base \in Nat \ {0} /\ Cap \in Nat \ {0} /\ MaxTimer \in Nat \ {0}
    /\ MaxTombstones \in Nat /\ MaxFaults \in Nat /\ MaxSwitches \in Nat
    /\ MaxTime \in Nat

VARIABLES
    store,      \* RouteStateStore: blocks, generations, sequence, retiredFloor
    calls,      \* the requests and their guards
    cred,       \* the credential each provider is configured with
    funding,    \* effectivePools: the pools admission looks at
    now,
    faults, switches,   \* counted for the bounds
    truth,      \* history: the last generation of every scope, never pruned
    promise     \* history: the retry instant each route was last refused with

vars == <<store, calls, cred, funding, now, faults, switches, truth, promise>>

-----------------------------------------------------------------------------
(***************************************************************************)
(* The store.                                                              *)
(***************************************************************************)
NoBlock == [open |-> FALSE, gen |-> 0]

Blocked(s) == {k \in Key : s.blocks[k] # NoBlock}

\* The generation mark() compares a guard with: the scope's own, or the floor
\* when its tombstone is gone.
Current(s, k) == IF s.gens[k] # 0 THEN s.gens[k] ELSE s.floor

\* Mutant: a scope without a generation is stamped with zero.
CaptureZero(s, r) == [k \in KeysOf(r) |-> s.gens[k]]

\* capture: a scope without a generation is stamped with the sequence.
Capture(s, r) ==
    [k \in KeysOf(r) |-> IF s.gens[k] # 0 THEN s.gens[k] ELSE s.seq]

\* advanceGeneration for the scopes in K, one after the other.  The code takes
\* them in the order the blocks were opened, the model in the order of the keys:
\* that only decides which of two scopes removed together is the older tombstone.
Advance(s, K) ==
    [s EXCEPT !.seq = @ + Cardinality(K),
              !.gens = [k \in Key |->
                  IF k \in K THEN s.seq + Cardinality({j \in K : j <= k})
                             ELSE s.gens[k]]]

\* remove: the block is dropped and the scope's generation advances.
Remove(s, K) ==
    [Advance(s, K) EXCEPT
        !.blocks = [k \in Key |-> IF k \in K THEN NoBlock ELSE s.blocks[k]]]

Due(s, k) == s.blocks[k].open /\ s.blocks[k].until <= now

\* expireIfDue for the scopes in K: one with an upstream reset is cleared, one
\* that was backed off stops blocking and keeps its failure count.
ExpireIfDue(s, K) ==
    LET due == {k \in K : Due(s, k)}
        t   == [s EXCEPT !.blocks = [k \in Key |->
                  IF k \in due THEN [s.blocks[k] EXCEPT !.open = FALSE]
                               ELSE s.blocks[k]]]
    IN  Remove(t, {k \in due : s.blocks[k].resets})

\* The scopes admission and success look at (applying).
Applying(s, r) ==
    {k \in {ProviderKey[ProviderOf[r]], RouteKey[r]} \cup funding[r] :
        s.blocks[k] # NoBlock}

Blocking(s, r) == {k \in Applying(s, r) : s.blocks[k].open}

\* Mutant: the caller is told the end of the newest block.
RetryAtNewest(s, r, t) ==
    \E k \in Blocking(s, r) :
        /\ \A j \in Blocking(s, r) : s.blocks[j].gen <= s.blocks[k].gen
        /\ t = s.blocks[k].until

\* project: a refused caller is told to come back at t, the latest end of the
\* blocks in its way.
RetryAt(s, r, t) == \A k \in Blocking(s, r) : s.blocks[k].until <= t

\* pruneGenerations: of the scopes without a block the MaxTombstones newest
\* keep their generation; the floor rises to the newest one dropped.
Tombstones(s) == {k \in Key : s.gens[k] # 0 /\ s.blocks[k] = NoBlock}

\* Mutant: one tombstone too many is kept.
RetiredLate(s) ==
    {k \in Tombstones(s) :
        Cardinality({j \in Tombstones(s) : s.gens[j] > s.gens[k]})
            > MaxTombstones}

Retired(s) ==
    {k \in Tombstones(s) :
        Cardinality({j \in Tombstones(s) : s.gens[j] > s.gens[k]})
            >= MaxTombstones}

\* Mutant: the floor does not rise.
PrunedKeepsFloor(s, floor) ==
    [s EXCEPT !.gens = [k \in Key |-> IF k \in Retired(s) THEN 0 ELSE s.gens[k]]]

Pruned(s, floor) ==
    [s EXCEPT !.gens = [k \in Key |-> IF k \in Retired(s) THEN 0 ELSE s.gens[k]],
              !.floor = floor]

\* A method leaves the store as s, pruned.
Commit(s) ==
    /\ \E f \in {s.floor} \cup {s.gens[k] : k \in Retired(s)} :
          /\ s.floor <= f /\ \A k \in Retired(s) : s.gens[k] <= f
          /\ store' = Pruned(s, f)
    /\ truth' = [k \in Key |-> IF s.gens[k] > store.seq THEN s.gens[k] ELSE truth[k]]

-----------------------------------------------------------------------------
(***************************************************************************)
(* Requests.                                                               *)
(***************************************************************************)
Idle == [pc |-> "idle"]

Init ==
    /\ store = [blocks |-> [k \in Key |-> NoBlock],
                gens |-> [k \in Key |-> 0], seq |-> 0, floor |-> 0]
    /\ calls = [c \in Call |-> Idle]
    /\ cred \in [Provider -> Credential]
    /\ funding = PoolsOf
    /\ now = 0 /\ faults = 0 /\ switches = 0
    /\ truth = [k \in Key |-> 0]
    /\ promise = [r \in Route |-> 0]

\* observeCredential
Outdated(p, v) ==
    {k \in KeysOfProvider(p) \cap Blocked(store) :
        store.blocks[k].auth /\ store.blocks[k].cred # v}

ObserveCredential(p, v) == Commit(Remove(store, Outdated(p, v)))

\* The pipeline reads the provider's credential and observes it.
BeginRequest(c, r) ==
    /\ calls[c] = Idle /\ c \notin Native
    /\ ObserveCredential(ProviderOf[r], cred[ProviderOf[r]])
    /\ calls' = [calls EXCEPT ![c] =
          [pc |-> "ready", route |-> r, cred |-> cred[ProviderOf[r]]]]
    /\ UNCHANGED <<cred, funding, now, faults, switches, promise>>

\* Listing the models reads and observes credentials too.
ListModels(p) ==
    /\ ObserveCredential(p, cred[p])
    /\ UNCHANGED <<calls, cred, funding, now, faults, switches, promise>>

\* admit: due scopes expire; the request is sent with a guard, or refused.
\* at and floor are history: the sequence and the floor when it was admitted.
AdmitAs(c, r, v) ==
    LET s == ExpireIfDue(store, KeysOfProvider(ProviderOf[r])) IN
    /\ Commit(s)
    /\ IF Blocking(s, r) = {}
       THEN /\ calls' = [calls EXCEPT ![c] =
                  [pc |-> "sent", route |-> r, cred |-> v,
                   guard |-> Capture(store', r), refreshed |-> FALSE,
                   at |-> store'.seq, floor |-> store'.floor]]
            /\ promise' = promise
       ELSE /\ calls' = [calls EXCEPT ![c] = Idle]
            /\ \E t \in {s.blocks[k].until : k \in Blocking(s, r)} :
                  RetryAt(s, r, t) /\ promise' = [promise EXCEPT ![r] = t]
    /\ UNCHANGED <<cred, funding, now, faults, switches>>

Admit(c) == calls[c].pc = "ready" /\ AdmitAs(c, calls[c].route, calls[c].cred)

\* A native attempt is admitted by the execution kernel; the client process
\* reads the credential itself, so nothing is observed.
AdmitNative(c, r) ==
    /\ calls[c] = Idle /\ c \in Native
    /\ AdmitAs(c, r, cred[ProviderOf[r]])

\* A 401 is answered once with a refreshed credential, which is observed.
Refresh(c) ==
    /\ calls[c].pc = "sent" /\ c \notin Native /\ ~calls[c].refreshed
    /\ LET p == ProviderOf[calls[c].route] IN
          /\ ObserveCredential(p, cred[p])
          /\ calls' = [calls EXCEPT ![c].refreshed = TRUE, ![c].cred = cred[p]]
    /\ UNCHANGED <<cred, funding, now, faults, switches, promise>>

\* Mutant: the guard of a success is not looked at.
SucceedUnguarded(c) ==
    /\ calls[c].pc = "sent"
    /\ LET r == calls[c].route
           s == ExpireIfDue(store, KeysOfProvider(ProviderOf[r]))
       IN  Commit(Remove(s, Applying(s, r)))
    /\ calls' = [calls EXCEPT ![c] = Idle]
    /\ UNCHANGED <<cred, funding, now, faults, switches, promise>>

\* success: every scope that applies and is still at the captured generation
\* is cleared, an expired backoff included.
Succeed(c) ==
    /\ calls[c].pc = "sent"
    /\ LET r == calls[c].route
           s == ExpireIfDue(store, KeysOfProvider(ProviderOf[r]))
       IN  Commit(Remove(s, {k \in Applying(s, r) : calls[c].guard[k] = s.gens[k]}))
    /\ calls' = [calls EXCEPT ![c] = Idle]
    /\ UNCHANGED <<cred, funding, now, faults, switches, promise>>

(***************************************************************************)
(* What an upstream answer says of a route: the scope it claims, the pool  *)
(* it names (or NoKey), the reset it states (or 0), and whether it is an   *)
(* authentication failure.                                                 *)
(***************************************************************************)
Failure(r) ==
    LET resets == {0} \cup (now + 1) .. MaxTime IN
    [scope : {"provider"}, pool : {NoKey}, reset : {0}, auth : {TRUE}]
    \cup [scope : {"provider", "route"}, pool : {NoKey}, reset : resets, auth : {FALSE}]
    \cup [scope : {"pool"}, pool : {NoKey} \cup PoolsOf[r], reset : resets,
          auth : {FALSE}]

\* scopeFor: an unnamed pool failure binds the route unless it has one pool.
ScopeFor(r, f) ==
    LET named == IF f.pool = NoKey THEN PoolsOf[r] ELSE PoolsOf[r] \cap {f.pool}
    IN  CASE f.scope = "provider" -> ProviderKey[ProviderOf[r]]
          [] f.scope = "pool" /\ Cardinality(named) = 1
                -> CHOOSE k \in named : TRUE
          [] OTHER -> RouteKey[r]

\* backoffMs: doubles with every consecutive failure up to Cap, plus jitter.
Doubled[n \in Nat] == IF n = 0 THEN Base ELSE 2 * Doubled[n - 1]

Backoff(failures) ==
    LET d == IF Doubled[failures - 1] > Cap THEN Cap ELSE Doubled[failures - 1]
    IN  d .. (d + d \div 4)

\* Mutant: only the failing scope is compared, not the provider's.
FencedScopeOnly(c, k) == Current(store, k) > calls[c].guard[k]

\* The guard of mark(): neither the scope nor its provider scope changed after
\* the call was admitted.
Fenced(c, k) ==
    LET g == calls[c].guard
        pk == ProviderKey[ProviderOf[calls[c].route]]
    IN  Current(store, k) > g[k] \/ Current(store, pk) > g[pk]

FailuresOf(k) == IF store.blocks[k] = NoBlock THEN 0 ELSE store.blocks[k].failures

Marked(s, k, b) ==
    [Advance(s, {k}) EXCEPT !.blocks = [s.blocks EXCEPT ![k] = b]]

\* Mutant: every timer runs for the longest delay.
TimerAtLongest(until) == now + MaxTimer

TimerAt(until) == IF until > now + MaxTimer THEN now + MaxTimer ELSE until

\* The hook that reports a native attempt's fault reads the route's status back,
\* and due scopes expire on that read.
ReadBack(c, s) ==
    IF c \in Native THEN ExpireIfDue(s, KeysOfProvider(ProviderOf[calls[c].route])) ELSE s

\* mark: the scope is blocked until the stated reset or for the next backoff.
Fault(c) ==
    /\ calls[c].pc = "sent" /\ faults < MaxFaults
    /\ \E f \in Failure(calls[c].route) :
       LET r == calls[c].route
           k == ScopeFor(r, f)
       IN  /\ ~Fenced(c, k)
           /\ \E u \in IF f.reset # 0 THEN {f.reset}
                       ELSE {now + d : d \in Backoff(FailuresOf(k) + 1)} :
                 /\ u \in 0 .. MaxTime
                 /\ Commit(ReadBack(c, Marked(store, k,
                      [open |-> TRUE, gen |-> store.seq + 1,
                       failures |-> FailuresOf(k) + 1, until |-> u,
                       resets |-> f.reset # 0, auth |-> f.auth,
                       cred |-> IF c \in Native THEN NoCred ELSE calls[c].cred,
                       used |-> calls[c].cred, timer |-> TimerAt(u)])))
           /\ promise' = [q \in Route |-> IF k \in KeysOf(q) THEN 0 ELSE promise[q]]
    /\ calls' = [calls EXCEPT ![c] = Idle]
    /\ faults' = faults + 1
    /\ UNCHANGED <<cred, funding, now, switches>>

\* mark: a fault that comes too late is not recorded.
Late(c) ==
    /\ calls[c].pc = "sent"
    /\ \E f \in Failure(calls[c].route) : Fenced(c, ScopeFor(calls[c].route, f))
    /\ Commit(ReadBack(c, store))
    /\ calls' = [calls EXCEPT ![c] = Idle]
    /\ UNCHANGED <<cred, funding, now, faults, switches, promise>>

\* The request is abandoned, or its outcome says nothing of the route.
Drop(c) ==
    /\ calls[c].pc \in {"ready", "sent"}
    /\ calls' = [calls EXCEPT ![c] = Idle]
    /\ UNCHANGED <<store, cred, funding, now, faults, switches, truth, promise>>

-----------------------------------------------------------------------------
(***************************************************************************)
(* Time, reads and the operator.                                           *)
(***************************************************************************)

\* status: a read, but due scopes expire on it.
Status(p) ==
    /\ Commit(ExpireIfDue(store, KeysOfProvider(p)))
    /\ UNCHANGED <<calls, cred, funding, now, faults, switches, promise>>

\* Mutant: a timer cut short by the longest delay is not set again.
TimerFiresOnce(k) ==
    /\ k \in Blocked(store) /\ Due(store, k) /\ store.blocks[k].timer = now
    /\ Commit(ExpireIfDue(store, {k}))
    /\ UNCHANGED <<calls, cred, funding, now, faults, switches, promise>>

\* The timer of a scope fires: the scope expires, or the timer is set again.
TimerFires(k) ==
    /\ k \in Blocked(store) /\ store.blocks[k].open /\ store.blocks[k].timer <= now
    /\ IF Due(store, k)
       THEN Commit(ExpireIfDue(store, {k}))
       ELSE /\ store' = [store EXCEPT !.blocks[k].timer = TimerAt(store.blocks[k].until)]
            /\ truth' = truth
    /\ UNCHANGED <<calls, cred, funding, now, faults, switches, promise>>

\* clearProvider: the account of a provider is switched.  Its provider scope
\* advances even without a block, which fences every request in flight.
ClearProvider(p) ==
    /\ switches < MaxSwitches
    /\ LET K == KeysOfProvider(p) \cap Blocked(store)
       IN  Commit(Remove(Advance(store, {ProviderKey[p]}), K))
    /\ switches' = switches + 1
    /\ cred' \in {[cred EXCEPT ![p] = v] : v \in Credential}
    /\ UNCHANGED <<calls, funding, now, faults, promise>>

\* The provider's credential changes.
Rotate(p) ==
    /\ cred' \in {[cred EXCEPT ![p] = v] : v \in Credential \ {cred[p]}}
    /\ UNCHANGED <<store, calls, funding, now, faults, switches, truth, promise>>

\* The route draws on other pools from now on (effectiveQuotaPools).
SwitchFunding(r) ==
    /\ funding' \in {[funding EXCEPT ![r] = S] : S \in SUBSET PoolsOf[r] \ {funding[r]}}
    /\ promise' = [promise EXCEPT ![r] = 0]
    /\ UNCHANGED <<store, calls, cred, now, faults, switches, truth>>

Tick ==
    /\ now < MaxTime
    /\ now' = now + 1
    /\ UNCHANGED <<store, calls, cred, funding, faults, switches, truth, promise>>

Next ==
    \/ \E c \in Call : \/ Admit(c) \/ Refresh(c) \/ Succeed(c) \/ Fault(c) \/ Late(c) \/ Drop(c)
                       \/ \E r \in Route : BeginRequest(c, r) \/ AdmitNative(c, r)
    \/ \E p \in Provider : ListModels(p) \/ Status(p) \/ ClearProvider(p) \/ Rotate(p)
    \/ \E r \in Route : SwitchFunding(r)
    \/ \E k \in Key : TimerFires(k)
    \/ Tick

Spec == Init /\ [][Next]_vars

(***************************************************************************)
(* Fairness: time passes and an armed timer fires.  Nothing is assumed of  *)
(* the requests, the reads or the operator.                                *)
(***************************************************************************)
FairSpec == Spec /\ WF_vars(Tick) /\ \A k \in Key : WF_vars(TimerFires(k))

-----------------------------------------------------------------------------
(***************************************************************************)
(* Properties.                                                             *)
(***************************************************************************)
Block ==
    {b \in [open : BOOLEAN, gen : Nat, failures : Nat, until : Nat, resets : BOOLEAN,
            auth : BOOLEAN, cred : Credential \cup {NoCred}, used : Credential,
            timer : Nat] : b.timer <= b.until}

StoreType == [blocks : [Key -> Block \cup {NoBlock}], gens : [Key -> Nat],
              seq : Nat, floor : Nat]

CallOK(c) ==
    \/ calls[c] = Idle
    \/ calls[c] \in [pc : {"ready"}, route : Route, cred : Credential]
    \/ \E r \in Route :
          calls[c] \in [pc : {"sent"}, route : {r}, cred : Credential,
                        guard : [KeysOf(r) -> Nat], refreshed : BOOLEAN,
                        at : Nat, floor : Nat]

\* The store, the requests and the environment have their types, and the timer
\* of a block is never set for later than the block's end (schedule).
TypeOK ==
    /\ store \in StoreType
    /\ DOMAIN calls = Call /\ \A c \in Call : CallOK(c)
    /\ cred \in [Provider -> Credential]
    /\ funding \in [Route -> SUBSET Key] /\ \A r \in Route : funding[r] \subseteq PoolsOf[r]
    /\ now \in Nat /\ faults \in Nat /\ switches \in Nat
    /\ truth \in [Key -> Nat]
    /\ promise \in [Route -> Nat]

Sent == {c \in Call : calls[c].pc = "sent"}

\* However long the gateway runs, the generation map stays bounded, and the bound
\* is not paid with the generation of a scope that holds a block, by which a
\* success tells the block it saw from a newer one (pruneGenerations).
EvictionSafe ==
    /\ Cardinality(Tombstones(store)) <= MaxTombstones
    /\ \A k \in Blocked(store) : store.gens[k] = store.blocks[k].gen

\* The fence is sound although tombstones are evicted: a scope that changed after
\* a request was admitted reads newer than the request's guard (retiredFloor).
FenceSound ==
    \A c \in Sent : \A k \in KeysOf(calls[c].route) :
        truth[k] > calls[c].at => Current(store, k) > calls[c].guard[k]

\* The fence is precise as long as nothing was evicted under the request: a scope
\* that did not change does not read newer, even one whose tombstone had already
\* been evicted when the request was admitted (capture).
FencePrecise ==
    \A c \in Sent : \A k \in KeysOf(calls[c].route) :
        truth[k] <= calls[c].at /\ store.floor = calls[c].floor =>
            Current(store, k) <= calls[c].guard[k]

Ends(c) == calls[c].pc = "sent" /\ calls'[c] = Idle

\* A failure that comes late never rebuilds a fault: when a request blocks a
\* scope, neither that scope nor its provider's changed since it was admitted.  So
\* requests that were admitted together and fail together count once (mark).
NoStaleRebuild ==
    [][\A c \in Call : Ends(c) =>
          \A k \in Key : store'.blocks[k].open /\ store'.blocks[k] # store.blocks[k] =>
              /\ truth[k] <= calls[c].at
              /\ truth[ProviderKey[ProviderOf[calls[c].route]]] <= calls[c].at]_vars

\* A success that comes late never clears a newer fault: what it clears was there,
\* at that generation, when it was admitted, or is due to be cleared anyway.
NoStaleClear ==
    [][\A c \in Call : Ends(c) =>
          \A k \in Blocked(store) :
              store'.blocks[k] = NoBlock =>
                  \/ truth[k] <= calls[c].at
                  \/ Due(store, k) /\ store.blocks[k].resets]_vars

\* A caller refused until an instant is admitted at that instant by every scope at
\* once, unless a fault was recorded or the funding switched since (project).
PromiseKept ==
    \A r \in Route :
        promise[r] # 0 /\ promise[r] <= now =>
            \A k \in Blocking(store, r) : Due(store, k)

\* No scope blocks for ever: every block ends by its timer, without any request or
\* read, timers shorter than the block included (schedule).
HoldsEnd == \A k \in Key : store.blocks[k].open ~> ~store.blocks[k].open

\* An authentication fault recovers when a different credential is observed: an
\* observed credential never clears the fault it produced itself.
AuthNeedsChange ==
    [][\A p \in Provider :
          ListModels(p) =>
              \A k \in Blocked(store) :
                  store'.blocks[k] = NoBlock => store.blocks[k].used # cred[p]]_vars
==============================================================================
