--------------------------- MODULE RouteState_proofs ---------------------------
(***************************************************************************)
(* Proofs about RouteState: for every set of providers, routes, pools and  *)
(* calls, and every bound, the generation fence is sound.                  *)
(***************************************************************************)
EXTENDS RouteState, FiniteSetTheorems, TLAPS

(***************************************************************************)
(* Scopes.                                                                 *)
(***************************************************************************)

\* Keys are positive numbers, and there are finitely many.
LEMMA KeyTyped == Key \subseteq Nat \ {0} /\ IsFiniteSet(Key)
BY ScopeAssumption DEF Key

\* The scopes that apply to a route, and those of a provider, are keys.
LEMMA KeysTyped ==
    /\ \A r \in Route : /\ KeysOf(r) \subseteq Key /\ PoolsOf[r] \subseteq Key
                        /\ PoolsOf[r] \subseteq KeysOf(r)
                        /\ ProviderKey[ProviderOf[r]] \in KeysOf(r)
                        /\ RouteKey[r] \in KeysOf(r)
                        /\ ProviderOf[r] \in Provider
    /\ \A p \in Provider : ProviderKey[p] \in Key /\ KeysOfProvider(p) \subseteq Key
<1>1. \A r \in Route : ProviderOf[r] \in Provider
  BY ScopeAssumption
<1>2. \A r \in Route : KeysOf(r) \subseteq Key /\ PoolsOf[r] \subseteq Key
  BY <1>1 DEF KeysOf, Key
<1>3. \A p \in Provider : ProviderKey[p] \in Key /\ KeysOfProvider(p) \subseteq Key
  BY <1>2 DEF KeysOfProvider, Key
<1>. QED  BY <1>1, <1>2, <1>3 DEF KeysOf

(***************************************************************************)
(* What the methods make of a store, before it is pruned.                  *)
(***************************************************************************)

\* s is a store some method made from the current one: the sequence only grew,
\* and a generation that changed is newer than the whole current store.
Succeeds(s) ==
    /\ s \in StoreType
    /\ store.seq <= s.seq /\ s.floor = store.floor
    /\ \A k \in Key : \/ s.gens[k] = store.gens[k]
                      \/ store.seq < s.gens[k] /\ s.gens[k] <= s.seq
    /\ \A k \in Key : s.blocks[k] # NoBlock => s.gens[k] # 0

\* advanceGeneration gives each scope of K a generation of its own above the
\* sequence.
LEMMA AdvanceNumbers ==
    ASSUME NEW K \in SUBSET Key, NEW k \in K
    PROVE  /\ Cardinality(K) \in Nat
           /\ Cardinality({j \in K : j <= k}) \in 1 .. Cardinality(K)
<1>1. IsFiniteSet(K)
  BY KeyTyped, FS_Subset
<1>2. {j \in K : j <= k} \subseteq K /\ k \in {j \in K : j <= k}
  BY KeyTyped
<1>3. IsFiniteSet({j \in K : j <= k})
  BY <1>1, <1>2, FS_Subset
<1>4. Cardinality({j \in K : j <= k}) <= Cardinality(K)
  BY <1>1, <1>2, FS_Subset
<1>5. Cardinality({j \in K : j <= k}) # 0
  BY <1>2, <1>3, FS_EmptySet
<1>. QED  BY <1>1, <1>3, <1>4, <1>5, FS_CardinalityType

\* The sequence grows by a number.
LEMMA AdvanceCount ==
    ASSUME NEW K \in SUBSET Key
    PROVE  Cardinality(K) \in Nat
BY KeyTyped, FS_Subset, FS_CardinalityType

\* advanceGeneration makes a succeeding store and touches no block.
LEMMA AdvanceSucceeds ==
    ASSUME store.seq \in Nat, NEW s, Succeeds(s), NEW K \in SUBSET Key
    PROVE  Succeeds(Advance(s, K)) /\ Advance(s, K).blocks = s.blocks
<1>. DEFINE g == [k \in Key |->
                    IF k \in K THEN s.seq + Cardinality({j \in K : j <= k})
                               ELSE s.gens[k]]
            n == s.seq + Cardinality(K)
<1>1. s \in StoreType /\ s.seq \in Nat /\ n \in Nat /\ s.seq <= n
  BY AdvanceCount DEF Succeeds, StoreType
<1>2. \A k \in K : g[k] \in Nat /\ s.seq < g[k] /\ g[k] <= n
  BY <1>1, AdvanceNumbers
<1>3. \A k \in Key \ K : g[k] = s.gens[k] /\ g[k] \in Nat
  BY <1>1 DEF StoreType
<1>4. g \in [Key -> Nat]
  BY <1>2, <1>3
<1>5. /\ Advance(s, K) \in StoreType
      /\ Advance(s, K).seq = n /\ Advance(s, K).gens = g
      /\ Advance(s, K).floor = s.floor /\ Advance(s, K).blocks = s.blocks
  <2>. HIDE DEF g, n
  <2>1. Advance(s, K) = [s EXCEPT !.seq = n, !.gens = g]
    BY DEF Advance, g, n
  <2>. QED  BY <2>1, <1>1, <1>4 DEF StoreType
<1>6. \A k \in Key : \/ g[k] = store.gens[k]
                     \/ store.seq < g[k] /\ g[k] <= n
  <2>. HIDE DEF g, n
  <2>1. \A k \in K : store.seq < g[k] /\ g[k] <= n
    BY <1>1, <1>2 DEF Succeeds
  <2>2. \A k \in Key \ K : \/ g[k] = store.gens[k]
                           \/ store.seq < g[k] /\ g[k] <= n
    BY <1>1, <1>3 DEF Succeeds
  <2>. QED  BY <2>1, <2>2
<1>7. \A k \in Key : s.blocks[k] # NoBlock => g[k] # 0
  <2>. HIDE DEF g, n
  <2>. QED  BY <1>1, <1>2, <1>3 DEF Succeeds
<1>8. store.seq <= n
  <2>. HIDE DEF g
  <2>. QED  BY <1>1 DEF Succeeds
<1>. QED
  <2>. HIDE DEF g, n
  <2>. QED  BY <1>5, <1>6, <1>7, <1>8 DEF Succeeds

\* remove makes a succeeding store: the scopes of K lose their block, the other
\* scopes keep both block and generation.
LEMMA RemoveSucceeds ==
    ASSUME store.seq \in Nat, NEW s, Succeeds(s), NEW K \in SUBSET Key
    PROVE  /\ Succeeds(Remove(s, K))
           /\ \A k \in Key : Remove(s, K).blocks[k] = IF k \in K THEN NoBlock ELSE s.blocks[k]
           /\ \A k \in Key \ K : Remove(s, K).gens[k] = s.gens[k]
<1>. DEFINE a == Advance(s, K)
            b == [k \in Key |-> IF k \in K THEN NoBlock ELSE s.blocks[k]]
<1>1. Succeeds(a) /\ a.blocks = s.blocks
  BY AdvanceSucceeds
<1>2. b \in [Key -> Block \cup {NoBlock}]
  BY DEF Succeeds, StoreType
<1>3. \A k \in Key \ K : a.gens[k] = s.gens[k]
  BY DEF Advance, Succeeds, StoreType
<1>4. Remove(s, K) = [a EXCEPT !.blocks = b]
  BY DEF Remove
<1>5. \A k \in Key : b[k] = IF k \in K THEN NoBlock ELSE s.blocks[k]
  OBVIOUS
<1>. HIDE DEF a, b
<1>6. /\ Remove(s, K) \in StoreType /\ Remove(s, K).blocks = b
      /\ Remove(s, K).seq = a.seq /\ Remove(s, K).gens = a.gens
      /\ Remove(s, K).floor = a.floor
  BY <1>1, <1>2, <1>4 DEF Succeeds, StoreType
<1>7. \A k \in Key : b[k] # NoBlock => a.gens[k] # 0
  BY <1>1, <1>5 DEF Succeeds
<1>. QED  BY <1>1, <1>3, <1>5, <1>6, <1>7 DEF Succeeds

\* A scope that is due has a block.
LEMMA DueHasBlock ==
    ASSUME NEW s, s \in StoreType, NEW k \in Key, Due(s, k)
    PROVE  s.blocks[k] \in Block
BY DEF Due, StoreType, NoBlock

\* expireIfDue makes a succeeding store: no block appears or opens, one that goes
\* was due with a reset, and one that stays keeps its generation.
LEMMA ExpireSucceeds ==
    ASSUME store.seq \in Nat, NEW s, Succeeds(s), NEW K \in SUBSET Key
    PROVE  LET e == ExpireIfDue(s, K) IN
           /\ Succeeds(e)
           /\ \A k \in Key :
                 \/ e.blocks[k] = s.blocks[k] /\ e.gens[k] = s.gens[k]
                 \/ ~e.blocks[k].open /\ e.blocks[k] \in Block /\ e.gens[k] = s.gens[k]
                 \/ e.blocks[k] = NoBlock /\ Due(s, k) /\ s.blocks[k].resets
<1>. DEFINE due == {k \in K : Due(s, k)}
            b == [k \in Key |-> IF k \in due THEN [s.blocks[k] EXCEPT !.open = FALSE]
                                              ELSE s.blocks[k]]
            t == [s EXCEPT !.blocks = b]
            R == {k \in due : s.blocks[k].resets}
<1>1. s \in StoreType
  BY DEF Succeeds
<1>2. \A k \in due : s.blocks[k] \in Block
  BY <1>1, DueHasBlock
<1>3. \A k \in Key : /\ b[k] \in Block \cup {NoBlock}
                     /\ k \in due => b[k] \in Block /\ ~b[k].open
                     /\ k \notin due => b[k] = s.blocks[k]
  <2>. SUFFICES ASSUME NEW k \in Key
                PROVE  /\ b[k] \in Block \cup {NoBlock}
                       /\ k \in due => b[k] \in Block /\ ~b[k].open
                       /\ k \notin due => b[k] = s.blocks[k]
    OBVIOUS
  <2>1. CASE k \in due
    <3>1. b[k] = [s.blocks[k] EXCEPT !.open = FALSE] /\ s.blocks[k] \in Block
      BY <2>1, <1>2
    <3>. HIDE DEF b, due
    <3>2. b[k] \in Block /\ ~b[k].open
      BY <3>1 DEF Block
    <3>. QED  BY <2>1, <3>2
  <2>2. CASE k \notin due
    BY <2>2, <1>1 DEF StoreType
  <2>. QED  BY <2>1, <2>2
<1>4. b \in [Key -> Block \cup {NoBlock}]
  BY <1>3
<1>5. R \in SUBSET Key /\ \A k \in R : Due(s, k) /\ s.blocks[k].resets
  OBVIOUS
<1>6. ExpireIfDue(s, K) = Remove(t, R)
  BY DEF ExpireIfDue
<1>7. \A k \in Key : b[k] # NoBlock => s.blocks[k] # NoBlock
  <2>1. \A k \in due : s.blocks[k] # NoBlock
    BY DEF Due, NoBlock
  <2>. HIDE DEF b, due
  <2>. QED  BY <2>1, <1>3
<1>. HIDE DEF due, b, R
<1>8. /\ t \in StoreType /\ t.blocks = b /\ t.gens = s.gens /\ t.seq = s.seq
      /\ t.floor = s.floor
  BY <1>1, <1>4 DEF StoreType
<1>. HIDE DEF t
<1>9. Succeeds(t)
  BY <1>7, <1>8 DEF Succeeds
<1>10. /\ Succeeds(Remove(t, R))
       /\ \A k \in Key : Remove(t, R).blocks[k] = IF k \in R THEN NoBlock ELSE b[k]
       /\ \A k \in Key \ R : Remove(t, R).gens[k] = s.gens[k]
  BY <1>5, <1>8, <1>9, RemoveSucceeds
<1>. QED  BY <1>3, <1>5, <1>6, <1>10

\* mark makes a succeeding store in which k alone has another block.
LEMMA MarkedSucceeds ==
    ASSUME store.seq \in Nat, NEW s, Succeeds(s), NEW k \in Key, NEW b \in Block
    PROVE  Succeeds(Marked(s, k, b)) /\ Marked(s, k, b).blocks = [s.blocks EXCEPT ![k] = b]
<1>. DEFINE a == Advance(s, {k})
            m == [s.blocks EXCEPT ![k] = b]
<1>1. Succeeds(a) /\ a.blocks = s.blocks
  BY AdvanceSucceeds
<1>2. s.seq \in Nat /\ a.gens[k] = s.seq + Cardinality({j \in {k} : j <= k})
  BY DEF Advance, Succeeds, StoreType
<1>3. a.gens[k] # 0
  <2>1. {k} \in SUBSET Key /\ k \in {k}
    OBVIOUS
  <2>2. Cardinality({j \in {k} : j <= k}) \in 1 .. Cardinality({k}) /\ Cardinality({k}) \in Nat
    BY <2>1, AdvanceNumbers
  <2>. HIDE DEF a
  <2>. QED  BY <1>2, <2>2
<1>4. m \in [Key -> Block \cup {NoBlock}] /\ \A j \in Key \ {k} : m[j] = s.blocks[j]
  BY DEF Succeeds, StoreType
<1>5. Marked(s, k, b) = [a EXCEPT !.blocks = m]
  BY DEF Marked
<1>. HIDE DEF a, m
<1>6. /\ Marked(s, k, b) \in StoreType /\ Marked(s, k, b).blocks = m
      /\ Marked(s, k, b).seq = a.seq /\ Marked(s, k, b).gens = a.gens
      /\ Marked(s, k, b).floor = a.floor
  BY <1>1, <1>4, <1>5 DEF Succeeds, StoreType
<1>7. \A j \in Key : m[j] # NoBlock => a.gens[j] # 0
  BY <1>1, <1>3, <1>4 DEF Succeeds
<1>. QED  BY <1>1, <1>6, <1>7 DEF Succeeds, m

\* Reading the status back makes a succeeding store, and opens no block.
LEMMA ReadBackSucceeds ==
    ASSUME store.seq \in Nat, NEW c, ProviderOf[calls[c].route] \in Provider,
           NEW s, Succeeds(s)
    PROVE  LET e == ReadBack(c, s) IN
           /\ Succeeds(e)
           /\ \A k \in Key :
                 \/ e.blocks[k] = s.blocks[k]
                 \/ ~e.blocks[k].open /\ e.blocks[k] \in Block
                 \/ e.blocks[k] = NoBlock /\ Due(s, k) /\ s.blocks[k].resets
<1>1. KeysOfProvider(ProviderOf[calls[c].route]) \in SUBSET Key
  BY KeysTyped
<1>2. CASE c \in Native
  <2>. DEFINE e == ExpireIfDue(s, KeysOfProvider(ProviderOf[calls[c].route]))
  <2>1. ReadBack(c, s) = e
    BY <1>2 DEF ReadBack
  <2>2. /\ Succeeds(e)
        /\ \A k \in Key :
                 \/ e.blocks[k] = s.blocks[k]
                 \/ ~e.blocks[k].open /\ e.blocks[k] \in Block
                 \/ e.blocks[k] = NoBlock /\ Due(s, k) /\ s.blocks[k].resets
    BY <1>1, ExpireSucceeds
  <2>. HIDE DEF e
  <2>. QED  BY <2>1, <2>2
<1>3. CASE c \notin Native
  BY <1>3 DEF ReadBack
<1>. QED  BY <1>2, <1>3

(***************************************************************************)
(* The inductive invariant.                                                *)
(***************************************************************************)

\* The store remembers the last change of every scope, by its generation or by
\* the floor.
StoreFence ==
    /\ store \in StoreType /\ truth \in [Key -> Nat]
    /\ store.floor <= store.seq
    /\ \A k \in Key : /\ truth[k] <= store.seq
                      /\ store.gens[k] # 0 => store.gens[k] = truth[k]
                      /\ store.gens[k] = 0 => truth[k] <= store.floor
                      /\ store.blocks[k] # NoBlock => store.gens[k] # 0

SentOn(r) ==
    [pc : {"sent"}, route : {r}, cred : Credential, guard : [KeysOf(r) -> Nat],
     refreshed : BOOLEAN, at : Nat, floor : Nat]

\* A request in flight was admitted by sequence n, and its guard is no newer than
\* its admission.
CallFence(e, n) ==
    \/ e = Idle
    \/ e \in [pc : {"ready"}, route : Route, cred : Credential]
    \/ \E r \in Route : /\ e \in SentOn(r) /\ e.at <= n
                        /\ \A k \in KeysOf(r) : e.guard[k] <= e.at

CallsFence == DOMAIN calls = Call /\ \A c \in Call : CallFence(calls[c], store.seq)

Environment ==
    /\ cred \in [Provider -> Credential]
    /\ funding \in [Route -> SUBSET Key] /\ \A r \in Route : funding[r] \subseteq PoolsOf[r]
    /\ now \in Nat /\ faults \in Nat /\ switches \in Nat
    /\ promise \in [Route -> Nat]

IInv == StoreFence /\ CallsFence /\ Environment

\* The current store succeeds itself.
LEMMA StoreSucceeds ==
    ASSUME StoreFence
    PROVE  Succeeds(store) /\ store.seq \in Nat
BY DEF StoreFence, Succeeds, StoreType

\* Committing a succeeding store keeps the fence, whatever is evicted: the floor
\* rises over every generation that goes.
LEMMA CommitFence ==
    ASSUME StoreFence, NEW s, Succeeds(s), Commit(s)
    PROVE  /\ StoreFence' /\ store.seq <= store'.seq
           /\ store'.blocks = s.blocks
<1>1. PICK f \in {s.floor} \cup {s.gens[k] : k \in Retired(s)} :
          /\ s.floor <= f /\ \A k \in Retired(s) : s.gens[k] <= f
          /\ store' = Pruned(s, f)
  BY DEF Commit
<1>. DEFINE g == [k \in Key |-> IF k \in Retired(s) THEN 0 ELSE s.gens[k]]
<1>2. /\ Retired(s) \subseteq Key
      /\ \A k \in Retired(s) : s.gens[k] # 0 /\ s.blocks[k] = NoBlock
  BY DEF Retired, Tombstones
<1>3. s \in StoreType /\ store \in StoreType /\ truth \in [Key -> Nat]
  BY DEF Succeeds, StoreFence
<1>4. \A k \in Key : s.gens[k] \in Nat /\ s.gens[k] <= s.seq
  BY <1>3 DEF Succeeds, StoreFence, StoreType
<1>5. f \in Nat /\ f <= s.seq /\ store.floor <= f
  BY <1>1, <1>2, <1>3, <1>4 DEF Succeeds, StoreFence, StoreType
<1>6. g \in [Key -> Nat]
  BY <1>4
<1>7. store' = [s EXCEPT !.gens = g, !.floor = f]
  BY <1>1 DEF Pruned
<1>8. \A k \in Key : g[k] = IF k \in Retired(s) THEN 0 ELSE s.gens[k]
  OBVIOUS
<1>. HIDE DEF g
<1>9. /\ store' \in StoreType /\ store'.gens = g /\ store'.floor = f
      /\ store'.seq = s.seq /\ store'.blocks = s.blocks
  BY <1>3, <1>5, <1>6, <1>7 DEF StoreType
<1>10. /\ truth' \in [Key -> Nat]
       /\ \A k \in Key : truth'[k] = IF s.gens[k] > store.seq THEN s.gens[k] ELSE truth[k]
  BY <1>3, <1>4 DEF Commit
<1>11. store.seq \in Nat /\ s.seq \in Nat /\ store.seq <= s.seq
  BY <1>3 DEF Succeeds, StoreType
<1>12. ASSUME NEW k \in Key
       PROVE  /\ truth'[k] <= s.seq
              /\ g[k] # 0 => g[k] = truth'[k]
              /\ g[k] = 0 => truth'[k] <= f
              /\ s.blocks[k] # NoBlock => g[k] # 0
  <2>1. /\ truth[k] \in Nat /\ truth[k] <= store.seq /\ store.gens[k] \in Nat
        /\ store.gens[k] # 0 => store.gens[k] = truth[k]
        /\ store.gens[k] = 0 => truth[k] <= store.floor
        /\ store.floor \in Nat
    BY <1>3 DEF StoreFence, StoreType
  <2>2. \/ s.gens[k] = store.gens[k]
        \/ store.seq < s.gens[k] /\ s.gens[k] <= s.seq
    BY DEF Succeeds
  <2>3. s.blocks[k] # NoBlock => s.gens[k] # 0 /\ k \notin Retired(s)
    BY <1>2 DEF Succeeds
  <2>4. s.gens[k] # 0 => truth'[k] = s.gens[k]
    BY <2>1, <2>2, <1>4, <1>10, <1>11
  <2>5. s.gens[k] = 0 => truth'[k] <= store.floor
    BY <2>1, <2>2, <1>4, <1>10, <1>11
  <2>6. truth'[k] \in Nat /\ truth'[k] <= s.seq
    BY <2>1, <1>4, <1>10, <1>11
  <2>. QED
    BY <2>1, <2>3, <2>4, <2>5, <2>6, <1>1, <1>2, <1>4, <1>5, <1>8
<1>. QED  BY <1>5, <1>9, <1>10, <1>11, <1>12 DEF StoreFence

\* A request in flight, taken apart.
LEMMA SentCall ==
    ASSUME CallsFence, NEW c \in Call, calls[c].pc = "sent"
    PROVE  /\ calls[c].route \in Route /\ calls[c] \in SentOn(calls[c].route)
           /\ calls[c].cred \in Credential /\ calls[c].at \in Nat
           /\ calls[c].at <= store.seq
           /\ \A k \in KeysOf(calls[c].route) :
                 calls[c].guard[k] \in Nat /\ calls[c].guard[k] <= calls[c].at
<1>1. CallFence(calls[c], store.seq)
  BY DEF CallsFence
<1>2. PICK r \in Route : /\ calls[c] \in SentOn(r) /\ calls[c].at <= store.seq
                         /\ \A k \in KeysOf(r) : calls[c].guard[k] <= calls[c].at
  BY <1>1 DEF CallFence, Idle
<1>3. calls[c].route = r
  BY <1>2 DEF SentOn
<1>4. /\ calls[c].cred \in Credential /\ calls[c].at \in Nat
      /\ calls[c].guard \in [KeysOf(r) -> Nat]
  BY <1>2 DEF SentOn
<1>. QED  BY <1>2, <1>3, <1>4

\* A request that has not been admitted, taken apart.
LEMMA ReadyCall ==
    ASSUME CallsFence, NEW c \in Call, calls[c].pc = "ready"
    PROVE  calls[c].route \in Route /\ calls[c].cred \in Credential
<1>1. CallFence(calls[c], store.seq)
  BY DEF CallsFence
<1>. QED  BY <1>1 DEF CallFence, Idle, SentOn

\* The other requests stay fenced while the sequence grows.
LEMMA CallStep ==
    ASSUME CallsFence, StoreFence, StoreFence', store.seq <= store'.seq,
           NEW c \in Call, NEW e, CallFence(e, store'.seq),
           calls' = [calls EXCEPT ![c] = e]
    PROVE  CallsFence'
<1>1. store.seq \in Nat /\ store'.seq \in Nat
  BY DEF StoreFence, StoreType
<1>2. DOMAIN calls' = Call /\ calls'[c] = e /\ \A d \in Call \ {c} : calls'[d] = calls[d]
  BY DEF CallsFence
<1>3. ASSUME NEW d \in Call PROVE CallFence(calls[d], store'.seq)
  <2>1. CallFence(calls[d], store.seq)
    BY DEF CallsFence
  <2>2. ASSUME NEW r \in Route, calls[d] \in SentOn(r), calls[d].at <= store.seq
        PROVE  calls[d].at <= store'.seq
    <3>1. calls[d].at \in Nat
      BY <2>2 DEF SentOn
    <3>. QED  BY <3>1, <2>2, <1>1
  <2>. QED  BY <2>1, <2>2 DEF CallFence
<1>. QED  BY <1>2, <1>3 DEF CallsFence

\* And all of them when none of them moves.
LEMMA CallsStay ==
    ASSUME CallsFence, StoreFence, StoreFence', store.seq <= store'.seq, calls' = calls
    PROVE  CallsFence'
<1>. SUFFICES ASSUME NEW c \in Call PROVE CallFence(calls[c], store'.seq)
  BY DEF CallsFence
<1>1. store.seq \in Nat /\ store'.seq \in Nat /\ CallFence(calls[c], store.seq)
  BY DEF CallsFence, StoreFence, StoreType
<1>2. ASSUME NEW r \in Route, calls[c] \in SentOn(r), calls[c].at <= store.seq
      PROVE  calls[c].at <= store'.seq
  <2>1. calls[c].at \in Nat
    BY <1>2 DEF SentOn
  <2>. QED  BY <2>1, <1>1, <1>2
<1>. QED  BY <1>1, <1>2 DEF CallFence

\* Observing a credential keeps the fence.
LEMMA ObserveFence ==
    ASSUME StoreFence, NEW p, NEW v, ObserveCredential(p, v)
    PROVE  StoreFence' /\ store.seq <= store'.seq
<1>1. Outdated(p, v) \in SUBSET Key
  BY DEF Outdated, Blocked
<1>2. Succeeds(Remove(store, Outdated(p, v)))
  BY <1>1, StoreSucceeds, RemoveSucceeds
<1>. QED  BY <1>2, CommitFence DEF ObserveCredential

\* The invariant holds initially.
LEMMA InitInv == Init => IInv
<1>. SUFFICES ASSUME Init PROVE IInv
  OBVIOUS
<1>1. store \in StoreType /\ StoreFence
  BY DEF Init, StoreFence, StoreType
<1>2. CallsFence
  BY DEF Init, CallsFence, CallFence
<1>3. Environment
  BY KeysTyped, ScopeAssumption DEF Init, Environment
<1>. QED  BY <1>1, <1>2, <1>3 DEF IInv

\* Admission, of a request or of a native attempt.
LEMMA AdmitInv ==
    ASSUME IInv, NEW c \in Call, NEW r \in Route, NEW v \in Credential, AdmitAs(c, r, v)
    PROVE  IInv'
<1>. DEFINE s == ExpireIfDue(store, KeysOfProvider(ProviderOf[r]))
<1>0. StoreFence /\ CallsFence /\ Environment
  BY DEF IInv
<1>1. KeysOfProvider(ProviderOf[r]) \in SUBSET Key
  BY KeysTyped
<1>2. Succeeds(s)
  BY <1>0, <1>1, StoreSucceeds, ExpireSucceeds
<1>3. Commit(s)
  BY DEF AdmitAs
<1>. HIDE DEF s
<1>4. StoreFence' /\ store.seq <= store'.seq
  BY <1>0, <1>2, <1>3, CommitFence
<1>5. store'.seq \in Nat /\ store'.floor \in Nat
  BY <1>4 DEF StoreFence, StoreType
<1>6. CASE Blocking(s, r) = {}
  <2>. DEFINE e == [pc |-> "sent", route |-> r, cred |-> v,
                    guard |-> Capture(store', r), refreshed |-> FALSE,
                    at |-> store'.seq, floor |-> store'.floor]
  <2>1. calls' = [calls EXCEPT ![c] = e] /\ promise' = promise
    BY <1>6 DEF AdmitAs, s
  <2>2. /\ Capture(store', r) \in [KeysOf(r) -> Nat]
        /\ \A k \in KeysOf(r) : Capture(store', r)[k] <= store'.seq
    <3>1. \A k \in KeysOf(r) : /\ store'.gens[k] \in Nat
                              /\ store'.gens[k] <= store'.seq
      BY <1>4, KeysTyped DEF StoreFence, StoreType
    <3>. QED  BY <3>1, <1>5 DEF Capture
  <2>3. e \in SentOn(r) /\ e.at <= store'.seq /\ \A k \in KeysOf(r) : e.guard[k] <= e.at
    BY <2>2, <1>5 DEF SentOn
  <2>4. CallFence(e, store'.seq)
    BY <2>3 DEF CallFence
  <2>. HIDE DEF e
  <2>5. CallsFence'
    BY <2>1, <2>4, <1>0, <1>4, CallStep
  <2>6. Environment'
    BY <2>1, <1>0 DEF Environment, AdmitAs
  <2>. QED  BY <1>4, <2>5, <2>6 DEF IInv
<1>7. CASE Blocking(s, r) # {}
  <2>1. /\ calls' = [calls EXCEPT ![c] = Idle]
        /\ \E t \in {s.blocks[k].until : k \in Blocking(s, r)} :
              promise' = [promise EXCEPT ![r] = t]
    BY <1>7 DEF AdmitAs, s
  <2>2. CallFence(Idle, store'.seq)
    BY DEF CallFence
  <2>3. CallsFence'
    BY <2>1, <2>2, <1>0, <1>4, CallStep
  <2>4. \A k \in Blocking(s, r) : s.blocks[k].until \in Nat
    <3>1. \A k \in Blocking(s, r) : k \in Key /\ s.blocks[k] # NoBlock
      BY <1>0, KeysTyped DEF Blocking, Applying, Environment, KeysOf
    <3>2. \A k \in Blocking(s, r) : s.blocks[k] \in Block
      BY <3>1, <1>2 DEF Succeeds, StoreType
    <3>. QED  BY <3>2 DEF Block
  <2>5. promise' \in [Route -> Nat]
    BY <2>1, <2>4, <1>0 DEF Environment
  <2>6. Environment'
    BY <2>5, <1>0 DEF Environment, AdmitAs
  <2>. QED  BY <1>4, <2>3, <2>6 DEF IInv
<1>. QED  BY <1>6, <1>7

\* The scope a failure claims applies to the route (scopeFor).
LEMMA ScopeApplies ==
    ASSUME NEW r \in Route, NEW f \in Failure(r)
    PROVE  ScopeFor(r, f) \in KeysOf(r)
<1>. DEFINE named == IF f.pool = NoKey THEN PoolsOf[r] ELSE PoolsOf[r] \cap {f.pool}
<1>1. Cardinality(named) = 1 => (CHOOSE k \in named : TRUE) \in PoolsOf[r]
  <2>1. Cardinality(named) = 1 => named # {}
    BY FS_EmptySet
  <2>2. named \subseteq PoolsOf[r]
    OBVIOUS
  <2>. HIDE DEF named
  <2>. QED  BY <2>1, <2>2
<1>2. \/ ScopeFor(r, f) = ProviderKey[ProviderOf[r]]
      \/ Cardinality(named) = 1 /\ ScopeFor(r, f) = (CHOOSE k \in named : TRUE)
      \/ ScopeFor(r, f) = RouteKey[r]
  BY DEF ScopeFor
<1>. HIDE DEF named
<1>. QED  BY <1>1, <1>2, KeysTyped

\* What mark() writes: the block it opens is a block, on a scope of the route.
LEMMA FaultMarks ==
    ASSUME IInv, NEW c \in Call, Fault(c)
    PROVE  \E k \in KeysOf(calls[c].route), b \in Block :
              /\ ~Fenced(c, k) /\ b.open /\ b.gen = store.seq + 1
              /\ Commit(ReadBack(c, Marked(store, k, b)))
              /\ promise' = [q \in Route |-> IF k \in KeysOf(q) THEN 0 ELSE promise[q]]
<1>0. StoreFence /\ CallsFence /\ Environment
  BY DEF IInv
<1>. DEFINE r == calls[c].route
            B(f, k, u) == [open |-> TRUE, gen |-> store.seq + 1,
                       failures |-> FailuresOf(k) + 1, until |-> u,
                       resets |-> f.reset # 0, auth |-> f.auth,
                       cred |-> IF c \in Native THEN NoCred ELSE calls[c].cred,
                       used |-> calls[c].cred, timer |-> TimerAt(u)]
<1>1. PICK f \in Failure(r) :
        /\ ~Fenced(c, ScopeFor(r, f))
        /\ \E u \in 0 .. MaxTime : Commit(ReadBack(c, Marked(store, ScopeFor(r, f), B(f, ScopeFor(r, f), u))))
        /\ promise' = [q \in Route |-> IF ScopeFor(r, f) \in KeysOf(q) THEN 0 ELSE promise[q]]
  BY DEF Fault
<1>2. PICK u \in 0 .. MaxTime :
        Commit(ReadBack(c, Marked(store, ScopeFor(r, f), B(f, ScopeFor(r, f), u))))
  BY <1>1
<1>3. calls[c].pc = "sent"
  BY DEF Fault
<1>4. r \in Route /\ calls[c].cred \in Credential
  BY <1>0, <1>3, SentCall
<1>5. ScopeFor(r, f) \in KeysOf(r)
  BY <1>4, ScopeApplies
<1>. DEFINE k == ScopeFor(r, f)
<1>6. k \in Key
  BY <1>4, <1>5, KeysTyped
<1>7. FailuresOf(k) \in Nat
  <2>. HIDE DEF k
  <2>1. store.blocks[k] \in Block \cup {NoBlock}
    BY <1>0, <1>6 DEF StoreFence, StoreType
  <2>. QED  BY <2>1 DEF FailuresOf, Block
<1>8. f.auth \in BOOLEAN
  BY <1>1 DEF Failure
<1>9. u \in Nat /\ now \in Nat /\ store.seq \in Nat
  BY <1>0, <1>2, BoundAssumption DEF StoreFence, StoreType, Environment
<1>10. TimerAt(u) \in Nat /\ TimerAt(u) <= u
  BY <1>9, BoundAssumption DEF TimerAt
<1>11. B(f, k, u) \in Block /\ B(f, k, u).open /\ B(f, k, u).gen = store.seq + 1
  <2>. HIDE DEF k, r
  <2>. QED  BY <1>4, <1>7, <1>8, <1>9, <1>10 DEF Block
<1>. HIDE DEF B
<1>. QED  BY <1>1, <1>2, <1>5, <1>11

\* One step of any action keeps the invariant.
LEMMA NextInv == IInv /\ [Next]_vars => IInv'
<1>. SUFFICES ASSUME IInv, [Next]_vars PROVE IInv'
  OBVIOUS
<1>0. StoreFence /\ CallsFence /\ Environment /\ store.seq \in Nat /\ Succeeds(store)
  BY StoreSucceeds DEF IInv
<1>1. \A n \in Nat : CallFence(Idle, n)
  BY DEF CallFence
<1>2. ASSUME NEW c \in Call, NEW r \in Route, BeginRequest(c, r) PROVE IInv'
  <2>. DEFINE e == [pc |-> "ready", route |-> r, cred |-> cred[ProviderOf[r]]]
  <2>1. StoreFence' /\ store.seq <= store'.seq
    BY <1>2, <1>0, ObserveFence DEF BeginRequest
  <2>2. e \in [pc : {"ready"}, route : Route, cred : Credential]
    BY <1>0, KeysTyped DEF Environment
  <2>3. CallFence(e, store'.seq)
    BY <2>2 DEF CallFence
  <2>4. calls' = [calls EXCEPT ![c] = e]
    BY <1>2 DEF BeginRequest
  <2>. HIDE DEF e
  <2>5. CallsFence'
    BY <2>1, <2>3, <2>4, <1>0, CallStep
  <2>6. Environment'
    BY <1>2, <1>0 DEF BeginRequest, Environment
  <2>. QED  BY <2>1, <2>5, <2>6 DEF IInv
<1>3. ASSUME NEW c \in Call, Admit(c) PROVE IInv'
  <2>1. calls[c].route \in Route /\ calls[c].cred \in Credential
    BY <1>3, <1>0, ReadyCall DEF Admit
  <2>. QED  BY <2>1, <1>3, AdmitInv DEF Admit
<1>4. ASSUME NEW c \in Call, NEW r \in Route, AdmitNative(c, r) PROVE IInv'
  <2>1. cred[ProviderOf[r]] \in Credential
    BY <1>0, KeysTyped DEF Environment
  <2>. QED  BY <2>1, <1>4, AdmitInv DEF AdmitNative
<1>5. ASSUME NEW c \in Call, Refresh(c) PROVE IInv'
  <2>. DEFINE r == calls[c].route
              p == ProviderOf[r]
              e == [calls[c] EXCEPT !.refreshed = TRUE, !.cred = cred[p]]
  <2>1. StoreFence' /\ store.seq <= store'.seq
    BY <1>5, <1>0, ObserveFence DEF Refresh
  <2>2. /\ r \in Route /\ calls[c] \in SentOn(r) /\ calls[c].at \in Nat
        /\ calls[c].at <= store.seq
        /\ \A k \in KeysOf(r) : calls[c].guard[k] <= calls[c].at
    BY <1>5, <1>0, SentCall DEF Refresh
  <2>3. cred[p] \in Credential
    BY <2>2, <1>0, KeysTyped DEF Environment
  <2>4. calls' = [calls EXCEPT ![c] = e]
    BY <1>5, <1>0 DEF Refresh, CallsFence
  <2>5. /\ e \in SentOn(r) /\ e.at = calls[c].at /\ e.guard = calls[c].guard
    <3>. HIDE DEF r, p
    <3>. QED  BY <2>2, <2>3 DEF SentOn
  <2>6. store'.seq \in Nat
    BY <2>1 DEF StoreFence, StoreType
  <2>7. CallFence(e, store'.seq)
    <3>. HIDE DEF e, r
    <3>. QED  BY <2>1, <2>2, <2>5, <2>6, <1>0 DEF CallFence
  <2>. HIDE DEF e
  <2>8. CallsFence'
    BY <2>1, <2>4, <2>7, <1>0, CallStep
  <2>9. Environment'
    BY <1>5, <1>0 DEF Refresh, Environment
  <2>. QED  BY <2>1, <2>8, <2>9 DEF IInv
<1>6. ASSUME NEW c \in Call, Succeed(c) PROVE IInv'
  <2>. DEFINE r == calls[c].route
              s == ExpireIfDue(store, KeysOfProvider(ProviderOf[r]))
              K == {k \in Applying(s, r) : calls[c].guard[k] = s.gens[k]}
  <2>1. r \in Route
    BY <1>6, <1>0, SentCall DEF Succeed
  <2>2. Succeeds(s)
    BY <2>1, <1>0, KeysTyped, ExpireSucceeds
  <2>3. K \in SUBSET Key
    BY <2>1, <1>0, KeysTyped DEF Applying, Environment
  <2>4. Commit(Remove(s, K))
    BY <1>6 DEF Succeed
  <2>. HIDE DEF K, s
  <2>5. Succeeds(Remove(s, K))
    BY <2>2, <2>3, <1>0, RemoveSucceeds
  <2>6. StoreFence' /\ store.seq <= store'.seq
    BY <2>4, <2>5, <1>0, CommitFence
  <2>7. store'.seq \in Nat /\ calls' = [calls EXCEPT ![c] = Idle]
    BY <2>6, <1>6 DEF StoreFence, StoreType, Succeed
  <2>8. CallsFence'
    BY <2>6, <2>7, <1>0, <1>1, CallStep
  <2>9. Environment'
    BY <1>6, <1>0 DEF Succeed, Environment
  <2>. QED  BY <2>6, <2>8, <2>9 DEF IInv
<1>7. ASSUME NEW c \in Call, Fault(c) PROVE IInv'
  <2>1. calls[c].route \in Route
    BY <1>7, <1>0, SentCall DEF Fault
  <2>2. PICK k \in KeysOf(calls[c].route), b \in Block :
          /\ Commit(ReadBack(c, Marked(store, k, b)))
          /\ promise' = [q \in Route |-> IF k \in KeysOf(q) THEN 0 ELSE promise[q]]
    BY <1>7, FaultMarks
  <2>3. Succeeds(ReadBack(c, Marked(store, k, b)))
    BY <2>1, <2>2, <1>0, KeysTyped, MarkedSucceeds, ReadBackSucceeds
  <2>4. StoreFence' /\ store.seq <= store'.seq
    BY <2>2, <2>3, <1>0, CommitFence
  <2>5. store'.seq \in Nat /\ calls' = [calls EXCEPT ![c] = Idle]
    BY <2>4, <1>7 DEF StoreFence, StoreType, Fault
  <2>6. CallsFence'
    BY <2>4, <2>5, <1>0, <1>1, CallStep
  <2>7. promise' \in [Route -> Nat]
    BY <2>2, <1>0 DEF Environment
  <2>8. Environment'
    BY <2>7, <1>7, <1>0 DEF Fault, Environment
  <2>. QED  BY <2>4, <2>6, <2>8 DEF IInv
<1>8. ASSUME NEW c \in Call, Drop(c) PROVE IInv'
  <2>1. StoreFence' /\ store.seq <= store'.seq /\ store'.seq \in Nat
    BY <1>8, <1>0 DEF Drop, StoreFence
  <2>2. calls' = [calls EXCEPT ![c] = Idle]
    BY <1>8 DEF Drop
  <2>3. CallsFence'
    BY <2>1, <2>2, <1>0, <1>1, CallStep
  <2>4. Environment'
    BY <1>8, <1>0 DEF Drop, Environment
  <2>. QED  BY <2>1, <2>3, <2>4 DEF IInv
<1>9. ASSUME NEW p \in Provider, ListModels(p) PROVE IInv'
  <2>1. StoreFence' /\ store.seq <= store'.seq
    BY <1>9, <1>0, ObserveFence DEF ListModels
  <2>2. CallsFence'
    BY <2>1, <1>9, <1>0, CallsStay DEF ListModels
  <2>3. Environment'
    BY <1>9, <1>0 DEF ListModels, Environment
  <2>. QED  BY <2>1, <2>2, <2>3 DEF IInv
<1>10. ASSUME NEW p \in Provider, Status(p) PROVE IInv'
  <2>1. Succeeds(ExpireIfDue(store, KeysOfProvider(p)))
    BY <1>0, KeysTyped, ExpireSucceeds
  <2>2. StoreFence' /\ store.seq <= store'.seq
    BY <2>1, <1>10, <1>0, CommitFence DEF Status
  <2>3. CallsFence'
    BY <2>2, <1>10, <1>0, CallsStay DEF Status
  <2>4. Environment'
    BY <1>10, <1>0 DEF Status, Environment
  <2>. QED  BY <2>2, <2>3, <2>4 DEF IInv
<1>11. ASSUME NEW p \in Provider, ClearProvider(p) PROVE IInv'
  <2>. DEFINE K == KeysOfProvider(p) \cap Blocked(store)
              a == Advance(store, {ProviderKey[p]})
  <2>1. K \in SUBSET Key /\ {ProviderKey[p]} \in SUBSET Key
    BY KeysTyped
  <2>2. Commit(Remove(a, K))
    BY <1>11 DEF ClearProvider
  <2>3. Succeeds(a)
    BY <2>1, <1>0, AdvanceSucceeds
  <2>. HIDE DEF K, a
  <2>4. Succeeds(Remove(a, K))
    BY <2>1, <2>3, <1>0, RemoveSucceeds
  <2>5. StoreFence' /\ store.seq <= store'.seq
    BY <2>2, <2>4, <1>0, CommitFence
  <2>6. CallsFence'
    BY <2>5, <1>11, <1>0, CallsStay DEF ClearProvider
  <2>7. Environment'
    BY <1>11, <1>0 DEF ClearProvider, Environment
  <2>. QED  BY <2>5, <2>6, <2>7 DEF IInv
<1>12. ASSUME NEW p \in Provider, Rotate(p) PROVE IInv'
  <2>1. StoreFence' /\ store.seq <= store'.seq /\ calls' = calls
    BY <1>12, <1>0 DEF Rotate, StoreFence
  <2>2. CallsFence'
    BY <2>1, <1>0, CallsStay
  <2>3. Environment'
    BY <1>12, <1>0 DEF Rotate, Environment
  <2>. QED  BY <2>1, <2>2, <2>3 DEF IInv
<1>13. ASSUME NEW r \in Route, SwitchFunding(r) PROVE IInv'
  <2>1. StoreFence' /\ store.seq <= store'.seq /\ calls' = calls
    BY <1>13, <1>0 DEF SwitchFunding, StoreFence
  <2>2. CallsFence'
    BY <2>1, <1>0, CallsStay
  <2>3. /\ funding' \in [Route -> SUBSET Key] /\ \A q \in Route : funding'[q] \subseteq PoolsOf[q]
        /\ promise' \in [Route -> Nat]
    BY <1>13, <1>0, KeysTyped DEF SwitchFunding, Environment
  <2>4. Environment'
    BY <2>3, <1>13, <1>0 DEF SwitchFunding, Environment
  <2>. QED  BY <2>1, <2>2, <2>4 DEF IInv
<1>14. ASSUME NEW k \in Key, TimerFires(k) PROVE IInv'
  <2>1. StoreFence' /\ store.seq <= store'.seq
    <3>1. CASE Due(store, k)
      <4>1. Succeeds(ExpireIfDue(store, {k}))
        BY <1>0, ExpireSucceeds
      <4>. QED  BY <4>1, <3>1, <1>14, <1>0, CommitFence DEF TimerFires
    <3>2. CASE ~Due(store, k)
      <4>. DEFINE b == [store.blocks[k] EXCEPT !.timer = TimerAt(store.blocks[k].until)]
                  m == [store.blocks EXCEPT ![k] = b]
      <4>1. store' = [store EXCEPT !.blocks = m] /\ truth' = truth
        BY <3>2, <1>14 DEF TimerFires
      <4>2. store \in StoreType /\ store.blocks[k] \in Block /\ store.blocks[k] # NoBlock
        BY <1>14, <1>0 DEF TimerFires, Blocked, StoreFence, StoreType
      <4>3. store.blocks[k].until \in Nat /\ now \in Nat /\ MaxTimer \in Nat
        BY <4>2, <1>0, BoundAssumption DEF Block, Environment
      <4>4. /\ TimerAt(store.blocks[k].until) \in Nat
            /\ TimerAt(store.blocks[k].until) <= store.blocks[k].until
        BY <4>3 DEF TimerAt
      <4>5. b \in Block
        BY <4>2, <4>4 DEF Block
      <4>. HIDE DEF b
      <4>6. m \in [Key -> Block \cup {NoBlock}] /\ \A j \in Key \ {k} : m[j] = store.blocks[j]
        BY <4>2, <4>5 DEF StoreType
      <4>. HIDE DEF m
      <4>7. /\ store' \in StoreType /\ store'.blocks = m /\ store'.gens = store.gens
            /\ store'.seq = store.seq /\ store'.floor = store.floor
        BY <4>1, <4>2, <4>6 DEF StoreType
      <4>. QED  BY <4>1, <4>2, <4>6, <4>7, <1>0 DEF StoreFence
    <3>. QED  BY <3>1, <3>2
  <2>2. CallsFence'
    BY <2>1, <1>14, <1>0, CallsStay DEF TimerFires
  <2>3. Environment'
    BY <1>14, <1>0 DEF TimerFires, Environment
  <2>. QED  BY <2>1, <2>2, <2>3 DEF IInv
<1>15. ASSUME Tick PROVE IInv'
  <2>1. StoreFence' /\ store.seq <= store'.seq /\ calls' = calls
    BY <1>15, <1>0 DEF Tick, StoreFence
  <2>2. CallsFence'
    BY <2>1, <1>0, CallsStay
  <2>3. Environment'
    BY <1>15, <1>0 DEF Tick, Environment
  <2>. QED  BY <2>1, <2>2, <2>3 DEF IInv
<1>16. ASSUME UNCHANGED vars PROVE IInv'
  <2>1. StoreFence' /\ store.seq <= store'.seq /\ calls' = calls
    BY <1>16, <1>0 DEF vars, StoreFence
  <2>2. CallsFence'
    BY <2>1, <1>0, CallsStay
  <2>3. Environment'
    BY <1>16, <1>0 DEF vars, Environment
  <2>. QED  BY <2>1, <2>2, <2>3 DEF IInv
<1>17. ASSUME NEW c \in Call, Late(c) PROVE IInv'
  <2>1. Succeeds(ReadBack(c, store))
    BY <1>17, <1>0, SentCall, KeysTyped, ReadBackSucceeds DEF Late
  <2>2. StoreFence' /\ store.seq <= store'.seq
    BY <2>1, <1>17, <1>0, CommitFence DEF Late
  <2>3. store'.seq \in Nat /\ calls' = [calls EXCEPT ![c] = Idle]
    BY <2>2, <1>17 DEF StoreFence, StoreType, Late
  <2>4. CallsFence'
    BY <2>2, <2>3, <1>0, <1>1, CallStep
  <2>5. Environment'
    BY <1>17, <1>0 DEF Late, Environment
  <2>. QED  BY <2>2, <2>4, <2>5 DEF IInv
<1>. QED
  BY <1>2, <1>3, <1>4, <1>5, <1>6, <1>7, <1>8, <1>9, <1>10, <1>11, <1>12, <1>13,
     <1>14, <1>15, <1>16, <1>17 DEF Next

\* The invariant holds in every reachable state.
THEOREM RouteInvariance == Spec => []IInv
BY InitInv, NextInv, PTL DEF Spec

(***************************************************************************)
(* The theorems.                                                           *)
(***************************************************************************)

\* Every reachable state is typed, and no timer runs beyond its block's end
\* (schedule), for every timer limit and every backoff.
THEOREM RouteTypeCorrect == Spec => []TypeOK
<1>1. IInv => TypeOK
  <2>. SUFFICES ASSUME IInv PROVE TypeOK
    OBVIOUS
  <2>1. ASSUME NEW c \in Call PROVE CallOK(c)
    <3>1. CallFence(calls[c], store.seq)
      BY DEF IInv, CallsFence
    <3>. QED  BY <3>1 DEF CallFence, CallOK, SentOn
  <2>. QED  BY <2>1 DEF IInv, StoreFence, CallsFence, Environment, TypeOK
<1>. QED  BY <1>1, RouteInvariance, PTL

\* The generation mark() reads is at least the scope's last change, evicted or not.
LEMMA CurrentCovers ==
    ASSUME IInv, NEW k \in Key
    PROVE  /\ Current(store, k) \in Nat /\ truth[k] \in Nat
           /\ truth[k] <= Current(store, k)
BY DEF IInv, StoreFence, StoreType, Current

\* The fence forgets nothing, for every number of scopes and tombstones: a scope
\* that changed after a request was admitted reads newer than its guard, even
\* when pruneGenerations evicted the scope's tombstone since.
THEOREM FenceSoundHolds == Spec => []FenceSound
<1>1. IInv => FenceSound
  <2>. SUFFICES ASSUME IInv, NEW c \in Sent, NEW k \in KeysOf(calls[c].route),
                       truth[k] > calls[c].at
                PROVE  Current(store, k) > calls[c].guard[k]
    BY DEF FenceSound
  <2>1. /\ calls[c].route \in Route /\ calls[c].at \in Nat
        /\ calls[c].guard[k] \in Nat /\ calls[c].guard[k] <= calls[c].at
    BY SentCall DEF IInv, Sent
  <2>2. /\ Current(store, k) \in Nat /\ truth[k] \in Nat /\ truth[k] <= Current(store, k)
    BY <2>1, KeysTyped, CurrentCovers
  <2>. QED  BY <2>1, <2>2
<1>. QED  BY <1>1, RouteInvariance, PTL

\* Only the completions end a request in flight.
LEMMA EndsHow ==
    ASSUME IInv, Next, NEW c \in Call, Ends(c)
    PROVE  Succeed(c) \/ Fault(c) \/ Late(c) \/ Drop(c)
<1>0. DOMAIN calls = Call /\ calls[c].pc = "sent" /\ calls'[c] = Idle /\ calls[c] # Idle
  BY DEF IInv, CallsFence, Ends, Idle
<1>1. ASSUME NEW d \in Call, NEW e, calls' = [calls EXCEPT ![d] = e] PROVE d = c /\ e = Idle
  BY <1>0, <1>1
<1>2. ASSUME calls' = calls PROVE FALSE
  BY <1>0, <1>2
<1>3. \A d \in Call : Succeed(d) \/ Fault(d) \/ Late(d) \/ Drop(d) => d = c
  BY <1>1 DEF Succeed, Fault, Late, Drop
<1>4. ASSUME NEW d \in Call, NEW r \in Route, BeginRequest(d, r) PROVE FALSE
  BY <1>4, <1>0, <1>1 DEF BeginRequest
<1>5. ASSUME NEW d \in Call, NEW r \in Route, AdmitNative(d, r) PROVE FALSE
  <2>1. \E e : calls' = [calls EXCEPT ![d] = e]
    BY <1>5 DEF AdmitNative, AdmitAs
  <2>. QED  BY <2>1, <1>0, <1>1, <1>5 DEF AdmitNative
<1>6. ASSUME NEW d \in Call, Admit(d) PROVE FALSE
  <2>1. \E e : calls' = [calls EXCEPT ![d] = e]
    BY <1>6 DEF Admit, AdmitAs
  <2>. QED  BY <2>1, <1>0, <1>1, <1>6 DEF Admit
<1>7. ASSUME NEW d \in Call, Refresh(d) PROVE FALSE
  <2>. DEFINE p == ProviderOf[calls[d].route]
              e == [calls[d] EXCEPT !.refreshed = TRUE, !.cred = cred[p]]
  <2>1. calls' = [calls EXCEPT ![d] = e]
    BY <1>7, <1>0 DEF Refresh
  <2>2. d = c /\ e = Idle
    BY <2>1, <1>1
  <2>3. calls[c] \in SentOn(calls[c].route)
    BY <1>0, SentCall DEF IInv
  <2>4. e.pc = "sent"
    BY <2>2, <2>3 DEF SentOn
  <2>. QED  BY <2>2, <2>4 DEF Idle
<1>8. \A p \in Provider : ~ListModels(p) /\ ~Status(p) /\ ~ClearProvider(p) /\ ~Rotate(p)
  BY <1>2 DEF ListModels, Status, ClearProvider, Rotate
<1>9. \A r \in Route : ~SwitchFunding(r)
  BY <1>2 DEF SwitchFunding
<1>10. (\A k \in Key : ~TimerFires(k)) /\ ~Tick
  BY <1>2 DEF TimerFires, Tick
<1>. QED  BY <1>3, <1>4, <1>5, <1>6, <1>7, <1>8, <1>9, <1>10 DEF Next

\* What success() does to the blocks: none opens or changes openly, and one that
\* goes was captured at its last change or was due with a reset.
LEMMA SucceedBlocks ==
    ASSUME IInv, NEW c \in Call, Succeed(c), NEW k \in Key
    PROVE  /\ store'.blocks[k].open => store'.blocks[k] = store.blocks[k]
           /\ store.blocks[k] # NoBlock /\ store'.blocks[k] = NoBlock =>
                 \/ truth[k] <= calls[c].at
                 \/ Due(store, k) /\ store.blocks[k].resets
<1>. DEFINE r == calls[c].route
            s == ExpireIfDue(store, KeysOfProvider(ProviderOf[r]))
            K == {j \in Applying(s, r) : calls[c].guard[j] = s.gens[j]}
<1>0. StoreFence /\ CallsFence /\ Environment /\ store.seq \in Nat /\ Succeeds(store)
  BY StoreSucceeds DEF IInv
<1>1. /\ r \in Route /\ calls[c].at \in Nat
      /\ \A j \in KeysOf(r) : calls[c].guard[j] \in Nat /\ calls[c].guard[j] <= calls[c].at
  BY <1>0, SentCall DEF Succeed
<1>2. /\ Succeeds(s)
      /\ \/ s.blocks[k] = store.blocks[k] /\ s.gens[k] = store.gens[k]
         \/ ~s.blocks[k].open /\ s.blocks[k] \in Block /\ s.gens[k] = store.gens[k]
         \/ s.blocks[k] = NoBlock /\ Due(store, k) /\ store.blocks[k].resets
  BY <1>1, <1>0, KeysTyped, ExpireSucceeds
<1>3. K \in SUBSET Key /\ K \subseteq KeysOf(r)
  BY <1>1, <1>0, KeysTyped DEF Applying, Environment, KeysOf
<1>4. \A j \in K : calls[c].guard[j] = s.gens[j] /\ s.blocks[j] # NoBlock
  BY DEF Applying
<1>5. Commit(Remove(s, K))
  BY DEF Succeed
<1>. HIDE DEF s, K
<1>6. /\ Succeeds(Remove(s, K))
      /\ Remove(s, K).blocks[k] = IF k \in K THEN NoBlock ELSE s.blocks[k]
  BY <1>2, <1>3, <1>0, RemoveSucceeds
<1>7. store'.blocks = Remove(s, K).blocks
  BY <1>5, <1>6, <1>0, CommitFence
<1>8. ~NoBlock.open
  BY DEF NoBlock
<1>9. store.blocks[k] # NoBlock => store.gens[k] = truth[k]
  BY <1>0 DEF StoreFence
<1>10. store'.blocks[k].open => store'.blocks[k] = store.blocks[k]
  BY <1>2, <1>6, <1>7, <1>8
<1>11. ASSUME store.blocks[k] # NoBlock, k \in K
       PROVE  truth[k] <= calls[c].at
  <2>1. s.gens[k] = store.gens[k]
    BY <1>2, <1>4, <1>11
  <2>. QED  BY <2>1, <1>1, <1>3, <1>4, <1>9, <1>11
<1>12. ASSUME store.blocks[k] # NoBlock, k \notin K, s.blocks[k] = NoBlock
       PROVE  Due(store, k) /\ store.blocks[k].resets
  <2>1. NoBlock \notin Block
    BY DEF NoBlock, Block
  <2>. QED  BY <2>1, <1>2, <1>12
<1>. QED  BY <1>6, <1>7, <1>10, <1>11, <1>12

\* What mark() does to the blocks: a block it opens is on a scope that was not
\* changed, and nor was its provider's, since the request was admitted; one that
\* goes was due with a reset.
LEMMA FaultBlocks ==
    ASSUME IInv, NEW c \in Call, Fault(c), NEW k \in Key
    PROVE  /\ store'.blocks[k].open /\ store'.blocks[k] # store.blocks[k] =>
                 /\ truth[k] <= calls[c].at
                 /\ truth[ProviderKey[ProviderOf[calls[c].route]]] <= calls[c].at
           /\ store.blocks[k] # NoBlock /\ store'.blocks[k] = NoBlock =>
                 \/ truth[k] <= calls[c].at
                 \/ Due(store, k) /\ store.blocks[k].resets
<1>. DEFINE r == calls[c].route
            pk == ProviderKey[ProviderOf[r]]
<1>0. StoreFence /\ CallsFence /\ store.seq \in Nat /\ Succeeds(store)
  BY StoreSucceeds DEF IInv
<1>1. /\ r \in Route /\ calls[c].at \in Nat
      /\ \A j \in KeysOf(r) : calls[c].guard[j] \in Nat /\ calls[c].guard[j] <= calls[c].at
  BY <1>0, SentCall DEF Fault
<1>2. PICK j \in KeysOf(r), b \in Block :
        ~Fenced(c, j) /\ b.open /\ Commit(ReadBack(c, Marked(store, j, b)))
  BY FaultMarks
<1>3. j \in Key /\ pk \in Key /\ pk \in KeysOf(r)
  BY <1>1, <1>2, KeysTyped
<1>4. /\ ~(Current(store, j) > calls[c].guard[j])
      /\ ~(Current(store, pk) > calls[c].guard[pk])
  BY <1>2 DEF Fenced
<1>5. /\ Current(store, j) \in Nat /\ truth[j] \in Nat /\ truth[j] <= Current(store, j)
      /\ Current(store, pk) \in Nat /\ truth[pk] \in Nat /\ truth[pk] <= Current(store, pk)
  BY <1>3, CurrentCovers
<1>6. truth[j] <= calls[c].at /\ truth[pk] <= calls[c].at
  <2>. HIDE DEF pk, r
  <2>. QED  BY <1>1, <1>2, <1>3, <1>4, <1>5
<1>. DEFINE m == Marked(store, j, b)
            e == ReadBack(c, m)
<1>7. Succeeds(m) /\ m.blocks = [store.blocks EXCEPT ![j] = b]
  BY <1>0, <1>2, <1>3, MarkedSucceeds
<1>8. store.blocks \in [Key -> Block \cup {NoBlock}]
  BY <1>0 DEF StoreFence, StoreType
<1>. HIDE DEF m
<1>9. /\ Succeeds(e)
      /\ \/ e.blocks[k] = m.blocks[k]
         \/ ~e.blocks[k].open /\ e.blocks[k] \in Block
         \/ e.blocks[k] = NoBlock /\ Due(m, k) /\ m.blocks[k].resets
  BY <1>0, <1>1, <1>7, KeysTyped, ReadBackSucceeds
<1>10. Commit(e)
  BY <1>2 DEF m
<1>. HIDE DEF e
<1>11. store'.blocks = e.blocks
  BY <1>0, <1>9, <1>10, CommitFence
<1>12. k # j => m.blocks[k] = store.blocks[k] /\ (Due(m, k) => Due(store, k))
  BY <1>3, <1>7, <1>8 DEF Due
<1>13. NoBlock \notin Block /\ ~NoBlock.open
  BY DEF NoBlock, Block
<1>. QED  BY <1>6, <1>9, <1>11, <1>12, <1>13

\* What a late failure does to the blocks: none opens, and one that goes was due
\* with a reset.
LEMMA LateBlocks ==
    ASSUME IInv, NEW c \in Call, Late(c), NEW k \in Key
    PROVE  /\ store'.blocks[k].open => store'.blocks[k] = store.blocks[k]
           /\ store.blocks[k] # NoBlock /\ store'.blocks[k] = NoBlock =>
                 Due(store, k) /\ store.blocks[k].resets
<1>0. StoreFence /\ CallsFence /\ store.seq \in Nat /\ Succeeds(store)
  BY StoreSucceeds DEF IInv
<1>. DEFINE e == ReadBack(c, store)
<1>1. /\ Succeeds(e)
      /\ \/ e.blocks[k] = store.blocks[k]
         \/ ~e.blocks[k].open /\ e.blocks[k] \in Block
         \/ e.blocks[k] = NoBlock /\ Due(store, k) /\ store.blocks[k].resets
  BY <1>0, SentCall, KeysTyped, ReadBackSucceeds DEF Late
<1>2. Commit(e)
  BY DEF Late
<1>. HIDE DEF e
<1>3. store'.blocks = e.blocks
  BY <1>0, <1>1, <1>2, CommitFence
<1>4. NoBlock \notin Block /\ ~NoBlock.open
  BY DEF NoBlock, Block
<1>. QED  BY <1>1, <1>3, <1>4

\* A failure that comes late never rebuilds a fault, for every interleaving of any
\* number of requests (mark).
THEOREM NoStaleRebuildHolds == Spec => NoStaleRebuild
<1>1. ASSUME IInv, Next, NEW c \in Call, Ends(c), NEW k \in Key,
             store'.blocks[k].open, store'.blocks[k] # store.blocks[k]
      PROVE  /\ truth[k] <= calls[c].at
             /\ truth[ProviderKey[ProviderOf[calls[c].route]]] <= calls[c].at
  <2>1. CASE Succeed(c)
    BY <1>1, <2>1, SucceedBlocks
  <2>2. CASE Fault(c)
    BY <1>1, <2>2, FaultBlocks
  <2>3. CASE Late(c)
    BY <1>1, <2>3, LateBlocks
  <2>4. CASE Drop(c)
    BY <1>1, <2>4 DEF Drop
  <2>. QED  BY <1>1, <2>1, <2>2, <2>3, <2>4, EndsHow
<1>. DEFINE P == \A c \in Call : Ends(c) =>
          \A k \in Key : store'.blocks[k].open /\ store'.blocks[k] # store.blocks[k] =>
              /\ truth[k] <= calls[c].at
              /\ truth[ProviderKey[ProviderOf[calls[c].route]]] <= calls[c].at
<1>2. IInv /\ [Next]_vars => [P]_vars
  BY <1>1
<1>. QED  BY <1>2, RouteInvariance, PTL DEF Spec, NoStaleRebuild

\* A success that comes late never clears a newer fault, for every interleaving of
\* any number of requests (success).
THEOREM NoStaleClearHolds == Spec => NoStaleClear
<1>1. ASSUME IInv, Next, NEW c \in Call, Ends(c), NEW k \in Blocked(store),
             store'.blocks[k] = NoBlock
      PROVE  \/ truth[k] <= calls[c].at
             \/ Due(store, k) /\ store.blocks[k].resets
  <2>0. k \in Key /\ store.blocks[k] # NoBlock
    BY <1>1 DEF Blocked
  <2>1. CASE Succeed(c)
    BY <1>1, <2>0, <2>1, SucceedBlocks
  <2>2. CASE Fault(c)
    BY <1>1, <2>0, <2>2, FaultBlocks
  <2>3. CASE Late(c)
    BY <1>1, <2>0, <2>3, LateBlocks
  <2>4. CASE Drop(c)
    BY <1>1, <2>0, <2>4 DEF Drop
  <2>. QED  BY <1>1, <2>1, <2>2, <2>3, <2>4, EndsHow
<1>. DEFINE P == \A c \in Call : Ends(c) =>
          \A k \in Blocked(store) :
              store'.blocks[k] = NoBlock =>
                  \/ truth[k] <= calls[c].at
                  \/ Due(store, k) /\ store.blocks[k].resets
<1>2. IInv /\ [Next]_vars => [P]_vars
  BY <1>1
<1>. QED  BY <1>2, RouteInvariance, PTL DEF Spec, NoStaleClear

================================================================================
