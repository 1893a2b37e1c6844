------------------------ MODULE RouteStateFence_proofs ------------------------
(***************************************************************************)
(* Further proofs about RouteState: for every number of scopes, requests   *)
(* and tombstones, the generation map stays bounded and keeps what the     *)
(* blocks need, the fence does not refuse a fault that nothing outdated,   *)
(* and a caller that comes back when it was told to is not refused again.  *)
(***************************************************************************)
EXTENDS RouteState_proofs, WellFoundedInduction

(***************************************************************************)
(* What the methods make of a store.                                       *)
(***************************************************************************)

\* The scope keeps the generation its block was opened with.
GenKept(s, k) == s.blocks[k] # NoBlock => s.gens[k] = s.blocks[k].gen

\* No two scopes of s share a generation, none is ahead of the sequence, and a
\* scope that has lost its block since the current store has a newer one.
Orderly(s) ==
    /\ Succeeds(s)
    /\ \A k \in Key : s.gens[k] <= s.seq
    /\ \A j, k \in Key : s.gens[j] # 0 /\ s.gens[j] = s.gens[k] => j = k
    /\ \A k \in Key : store.blocks[k] # NoBlock /\ s.blocks[k] = NoBlock =>
                          store.seq < s.gens[k]

\* A store a method may leave behind.
Methodical(s) == Orderly(s) /\ \A k \in Key : GenKept(s, k)

\* Scopes that advance together get different generations.
LEMMA AdvanceDistinct ==
    ASSUME NEW K \in SUBSET Key, NEW j \in K, NEW k \in K,
           Cardinality({i \in K : i <= j}) = Cardinality({i \in K : i <= k})
    PROVE  j = k
<1>. DEFINE U(n) == {i \in K : i <= n}
<1>1. IsFiniteSet(K) /\ j \in Nat /\ k \in Nat /\ K \subseteq Nat
  BY KeyTyped, FS_Subset
<1>2. IsFiniteSet(U(j)) /\ IsFiniteSet(U(k))
  BY <1>1, FS_Subset
<1>3. j \in U(j) /\ k \in U(k)
  BY <1>1
<1>4. CASE j <= k
  <2>1. U(j) \in SUBSET U(k)
    <3>1. \A i \in K : i \in Nat /\ (i <= j => i <= k)
      BY <1>1, <1>4
    <3>. QED  BY <3>1
  <2>2. U(j) = U(k)
    BY <1>2, <2>1, FS_Subset
  <2>3. k <= j
    BY <1>3, <2>2
  <2>. QED  BY <1>1, <1>4, <2>3
<1>5. CASE k <= j
  <2>1. U(k) \in SUBSET U(j)
    <3>1. \A i \in K : i \in Nat /\ (i <= k => i <= j)
      BY <1>1, <1>5
    <3>. QED  BY <3>1
  <2>2. U(j) = U(k)
    BY <1>2, <2>1, FS_Subset
  <2>3. j <= k
    BY <1>3, <2>2
  <2>. QED  BY <1>1, <1>5, <2>3
<1>. QED  BY <1>1, <1>4, <1>5

\* advanceGeneration keeps the order, and the scopes of K come out ahead.
LEMMA AdvanceOrderly ==
    ASSUME store.seq \in Nat, NEW s, Orderly(s), NEW K \in SUBSET Key
    PROVE  /\ Orderly(Advance(s, K))
           /\ Advance(s, K).blocks = s.blocks
           /\ \A k \in K : store.seq < Advance(s, K).gens[k]
           /\ \A k \in Key \ K : Advance(s, K).gens[k] = s.gens[k]
<1>. DEFINE a == Advance(s, K)
            C(k) == Cardinality({j \in K : j <= k})
<1>1. Succeeds(s) /\ Succeeds(a) /\ a.blocks = s.blocks
  BY AdvanceSucceeds DEF Orderly
<1>2. s \in StoreType /\ s.seq \in Nat /\ store.seq <= s.seq /\ Cardinality(K) \in Nat
  BY <1>1, AdvanceCount DEF Succeeds, StoreType
<1>3. /\ \A k \in K : a.gens[k] = s.seq + C(k)
      /\ \A k \in Key \ K : a.gens[k] = s.gens[k]
      /\ a.seq = s.seq + Cardinality(K)
  BY <1>2 DEF Advance, StoreType
<1>4. \A k \in K : C(k) \in 1 .. Cardinality(K)
  BY AdvanceNumbers
<1>5. \A j, k \in K : C(j) = C(k) => j = k
  BY AdvanceDistinct
<1>6. \A k \in Key : s.gens[k] \in Nat /\ s.gens[k] <= s.seq
  BY <1>2 DEF Orderly, StoreType
<1>. HIDE DEF a, C
<1>7. \A k \in K : a.gens[k] \in Nat /\ s.seq < a.gens[k] /\ a.gens[k] <= a.seq
  BY <1>2, <1>3, <1>4
<1>8. \A k \in Key : a.gens[k] <= a.seq
  <2>1. \A k \in Key \ K : a.gens[k] <= a.seq
    BY <1>2, <1>3, <1>6
  <2>. QED  BY <2>1, <1>7
<1>9. \A j, k \in Key : a.gens[j] # 0 /\ a.gens[j] = a.gens[k] => j = k
  <2>. SUFFICES ASSUME NEW j \in Key, NEW k \in Key, a.gens[j] # 0, a.gens[j] = a.gens[k]
                PROVE  j = k
    OBVIOUS
  <2>1. CASE j \in K /\ k \in K
    <3>1. C(j) = C(k)
      BY <2>1, <1>2, <1>3, <1>4
    <3>. QED  BY <3>1, <2>1, <1>5
  <2>2. CASE j \notin K /\ k \notin K
    BY <2>2, <1>3 DEF Orderly
  <2>3. CASE j \in K /\ k \notin K
    BY <2>3, <1>2, <1>3, <1>6, <1>7
  <2>4. CASE j \notin K /\ k \in K
    BY <2>4, <1>2, <1>3, <1>6, <1>7
  <2>. QED  BY <2>1, <2>2, <2>3, <2>4
<1>10. \A k \in K : store.seq < a.gens[k]
  BY <1>2, <1>7
<1>11. \A k \in Key : store.blocks[k] # NoBlock /\ a.blocks[k] = NoBlock =>
                          store.seq < a.gens[k]
  <2>. SUFFICES ASSUME NEW k \in Key, store.blocks[k] # NoBlock, a.blocks[k] = NoBlock
                PROVE  store.seq < a.gens[k]
    OBVIOUS
  <2>1. CASE k \in K
    BY <2>1, <1>10
  <2>2. CASE k \notin K
    BY <2>2, <1>1, <1>3 DEF Orderly
  <2>. QED  BY <2>1, <2>2
<1>12. Orderly(a)
  BY <1>1, <1>8, <1>9, <1>11 DEF Orderly
<1>. QED  BY <1>1, <1>3, <1>10, <1>12 DEF a

\* remove leaves a store a method may leave behind, when the scopes that stay keep
\* their generation.
LEMMA RemoveMethodical ==
    ASSUME store.seq \in Nat, NEW s, Orderly(s), NEW K \in SUBSET Key,
           \A k \in Key \ K : GenKept(s, k)
    PROVE  Methodical(Remove(s, K))
<1>. DEFINE a == Advance(s, K)
            e == Remove(s, K)
<1>1. /\ Orderly(a) /\ a.blocks = s.blocks
      /\ \A k \in K : store.seq < a.gens[k]
      /\ \A k \in Key \ K : a.gens[k] = s.gens[k]
  BY AdvanceOrderly
<1>2. /\ Succeeds(e)
      /\ \A k \in Key : e.blocks[k] = IF k \in K THEN NoBlock ELSE s.blocks[k]
  BY RemoveSucceeds DEF Orderly
<1>3. a \in StoreType
  BY <1>1 DEF Orderly, Succeeds
<1>4. e.gens = a.gens /\ e.seq = a.seq
  <2>1. e = [a EXCEPT !.blocks = [k \in Key |-> IF k \in K THEN NoBlock ELSE s.blocks[k]]]
    BY DEF Remove
  <2>. HIDE DEF a, e
  <2>. QED  BY <2>1, <1>3 DEF StoreType
<1>. HIDE DEF a, e
<1>5. \A k \in Key : store.blocks[k] # NoBlock /\ e.blocks[k] = NoBlock =>
                          store.seq < e.gens[k]
  <2>. SUFFICES ASSUME NEW k \in Key, store.blocks[k] # NoBlock, e.blocks[k] = NoBlock
                PROVE  store.seq < e.gens[k]
    OBVIOUS
  <2>1. CASE k \in K
    BY <2>1, <1>1, <1>4
  <2>2. CASE k \notin K
    BY <2>2, <1>1, <1>2, <1>4 DEF Orderly
  <2>. QED  BY <2>1, <2>2
<1>6. Orderly(e)
  BY <1>1, <1>2, <1>4, <1>5 DEF Orderly
<1>7. ASSUME NEW k \in Key PROVE GenKept(e, k)
  <2>1. CASE k \in K
    BY <2>1, <1>2 DEF GenKept
  <2>2. CASE k \notin K
    BY <2>2, <1>1, <1>2, <1>4 DEF GenKept
  <2>. QED  BY <2>1, <2>2
<1>. QED  BY <1>6, <1>7 DEF Methodical, e

\* expireIfDue leaves such a store.
LEMMA ExpireMethodical ==
    ASSUME store.seq \in Nat, NEW s, Methodical(s), NEW K \in SUBSET Key
    PROVE  Methodical(ExpireIfDue(s, K))
<1>. DEFINE due == {k \in K : Due(s, k)}
            b == [k \in Key |-> IF k \in due THEN [s.blocks[k] EXCEPT !.open = FALSE]
                                              ELSE s.blocks[k]]
            t == [s EXCEPT !.blocks = b]
            R == {k \in due : s.blocks[k].resets}
<1>1. s \in StoreType /\ Succeeds(s) /\ Orderly(s)
  BY DEF Methodical, Orderly, Succeeds
<1>2. \A k \in due : s.blocks[k] \in Block
  BY <1>1, DueHasBlock
<1>3. \A k \in Key : /\ b[k] \in Block \cup {NoBlock} /\ b[k].gen = s.blocks[k].gen
                     /\ b[k] = NoBlock <=> s.blocks[k] = NoBlock
  <2>. SUFFICES ASSUME NEW k \in Key
                PROVE  /\ b[k] \in Block \cup {NoBlock} /\ b[k].gen = s.blocks[k].gen
                       /\ b[k] = NoBlock <=> s.blocks[k] = NoBlock
    OBVIOUS
  <2>1. CASE k \in due
    <3>1. b[k] = [s.blocks[k] EXCEPT !.open = FALSE] /\ s.blocks[k] \in Block
      BY <2>1, <1>2
    <3>. HIDE DEF b, due
    <3>2. b[k] \in Block /\ b[k].gen = s.blocks[k].gen
      BY <3>1 DEF Block
    <3>3. NoBlock \notin Block
      BY DEF NoBlock, Block
    <3>. QED  BY <3>1, <3>2, <3>3
  <2>2. CASE k \notin due
    BY <2>2, <1>1 DEF StoreType
  <2>. QED  BY <2>1, <2>2
<1>4. b \in [Key -> Block \cup {NoBlock}]
  BY <1>3
<1>5. R \in SUBSET Key
  OBVIOUS
<1>6. ExpireIfDue(s, K) = Remove(t, R)
  BY DEF ExpireIfDue
<1>. HIDE DEF due, b, R
<1>7. /\ t \in StoreType /\ t.blocks = b /\ t.gens = s.gens /\ t.seq = s.seq
      /\ t.floor = s.floor
  BY <1>1, <1>4 DEF StoreType
<1>. HIDE DEF t
<1>8. Succeeds(t)
  BY <1>1, <1>3, <1>7 DEF Succeeds
<1>9. Orderly(t)
  BY <1>1, <1>3, <1>7, <1>8 DEF Orderly
<1>10. \A k \in Key : GenKept(t, k)
  BY <1>3, <1>7 DEF Methodical, GenKept
<1>. QED  BY <1>5, <1>6, <1>9, <1>10, RemoveMethodical

\* mark leaves such a store: the block carries the generation the scope gets.
LEMMA MarkedMethodical ==
    ASSUME store.seq \in Nat, Methodical(store), NEW k \in Key, NEW b \in Block,
           b.gen = store.seq + 1
    PROVE  Methodical(Marked(store, k, b))
<1>. DEFINE a == Advance(store, {k})
            m == Marked(store, k, b)
<1>0. {k} \in SUBSET Key /\ Orderly(store) /\ Succeeds(store)
  BY DEF Methodical, Orderly
<1>1. /\ Orderly(a) /\ a.blocks = store.blocks
      /\ \A j \in Key \ {k} : a.gens[j] = store.gens[j]
  BY <1>0, AdvanceOrderly
<1>2. /\ Succeeds(m) /\ m.blocks = [store.blocks EXCEPT ![k] = b]
  BY <1>0, MarkedSucceeds
<1>3. a \in StoreType /\ store \in StoreType
  BY <1>1, <1>0 DEF Orderly, Succeeds
<1>4. m.gens = a.gens /\ m.seq = a.seq
  <2>1. m = [a EXCEPT !.blocks = [store.blocks EXCEPT ![k] = b]]
    BY DEF Marked
  <2>. HIDE DEF a, m
  <2>. QED  BY <2>1, <1>3 DEF StoreType
<1>5. a.gens[k] = store.seq + 1
  <2>1. {j \in {k} : j <= k} = {k}
    BY KeyTyped
  <2>2. Cardinality({k}) = 1
    BY FS_Singleton
  <2>3. a.gens[k] = store.seq + Cardinality({j \in {k} : j <= k})
    BY <1>3 DEF Advance, StoreType
  <2>. QED  BY <2>1, <2>2, <2>3
<1>6. /\ m.blocks[k] = b /\ b # NoBlock
      /\ \A j \in Key \ {k} : m.blocks[j] = store.blocks[j]
  <2>1. b # NoBlock
    BY DEF NoBlock, Block
  <2>. HIDE DEF m
  <2>. QED  BY <2>1, <1>2, <1>3 DEF StoreType
<1>. HIDE DEF a, m
<1>7. \A j \in Key : ~(store.blocks[j] # NoBlock /\ m.blocks[j] = NoBlock)
  BY <1>6
<1>8. Orderly(m)
  BY <1>1, <1>2, <1>4, <1>7 DEF Orderly
<1>9. ASSUME NEW j \in Key PROVE GenKept(m, j)
  <2>1. CASE j = k
    BY <2>1, <1>4, <1>5, <1>6 DEF GenKept
  <2>2. CASE j # k
    BY <2>2, <1>1, <1>4, <1>6 DEF GenKept, Methodical
  <2>. QED  BY <2>1, <2>2
<1>. QED  BY <1>8, <1>9 DEF Methodical, m

\* And so does reading the status back.
LEMMA ReadBackMethodical ==
    ASSUME store.seq \in Nat, NEW c, ProviderOf[calls[c].route] \in Provider,
           NEW s, Methodical(s)
    PROVE  Methodical(ReadBack(c, s))
<1>1. KeysOfProvider(ProviderOf[calls[c].route]) \in SUBSET Key
  BY KeysTyped
<1>2. CASE c \in Native
  BY <1>1, <1>2, ExpireMethodical DEF ReadBack
<1>3. CASE c \notin Native
  BY <1>3 DEF ReadBack
<1>. QED  BY <1>2, <1>3

(***************************************************************************)
(* Eviction.                                                               *)
(***************************************************************************)

\* Some scope has the oldest generation.
LEMMA Oldest ==
    ASSUME NEW U \in SUBSET Key, U # {}, NEW g \in [Key -> Nat]
    PROVE  \E k \in U : \A j \in U : g[k] <= g[j]
<1>. DEFINE S == {g[k] : k \in U}
<1>1. S \subseteq Nat /\ S # {}
  OBVIOUS
<1>. HIDE DEF S
<1>2. \E m \in S : \A n \in S : ~(<<n, m>> \in OpToRel(<, Nat))
  BY <1>1, WFMin, NatLessThanWellFounded
<1>3. PICK m \in S : \A n \in S : ~(<<n, m>> \in OpToRel(<, Nat))
  BY <1>2
<1>4. \A n \in S : n < m => <<n, m>> \in OpToRel(<, Nat)
  BY <1>1 DEF OpToRel
<1>5. \A n \in S : ~(n < m)
  BY <1>3, <1>4, Zenon
<1>6. \A n \in S : m <= n
  BY <1>1, <1>5
<1>7. PICK k \in U : g[k] = m
  BY <1>3 DEF S
<1>8. \A j \in U : g[j] \in S
  BY DEF S
<1>. QED  BY <1>6, <1>7, <1>8

\* What is newer than a tombstone.
Newer(s, k) == {j \in Tombstones(s) : s.gens[j] > s.gens[k]}

\* The tombstones are finitely many, and so are those newer than one of them.
LEMMA NewerFinite ==
    ASSUME NEW s, NEW k
    PROVE  /\ IsFiniteSet(Tombstones(s)) /\ IsFiniteSet(Newer(s, k))
           /\ Cardinality(Newer(s, k)) \in Nat
<1>1. Tombstones(s) \in SUBSET Key
  BY DEF Tombstones
<1>2. IsFiniteSet(Tombstones(s))
  BY <1>1, KeyTyped, FS_Subset
<1>3. Newer(s, k) \in SUBSET Tombstones(s)
  BY DEF Newer
<1>. QED  BY <1>2, <1>3, FS_Subset, FS_CardinalityType

\* Whatever is evicted is no newer than whatever is kept.
LEMMA RetiredOlder ==
    ASSUME NEW s \in StoreType, NEW j \in Retired(s), NEW k \in Tombstones(s) \ Retired(s)
    PROVE  s.gens[j] <= s.gens[k]
<1>1. j \in Tombstones(s) /\ Cardinality(Newer(s, j)) >= MaxTombstones
  BY DEF Retired, Newer
<1>2. ~(Cardinality(Newer(s, k)) >= MaxTombstones)
  BY DEF Retired, Newer
<1>3. /\ \A i \in Tombstones(s) : s.gens[i] \in Nat
      /\ s.gens[j] \in Nat /\ s.gens[k] \in Nat
  BY <1>1 DEF Tombstones, StoreType
<1>4. ASSUME s.gens[k] < s.gens[j] PROVE FALSE
  <2>0. \A i \in Tombstones(s) : s.gens[i] > s.gens[j] => s.gens[i] > s.gens[k]
    BY <1>3, <1>4
  <2>1. Newer(s, j) \in SUBSET Newer(s, k)
    BY <2>0 DEF Newer
  <2>2. Cardinality(Newer(s, j)) <= Cardinality(Newer(s, k))
    BY <2>1, NewerFinite, FS_Subset
  <2>. QED  BY <1>1, <1>2, <2>2, NewerFinite, BoundAssumption
<1>. QED  BY <1>3, <1>4

\* At most MaxTombstones are kept, as no two have the same generation.
LEMMA KeptBounded ==
    ASSUME NEW s, Orderly(s)
    PROVE  Cardinality(Tombstones(s) \ Retired(s)) <= MaxTombstones
<1>. DEFINE U == Tombstones(s) \ Retired(s)
<1>1. U \in SUBSET Key /\ U \in SUBSET Tombstones(s) /\ s.gens \in [Key -> Nat]
  BY DEF Tombstones, Orderly, Succeeds, StoreType
<1>2. CASE U = {}
  BY <1>2, FS_EmptySet, BoundAssumption
<1>3. CASE U # {}
  <2>1. PICK k \in U : \A j \in U : s.gens[k] <= s.gens[j]
    BY <1>1, <1>3, Oldest
  <2>2. ~(Cardinality(Newer(s, k)) >= MaxTombstones)
    BY <2>1 DEF Retired, Newer
  <2>. HIDE DEF U
  <2>3. \A j \in U : j # k => s.gens[j] > s.gens[k]
    <3>. SUFFICES ASSUME NEW j \in U, j # k PROVE s.gens[j] > s.gens[k]
      OBVIOUS
    <3>1. j \in Key /\ k \in Key /\ s.gens[k] # 0 /\ s.gens[j] # s.gens[k]
      BY <1>1, <2>1 DEF Orderly, Tombstones
    <3>2. s.gens[j] \in Nat /\ s.gens[k] \in Nat /\ s.gens[k] <= s.gens[j]
      BY <3>1, <1>1, <2>1
    <3>. QED  BY <3>1, <3>2
  <2>4. U \in SUBSET (Newer(s, k) \cup {k})
    BY <1>1, <2>3 DEF Newer
  <2>5. /\ IsFiniteSet(Newer(s, k) \cup {k})
        /\ Cardinality(Newer(s, k) \cup {k}) =
             IF k \in Newer(s, k) THEN Cardinality(Newer(s, k)) ELSE Cardinality(Newer(s, k)) + 1
    BY NewerFinite, FS_AddElement
  <2>6. Cardinality(U) <= Cardinality(Newer(s, k) \cup {k})
    BY <2>4, <2>5, FS_Subset
  <2>7. IsFiniteSet(U) /\ Cardinality(U) \in Nat
    BY <2>4, <2>5, FS_Subset, FS_CardinalityType
  <2>8. Cardinality(Newer(s, k)) \in Nat
    BY NewerFinite
  <2>. QED  BY <2>2, <2>5, <2>6, <2>7, <2>8, BoundAssumption DEF U
<1>. QED  BY <1>2, <1>3

(***************************************************************************)
(* The inductive invariant.                                                *)
(***************************************************************************)

\* The generations tell the scopes apart, a block has its own, and the tombstones
\* are few and not older than what was evicted.
StoreOrder ==
    /\ \A j, k \in Key : store.gens[j] # 0 /\ store.gens[j] = store.gens[k] => j = k
    /\ \A k \in Key : GenKept(store, k)
    /\ \A k \in Tombstones(store) : store.floor <= store.gens[k]
    /\ Cardinality(Tombstones(store)) <= MaxTombstones

\* What the guard of a request in flight covers: as long as the scope does not
\* change, its last change, and the floor of the admission unless it has a block.
Precise(e, k) ==
    truth[k] <= e.at =>
        /\ truth[k] <= e.guard[k]
        /\ store.blocks[k] # NoBlock \/ e.floor <= e.guard[k]

Captured == \A c \in Sent : \A k \in KeysOf(calls[c].route) : Precise(calls[c], k)

FInv == IInv /\ StoreOrder /\ Captured

\* How a step changes a scope: it gets a generation above the sequence, or its
\* last change stays and its block, if it has one, does not go.
Evolves ==
    \A k \in Key :
        \/ store.seq < truth'[k]
        \/ truth'[k] = truth[k] /\ (store.blocks[k] # NoBlock => store'.blocks[k] # NoBlock)

\* The current store is one a method may leave behind.
LEMMA StoreMethodical ==
    ASSUME StoreFence, StoreOrder
    PROVE  Methodical(store) /\ store.seq \in Nat
<1>1. Succeeds(store) /\ store.seq \in Nat
  BY StoreSucceeds
<1>2. \A k \in Key : store.gens[k] <= store.seq
  <2>. SUFFICES ASSUME NEW k \in Key PROVE store.gens[k] <= store.seq
    OBVIOUS
  <2>1. /\ truth[k] <= store.seq /\ store.gens[k] \in Nat
        /\ store.gens[k] # 0 => store.gens[k] = truth[k]
    BY DEF StoreFence, StoreType
  <2>. QED  BY <2>1, <1>1
<1>. QED  BY <1>1, <1>2 DEF Methodical, Orderly, StoreOrder

\* Committing such a store keeps the order, whatever is evicted.
LEMMA CommitOrder ==
    ASSUME StoreFence, StoreOrder, NEW s, Methodical(s), Commit(s)
    PROVE  StoreOrder' /\ Evolves
<1>1. PICK f \in {s.floor} \cup {s.gens[k] : k \in Retired(s)} :
          store' = Pruned(s, f)
  BY DEF Commit
<1>. DEFINE g == [k \in Key |-> IF k \in Retired(s) THEN 0 ELSE s.gens[k]]
<1>2. /\ Retired(s) \subseteq Tombstones(s) /\ Tombstones(s) \subseteq Key
      /\ \A k \in Tombstones(s) : s.gens[k] # 0 /\ s.blocks[k] = NoBlock
  BY DEF Retired, Tombstones
<1>3. /\ s \in StoreType /\ store \in StoreType /\ truth \in [Key -> Nat]
      /\ Orderly(s) /\ Succeeds(s)
  BY DEF Methodical, Orderly, Succeeds, StoreFence
<1>4. /\ store.seq \in Nat /\ store.floor \in Nat /\ store.floor <= store.seq
      /\ s.floor = store.floor /\ \A k \in Key : s.gens[k] \in Nat /\ store.gens[k] \in Nat
  BY <1>3 DEF StoreFence, Succeeds, StoreType
<1>5. f \in Nat
  BY <1>1, <1>2, <1>4
<1>6. \A k \in Key : g[k] = IF k \in Retired(s) THEN 0 ELSE s.gens[k]
  OBVIOUS
<1>7. store' = [s EXCEPT !.gens = g, !.floor = f]
  BY <1>1 DEF Pruned
<1>. HIDE DEF g
<1>8. store'.gens = g /\ store'.floor = f /\ store'.blocks = s.blocks
  BY <1>3, <1>7 DEF StoreType
<1>9. \A k \in Key : truth'[k] = IF s.gens[k] > store.seq THEN s.gens[k] ELSE truth[k]
  BY DEF Commit
<1>10. Tombstones(store') = Tombstones(s) \ Retired(s)
  <2>1. \A k \in Key : store'.gens[k] # 0 /\ store'.blocks[k] = NoBlock
                         <=> k \in Tombstones(s) \ Retired(s)
    BY <1>2, <1>6, <1>8 DEF Tombstones
  <2>. QED  BY <2>1, <1>2 DEF Tombstones
<1>11. \A j, k \in Key : store'.gens[j] # 0 /\ store'.gens[j] = store'.gens[k] => j = k
  BY <1>3, <1>6, <1>8 DEF Orderly
<1>12. \A k \in Key : GenKept(store', k)
  BY <1>2, <1>6, <1>8 DEF GenKept, Methodical
<1>13. ASSUME NEW k \in Tombstones(s) PROVE store.floor <= s.gens[k]
  <2>1. k \in Key /\ s.gens[k] # 0 /\ s.blocks[k] = NoBlock
    BY <1>2
  <2>2. CASE store.seq < s.gens[k]
    BY <2>1, <2>2, <1>4
  <2>3. CASE ~(store.seq < s.gens[k])
    <3>1. s.gens[k] = store.gens[k] /\ store.blocks[k] = NoBlock
      BY <2>1, <2>3, <1>3 DEF Succeeds, Orderly
    <3>2. k \in Tombstones(store)
      BY <2>1, <3>1 DEF Tombstones
    <3>. QED  BY <3>1, <3>2 DEF StoreOrder
  <2>. QED  BY <2>2, <2>3
<1>14. ASSUME NEW k \in Tombstones(s) \ Retired(s) PROVE f <= g[k]
  <2>1. g[k] = s.gens[k]
    BY <1>2, <1>6
  <2>2. \A j \in Retired(s) : s.gens[j] <= s.gens[k]
    BY <1>3, RetiredOlder
  <2>. QED  BY <2>1, <2>2, <1>1, <1>4, <1>13
<1>15. \A k \in Tombstones(store') : store'.floor <= store'.gens[k]
  BY <1>8, <1>10, <1>14
<1>16. Cardinality(Tombstones(store')) <= MaxTombstones
  BY <1>3, <1>10, KeptBounded
<1>17. StoreOrder'
  <2>1. (\A k \in Key : GenKept(store, k))'
    BY <1>12 DEF GenKept
  <2>2. (\A k \in Tombstones(store) : store.floor <= store.gens[k])'
    BY <1>15 DEF Tombstones
  <2>3. (Cardinality(Tombstones(store)) <= MaxTombstones)'
    BY <1>16 DEF Tombstones
  <2>. QED  BY <1>11, <2>1, <2>2, <2>3 DEF StoreOrder
<1>18. Evolves
  <2>. SUFFICES ASSUME NEW k \in Key
                PROVE  \/ store.seq < truth'[k]
                       \/ /\ truth'[k] = truth[k]
                          /\ store.blocks[k] # NoBlock => store'.blocks[k] # NoBlock
    BY DEF Evolves
  <2>1. CASE store.seq < s.gens[k]
    BY <2>1, <1>4, <1>9
  <2>2. CASE ~(store.seq < s.gens[k])
    <3>1. truth'[k] = truth[k]
      BY <2>2, <1>4, <1>9
    <3>. QED  BY <2>2, <3>1, <1>3, <1>8 DEF Orderly
  <2>. QED  BY <2>1, <2>2
<1>. QED  BY <1>17, <1>18

\* A step that leaves the generations alone, and changes at most a timer.
Retimed ==
    /\ truth' = truth /\ store'.gens = store.gens /\ store'.floor = store.floor
    /\ \A k \in Key : /\ store'.blocks[k] = NoBlock <=> store.blocks[k] = NoBlock
                      /\ store'.blocks[k].gen = store.blocks[k].gen
                      /\ store'.blocks[k].open = store.blocks[k].open
                      /\ store'.blocks[k].until = store.blocks[k].until

LEMMA RetimedOrder ==
    ASSUME StoreOrder, Retimed
    PROVE  StoreOrder' /\ Evolves
<1>1. Tombstones(store') = Tombstones(store)
  BY DEF Tombstones, Retimed
<1>2. (\A k \in Key : GenKept(store, k))'
  BY DEF GenKept, Retimed, StoreOrder
<1>3. (\A k \in Tombstones(store) : store.floor <= store.gens[k])'
  BY <1>1 DEF Tombstones, Retimed, StoreOrder
<1>4. (Cardinality(Tombstones(store)) <= MaxTombstones)'
  BY <1>1 DEF Tombstones, StoreOrder
<1>5. \A j, k \in Key : store'.gens[j] # 0 /\ store'.gens[j] = store'.gens[k] => j = k
  BY DEF Retimed, StoreOrder
<1>6. StoreOrder'
  BY <1>2, <1>3, <1>4, <1>5 DEF StoreOrder
<1>7. Evolves
  BY DEF Evolves, Retimed
<1>. QED  BY <1>6, <1>7

(***************************************************************************)
(* The steps.                                                              *)
(***************************************************************************)

\* Observing a credential leaves a store a method may leave behind.
LEMMA ObserveMethodical ==
    ASSUME StoreFence, StoreOrder, NEW p, NEW v
    PROVE  Methodical(Remove(store, Outdated(p, v)))
<1>1. Outdated(p, v) \in SUBSET Key
  BY DEF Outdated, Blocked
<1>2. Orderly(store) /\ store.seq \in Nat /\ \A k \in Key : GenKept(store, k)
  BY StoreMethodical DEF Methodical
<1>. QED  BY <1>1, <1>2, RemoveMethodical

\* What mark() leaves behind.
LEMMA FaultMethodical ==
    ASSUME IInv, StoreOrder, NEW c \in Call, Fault(c)
    PROVE  \E s : Methodical(s) /\ Commit(s)
<1>1. StoreFence /\ CallsFence /\ Methodical(store) /\ store.seq \in Nat
  BY StoreMethodical DEF IInv
<1>2. calls[c].route \in Route
  BY <1>1, SentCall DEF Fault
<1>3. PICK k \in KeysOf(calls[c].route), b \in Block :
        b.gen = store.seq + 1 /\ Commit(ReadBack(c, Marked(store, k, b)))
  BY FaultMarks
<1>4. k \in Key /\ ProviderOf[calls[c].route] \in Provider
  BY <1>2, <1>3, KeysTyped
<1>5. Methodical(Marked(store, k, b))
  BY <1>1, <1>3, <1>4, MarkedMethodical
<1>. QED  BY <1>1, <1>3, <1>4, <1>5, ReadBackMethodical

\* A timer that is set again only moves the timer.
LEMMA RearmRetimed ==
    ASSUME IInv, NEW k \in Key, TimerFires(k), ~Due(store, k)
    PROVE  Retimed
<1>. DEFINE b == [store.blocks[k] EXCEPT !.timer = TimerAt(store.blocks[k].until)]
            m == [store.blocks EXCEPT ![k] = b]
<1>1. store' = [store EXCEPT !.blocks = m] /\ truth' = truth
  BY DEF TimerFires
<1>2. store \in StoreType /\ store.blocks[k] \in Block /\ store.blocks[k] # NoBlock
  BY DEF TimerFires, Blocked, IInv, StoreFence, StoreType
<1>3. /\ b.gen = store.blocks[k].gen /\ b.open = store.blocks[k].open
      /\ b.until = store.blocks[k].until /\ b # NoBlock
  <2>1. /\ b.gen = store.blocks[k].gen /\ b.open = store.blocks[k].open
        /\ b.until = store.blocks[k].until
    BY <1>2 DEF Block
  <2>2. "until" \in DOMAIN b /\ "until" \notin DOMAIN NoBlock
    BY <1>2 DEF Block, NoBlock
  <2>. QED  BY <2>1, <2>2
<1>. HIDE DEF b
<1>4. m[k] = b /\ \A j \in Key \ {k} : m[j] = store.blocks[j]
  BY <1>2 DEF StoreType
<1>. HIDE DEF m
<1>5. store'.blocks = m /\ store'.gens = store.gens /\ store'.floor = store.floor
  BY <1>1, <1>2 DEF StoreType
<1>. QED  BY <1>1, <1>2, <1>3, <1>4, <1>5 DEF Retimed

\* Every step commits what a method made, or leaves the generations alone.
LEMMA StoreMoves ==
    ASSUME IInv, StoreOrder, [Next]_vars
    PROVE  (\E s : Methodical(s) /\ Commit(s)) \/ Retimed
<1>0. /\ StoreFence /\ CallsFence /\ Environment /\ Methodical(store) /\ Orderly(store)
      /\ store.seq \in Nat /\ \A k \in Key : GenKept(store, k)
  BY StoreMethodical DEF IInv, Methodical
<1>1. ASSUME NEW p, NEW v, ObserveCredential(p, v) PROVE \E s : Methodical(s) /\ Commit(s)
  BY <1>0, <1>1, ObserveMethodical DEF ObserveCredential
<1>2. ASSUME NEW p \in Provider, Commit(ExpireIfDue(store, KeysOfProvider(p)))
      PROVE  \E s : Methodical(s) /\ Commit(s)
  BY <1>0, <1>2, KeysTyped, ExpireMethodical
<1>3. ASSUME NEW c, NEW r \in Route, NEW v, AdmitAs(c, r, v)
      PROVE  \E s : Methodical(s) /\ Commit(s)
  <2>1. Commit(ExpireIfDue(store, KeysOfProvider(ProviderOf[r])))
    BY <1>3 DEF AdmitAs
  <2>. QED  BY <2>1, <1>2, KeysTyped
<1>4. ASSUME NEW c \in Call, Succeed(c) PROVE \E s : Methodical(s) /\ Commit(s)
  <2>. DEFINE r == calls[c].route
              s == ExpireIfDue(store, KeysOfProvider(ProviderOf[r]))
              K == {k \in Applying(s, r) : calls[c].guard[k] = s.gens[k]}
  <2>1. r \in Route
    BY <1>4, <1>0, SentCall DEF Succeed
  <2>2. Methodical(s)
    BY <2>1, <1>0, KeysTyped, ExpireMethodical
  <2>3. K \in SUBSET Key
    BY <2>1, <1>0, KeysTyped DEF Applying, Environment
  <2>4. Commit(Remove(s, K))
    BY <1>4 DEF Succeed
  <2>. HIDE DEF K, s
  <2>5. Methodical(Remove(s, K))
    BY <2>2, <2>3, <1>0, RemoveMethodical DEF Methodical
  <2>. QED  BY <2>4, <2>5
<1>5. ASSUME NEW c \in Call, Late(c) PROVE \E s : Methodical(s) /\ Commit(s)
  <2>1. ProviderOf[calls[c].route] \in Provider
    BY <1>5, <1>0, SentCall, KeysTyped DEF Late
  <2>. QED  BY <2>1, <1>5, <1>0, ReadBackMethodical DEF Late
<1>6. ASSUME NEW p \in Provider, ClearProvider(p) PROVE \E s : Methodical(s) /\ Commit(s)
  <2>. DEFINE K == KeysOfProvider(p) \cap Blocked(store)
              a == Advance(store, {ProviderKey[p]})
  <2>1. /\ K \in SUBSET Key /\ {ProviderKey[p]} \in SUBSET Key
        /\ ProviderKey[p] \in KeysOfProvider(p)
    BY KeysTyped DEF KeysOfProvider
  <2>2. Commit(Remove(a, K))
    BY <1>6 DEF ClearProvider
  <2>3. /\ Orderly(a) /\ a.blocks = store.blocks
        /\ \A k \in Key \ {ProviderKey[p]} : a.gens[k] = store.gens[k]
    BY <2>1, <1>0, AdvanceOrderly
  <2>. HIDE DEF a
  <2>4. \A k \in Key \ K : GenKept(a, k)
    BY <2>1, <2>3, <1>0 DEF GenKept, Blocked
  <2>. HIDE DEF K
  <2>5. Methodical(Remove(a, K))
    BY <2>1, <2>3, <2>4, <1>0, RemoveMethodical
  <2>. QED  BY <2>2, <2>5
<1>7. ASSUME NEW k \in Key, TimerFires(k)
      PROVE  (\E s : Methodical(s) /\ Commit(s)) \/ Retimed
  <2>1. CASE Due(store, k)
    <3>1. Commit(ExpireIfDue(store, {k}))
      BY <2>1, <1>7 DEF TimerFires
    <3>2. Methodical(ExpireIfDue(store, {k}))
      BY <1>0, ExpireMethodical
    <3>. QED  BY <3>1, <3>2
  <2>2. CASE ~Due(store, k)
    BY <2>2, <1>7, RearmRetimed
  <2>. QED  BY <2>1, <2>2
<1>8. ASSUME store' = store, truth' = truth PROVE Retimed
  BY <1>8 DEF Retimed
<1>9. \A c \in Call : /\ \A r \in Route : BeginRequest(c, r) =>
                             \E s : Methodical(s) /\ Commit(s)
                      /\ Refresh(c) => \E s : Methodical(s) /\ Commit(s)
  BY <1>1 DEF BeginRequest, Refresh
<1>10. \A c \in Call : /\ \A r \in Route : AdmitNative(c, r) =>
                              \E s : Methodical(s) /\ Commit(s)
                       /\ Admit(c) => \E s : Methodical(s) /\ Commit(s)
  BY <1>0, <1>3, ReadyCall DEF AdmitNative, Admit
<1>11. \A p \in Provider : ListModels(p) \/ Status(p) => \E s : Methodical(s) /\ Commit(s)
  BY <1>1, <1>2 DEF ListModels, Status
<1>12. /\ \A c \in Call : Drop(c) => Retimed
       /\ \A p \in Provider : Rotate(p) => Retimed
       /\ \A r \in Route : SwitchFunding(r) => Retimed
       /\ Tick => Retimed
       /\ UNCHANGED vars => Retimed
  BY <1>8 DEF Drop, Rotate, SwitchFunding, Tick, vars
<1>13. \A c \in Call : Fault(c) => \E s : Methodical(s) /\ Commit(s)
  BY FaultMethodical
<1>. QED
  BY <1>4, <1>5, <1>6, <1>7, <1>9, <1>10, <1>11, <1>12, <1>13 DEF Next

\* A request in flight after a step was in flight before, with the same guard, or
\* was admitted by the step.
Carried(c) ==
    /\ calls[c].pc = "sent" /\ calls'[c].route = calls[c].route
    /\ calls'[c].guard = calls[c].guard /\ calls'[c].at = calls[c].at
    /\ calls'[c].floor = calls[c].floor

Admitted(c) ==
    /\ calls'[c].route \in Route /\ calls'[c].guard = Capture(store', calls'[c].route)
    /\ calls'[c].at = store'.seq /\ calls'[c].floor = store'.floor

LEMMA AdmitMoves ==
    ASSUME DOMAIN calls = Call, NEW d \in Call, NEW r \in Route, NEW v, AdmitAs(d, r, v),
           NEW c \in Call, calls'[c].pc = "sent"
    PROVE  Carried(c) \/ Admitted(c)
<1>. DEFINE e == [pc |-> "sent", route |-> r, cred |-> v,
                  guard |-> Capture(store', r), refreshed |-> FALSE,
                  at |-> store'.seq, floor |-> store'.floor]
<1>1. calls' = [calls EXCEPT ![d] = e] \/ calls' = [calls EXCEPT ![d] = Idle]
  BY DEF AdmitAs
<1>2. /\ e.route = r /\ e.guard = Capture(store', r) /\ e.at = store'.seq
      /\ e.floor = store'.floor
  OBVIOUS
<1>. HIDE DEF e
<1>3. CASE d = c
  <2>1. calls'[c] = e \/ calls'[c] = Idle
    BY <1>1, <1>3
  <2>. QED  BY <2>1, <1>2 DEF Idle, Admitted
<1>4. CASE d # c
  BY <1>1, <1>4 DEF Carried
<1>. QED  BY <1>3, <1>4

LEMMA CallMoves ==
    ASSUME IInv, [Next]_vars, NEW c \in Call, calls'[c].pc = "sent"
    PROVE  Carried(c) \/ Admitted(c)
<1>0. DOMAIN calls = Call /\ CallsFence
  BY DEF IInv, CallsFence
<1>1. ASSUME calls' = calls PROVE Carried(c)
  BY <1>1 DEF Carried
<1>2. ASSUME NEW d \in Call, NEW e, calls' = [calls EXCEPT ![d] = e], e.pc # "sent"
      PROVE  Carried(c)
  BY <1>2, <1>0 DEF Carried
<1>3. Idle.pc # "sent"
  BY DEF Idle
<1>4. \A d \in Call : Succeed(d) \/ Fault(d) \/ Late(d) \/ Drop(d) => Carried(c)
  <2>1. \A d \in Call : Succeed(d) \/ Fault(d) \/ Late(d) \/ Drop(d) =>
            calls' = [calls EXCEPT ![d] = Idle]
    BY DEF Succeed, Fault, Late, Drop
  <2>. QED  BY <2>1, <1>2, <1>3
<1>5. \A d \in Call, r \in Route : BeginRequest(d, r) => Carried(c)
  <2>. SUFFICES ASSUME NEW d \in Call, NEW r \in Route, BeginRequest(d, r) PROVE Carried(c)
    OBVIOUS
  <2>. DEFINE e == [pc |-> "ready", route |-> r, cred |-> cred[ProviderOf[r]]]
  <2>1. calls' = [calls EXCEPT ![d] = e] /\ e.pc # "sent"
    BY DEF BeginRequest
  <2>. HIDE DEF e
  <2>. QED  BY <2>1, <1>2
<1>6. ASSUME NEW d \in Call, Refresh(d) PROVE Carried(c)
  <2>. DEFINE e == [calls[d] EXCEPT !.refreshed = TRUE, !.cred = cred[ProviderOf[calls[d].route]]]
  <2>1. calls' = [calls EXCEPT ![d] = e] /\ calls[d].pc = "sent"
    BY <1>6, <1>0 DEF Refresh
  <2>2. calls[d] \in SentOn(calls[d].route)
    BY <2>1, <1>0, SentCall
  <2>3. /\ e.route = calls[d].route /\ e.guard = calls[d].guard /\ e.at = calls[d].at
        /\ e.floor = calls[d].floor
    BY <2>2 DEF SentOn
  <2>. HIDE DEF e
  <2>. QED  BY <2>1, <2>3, <1>0 DEF Carried
<1>7. \A d \in Call : /\ Admit(d) => Carried(c) \/ Admitted(c)
                      /\ \A r \in Route : AdmitNative(d, r) => Carried(c) \/ Admitted(c)
  BY <1>0, ReadyCall, AdmitMoves DEF Admit, AdmitNative
<1>8. /\ \A p \in Provider : ListModels(p) \/ Status(p) \/ ClearProvider(p) \/ Rotate(p) =>
                                 calls' = calls
      /\ \A r \in Route : SwitchFunding(r) => calls' = calls
      /\ \A k \in Key : TimerFires(k) => calls' = calls
      /\ Tick \/ UNCHANGED vars => calls' = calls
  BY DEF ListModels, Status, ClearProvider, Rotate, SwitchFunding, TimerFires, Tick, vars
<1>. QED  BY <1>1, <1>4, <1>5, <1>6, <1>7, <1>8 DEF Next

\* The guard taken at an admission covers every scope of the route.
CaptureCovers ==
    \A r \in Route : \A k \in KeysOf(r) :
        /\ truth[k] <= Capture(store, r)[k]
        /\ store.blocks[k] # NoBlock \/ store.floor <= Capture(store, r)[k]

LEMMA CapturePrecise == StoreFence /\ StoreOrder => CaptureCovers
<1>. SUFFICES ASSUME StoreFence, StoreOrder, NEW r \in Route, NEW k \in KeysOf(r)
              PROVE  /\ truth[k] <= Capture(store, r)[k]
                     /\ store.blocks[k] # NoBlock \/ store.floor <= Capture(store, r)[k]
  BY DEF CaptureCovers
<1>1. /\ k \in Key /\ truth[k] <= store.seq /\ store.floor <= store.seq
      /\ store.gens[k] # 0 => store.gens[k] = truth[k] /\ truth[k] \in Nat
  BY KeysTyped DEF StoreFence
<1>2. Capture(store, r)[k] = IF store.gens[k] # 0 THEN store.gens[k] ELSE store.seq
  BY DEF Capture
<1>3. store.gens[k] # 0 /\ store.blocks[k] = NoBlock => store.floor <= store.gens[k]
  BY <1>1 DEF StoreOrder, Tombstones
<1>. QED  BY <1>1, <1>2, <1>3

\* One step keeps the invariant.
LEMMA FenceStep == FInv /\ [Next]_vars => FInv'
<1>. SUFFICES ASSUME FInv, [Next]_vars PROVE FInv'
  OBVIOUS
<1>1. IInv /\ StoreOrder /\ Captured /\ StoreFence /\ CallsFence /\ store.seq \in Nat
  BY StoreMethodical DEF FInv, IInv
<1>2. IInv' /\ StoreFence' /\ CallsFence'
  BY <1>1, NextInv DEF IInv
<1>3. StoreOrder' /\ Evolves
  BY <1>1, StoreMoves, CommitOrder, RetimedOrder
<1>4. ASSUME NEW c \in Call, calls'[c].pc = "sent", NEW k \in KeysOf(calls'[c].route)
      PROVE  truth'[k] <= calls'[c].at =>
               /\ truth'[k] <= calls'[c].guard[k]
               /\ store'.blocks[k] # NoBlock \/ calls'[c].floor <= calls'[c].guard[k]
  <2>1. CASE Carried(c)
    <3>1. /\ calls[c].pc = "sent" /\ calls'[c].route = calls[c].route
          /\ calls'[c].guard = calls[c].guard /\ calls'[c].at = calls[c].at
          /\ calls'[c].floor = calls[c].floor
      BY <2>1 DEF Carried
    <3>2. calls[c].route \in Route /\ calls[c].at \in Nat /\ calls[c].at <= store.seq
      BY <3>1, <1>1, SentCall
    <3>3. k \in Key /\ truth'[k] \in Nat
      BY <3>1, <3>2, <1>2, <1>4, KeysTyped DEF StoreFence
    <3>4. Precise(calls[c], k)
      BY <3>1, <1>1, <1>4 DEF Captured, Sent
    <3>5. CASE store.seq < truth'[k]
      BY <3>1, <3>2, <3>3, <3>5, <1>1
    <3>6. CASE truth'[k] = truth[k] /\ (store.blocks[k] # NoBlock => store'.blocks[k] # NoBlock)
      BY <3>1, <3>4, <3>6 DEF Precise
    <3>. QED  BY <3>3, <3>5, <3>6, <1>3 DEF Evolves
  <2>2. CASE Admitted(c)
    <3>1. /\ calls'[c].route \in Route /\ calls'[c].guard = Capture(store', calls'[c].route)
          /\ calls'[c].floor = store'.floor
      BY <2>2 DEF Admitted
    <3>2. \A r \in Route : \A j \in KeysOf(r) :
            /\ truth'[j] <= Capture(store', r)[j]
            /\ store'.blocks[j] # NoBlock \/ store'.floor <= Capture(store', r)[j]
      <4>1. CaptureCovers'
        BY <1>2, <1>3, CapturePrecise, PTL
      <4>. QED  BY <4>1 DEF CaptureCovers, Capture
    <3>. QED  BY <3>1, <3>2, <1>4
  <2>. QED  BY <2>1, <2>2, <1>1, <1>4, CallMoves
<1>5. Captured'
  BY <1>4 DEF Captured, Sent, Precise
<1>. QED  BY <1>2, <1>3, <1>5 DEF FInv

\* The invariant holds in every reachable state.
THEOREM FenceInvariance == Spec => []FInv
<1>1. ASSUME Init PROVE FInv
  <2>1. IInv
    BY <1>1, InitInv
  <2>2. Tombstones(store) = {}
    BY <1>1 DEF Init, Tombstones
  <2>3. StoreOrder
    BY <2>2, <1>1, FS_EmptySet, BoundAssumption DEF Init, StoreOrder, GenKept
  <2>4. Captured
    BY <1>1 DEF Init, Captured, Sent, Idle
  <2>. QED  BY <2>1, <2>3, <2>4 DEF FInv
<1>. QED  BY <1>1, FenceStep, PTL DEF Spec

(***************************************************************************)
(* The theorems.                                                           *)
(***************************************************************************)

\* For any number of scopes and every limit: the tombstones never exceed the limit,
\* and a scope with a block keeps the generation the block was opened with, however
\* many others pruneGenerations evicts.
THEOREM EvictionSafeHolds == Spec => []EvictionSafe
<1>1. FInv => EvictionSafe
  BY DEF FInv, StoreOrder, GenKept, EvictionSafe, Blocked
<1>. QED  BY <1>1, FenceInvariance, PTL

\* For any number of scopes, requests and evictions before the admission: a request
\* under which nothing was evicted is fenced by no scope that did not change, so
\* mark() does not drop a fault that nothing outdated.
THEOREM FencePreciseHolds == Spec => []FencePrecise
<1>1. ASSUME FInv PROVE FencePrecise
  <2>. SUFFICES ASSUME NEW c \in Sent, NEW k \in KeysOf(calls[c].route),
                       truth[k] <= calls[c].at, store.floor = calls[c].floor
                PROVE  Current(store, k) <= calls[c].guard[k]
    BY DEF FencePrecise
  <2>1. /\ truth[k] <= calls[c].guard[k]
        /\ store.blocks[k] # NoBlock \/ calls[c].floor <= calls[c].guard[k]
    BY <1>1 DEF FInv, Captured, Precise
  <2>2. k \in Key
    BY <1>1, SentCall, KeysTyped DEF FInv, IInv, Sent
  <2>3. /\ store.gens[k] # 0 => store.gens[k] = truth[k]
        /\ store.blocks[k] # NoBlock => store.gens[k] # 0
    BY <1>1, <2>2 DEF FInv, IInv, StoreFence
  <2>. QED  BY <2>1, <2>3 DEF Current
<1>. QED  BY <1>1, FenceInvariance, PTL

(***************************************************************************)
(* Promises.                                                               *)
(***************************************************************************)

\* No block in a refused caller's way lasts longer than it was told.
Promised ==
    \A r \in Route : promise[r] # 0 =>
        \A k \in Blocking(store, r) : store.blocks[k].until <= promise[r]

\* No block opens in s.
Quiet(s) ==
    /\ Succeeds(s)
    /\ \A k \in Key : s.blocks[k].open => s.blocks[k] = store.blocks[k]

\* The scopes in the way of a route are keys that apply to it.
LEMMA BlockingKeys ==
    ASSUME Environment, NEW r \in Route, NEW s
    PROVE  Blocking(s, r) \subseteq Key /\ Blocking(s, r) \subseteq KeysOf(r)
BY KeysTyped DEF Environment, Blocking, Applying, KeysOf

LEMMA ExpireQuiet ==
    ASSUME StoreFence, NEW s, Quiet(s), NEW K \in SUBSET Key
    PROVE  Quiet(ExpireIfDue(s, K))
<1>. DEFINE e == ExpireIfDue(s, K)
<1>1. /\ Succeeds(e)
      /\ \A k \in Key :
            \/ e.blocks[k] = s.blocks[k] /\ e.gens[k] = s.gens[k]
            \/ ~e.blocks[k].open /\ e.blocks[k] \in Block /\ e.gens[k] = s.gens[k]
            \/ e.blocks[k] = NoBlock /\ Due(s, k) /\ s.blocks[k].resets
  BY StoreSucceeds, ExpireSucceeds DEF Quiet
<1>2. ~NoBlock.open
  BY DEF NoBlock
<1>. HIDE DEF e
<1>. QED  BY <1>1, <1>2 DEF Quiet, e

LEMMA RemoveQuiet ==
    ASSUME StoreFence, NEW s, Quiet(s), NEW K \in SUBSET Key
    PROVE  Quiet(Remove(s, K))
<1>. DEFINE e == Remove(s, K)
<1>1. /\ Succeeds(e)
      /\ \A k \in Key : e.blocks[k] = IF k \in K THEN NoBlock ELSE s.blocks[k]
  BY StoreSucceeds, RemoveSucceeds DEF Quiet
<1>2. ~NoBlock.open
  BY DEF NoBlock
<1>. HIDE DEF e
<1>. QED  BY <1>1, <1>2 DEF Quiet, e

\* A step that opens no block in a route's way, and leaves its promise alone, keeps
\* the promise.
LEMMA PromiseStays ==
    ASSUME Environment, Promised, NEW r \in Route, promise'[r] = promise[r],
           funding'[r] = funding[r],
           \A k \in KeysOf(r) : store'.blocks[k].open =>
                /\ store.blocks[k].open /\ store.blocks[k] # NoBlock
                /\ store'.blocks[k].until = store.blocks[k].until
    PROVE  promise'[r] # 0 =>
             \A k \in Blocking(store, r)' : store'.blocks[k].until <= promise'[r]
<1>. SUFFICES ASSUME promise'[r] # 0, NEW k \in Blocking(store, r)'
              PROVE  store'.blocks[k].until <= promise'[r]
  OBVIOUS
<1>1. /\ k \in {ProviderKey[ProviderOf[r]], RouteKey[r]} \cup funding[r]
      /\ store'.blocks[k].open
  BY DEF Blocking, Applying
<1>2. k \in KeysOf(r)
  BY <1>1, KeysTyped DEF Environment, KeysOf
<1>3. k \in Blocking(store, r)
  BY <1>1, <1>2 DEF Blocking, Applying
<1>. QED  BY <1>1, <1>2, <1>3 DEF Promised

LEMMA QuietPromises ==
    ASSUME IInv, Promised, NEW s, Quiet(s), Commit(s), UNCHANGED <<funding, promise>>
    PROVE  Promised'
<1>1. store'.blocks = s.blocks /\ Environment
  BY CommitFence DEF Quiet, IInv
<1>2. \A k \in Key : store'.blocks[k].open =>
                /\ store.blocks[k].open /\ store.blocks[k] # NoBlock
                /\ store'.blocks[k].until = store.blocks[k].until
  BY <1>1 DEF Quiet, NoBlock
<1>3. ASSUME NEW r \in Route
      PROVE  promise'[r] # 0 =>
             \A k \in Blocking(store, r)' : store'.blocks[k].until <= promise'[r]
  BY <1>1, <1>2, PromiseStays, KeysTyped
<1>. QED  BY <1>3 DEF Promised

\* A refused caller is told of every block in its way.
LEMMA AdmitPromises ==
    ASSUME IInv, Promised, NEW c, NEW r \in Route, NEW v, AdmitAs(c, r, v)
    PROVE  Promised'
<1>. DEFINE s == ExpireIfDue(store, KeysOfProvider(ProviderOf[r]))
<1>0. StoreFence /\ Environment /\ Succeeds(store) /\ promise \in [Route -> Nat]
  BY StoreSucceeds DEF IInv, Environment
<1>1. Quiet(s)
  <2>1. KeysOfProvider(ProviderOf[r]) \in SUBSET Key /\ Quiet(store)
    BY <1>0, KeysTyped DEF Quiet
  <2>. QED  BY <1>0, <2>1, ExpireQuiet
<1>2. Commit(s) /\ funding' = funding
  BY DEF AdmitAs
<1>3. CASE Blocking(s, r) = {}
  <2>1. promise' = promise
    BY <1>3 DEF AdmitAs
  <2>. HIDE DEF s
  <2>. QED  BY <1>1, <1>2, <2>1, QuietPromises
<1>4. CASE Blocking(s, r) # {}
  <2>1. PICK t : RetryAt(s, r, t) /\ promise' = [promise EXCEPT ![r] = t]
    BY <1>4 DEF AdmitAs
  <2>. HIDE DEF s
  <2>2. store'.blocks = s.blocks
    BY <1>0, <1>1, <1>2, CommitFence DEF Quiet
  <2>3. Blocking(store, r)' = Blocking(s, r)
    BY <1>2, <2>2 DEF Blocking, Applying
  <2>4. \A k \in Blocking(store, r)' : store'.blocks[k].until <= promise'[r]
    BY <1>0, <2>1, <2>2, <2>3 DEF RetryAt
  <2>5. \A k \in Key : store'.blocks[k].open =>
                /\ store.blocks[k].open /\ store.blocks[k] # NoBlock
                /\ store'.blocks[k].until = store.blocks[k].until
    BY <1>1, <2>2 DEF Quiet, NoBlock
  <2>6. ASSUME NEW q \in Route, q # r
        PROVE  promise'[q] # 0 =>
               \A k \in Blocking(store, q)' : store'.blocks[k].until <= promise'[q]
    <3>1. promise'[q] = promise[q]
      BY <1>0, <2>1, <2>6
    <3>. QED  BY <1>0, <1>2, <2>5, <3>1, PromiseStays, KeysTyped
  <2>. QED  BY <2>4, <2>6 DEF Promised
<1>. QED  BY <1>3, <1>4

\* A fault takes back the promises of the routes its scope applies to, and of no
\* other.
LEMMA FaultPromises ==
    ASSUME IInv, Promised, NEW c \in Call, Fault(c)
    PROVE  Promised'
<1>0. /\ StoreFence /\ CallsFence /\ Environment /\ Succeeds(store) /\ store.seq \in Nat
      /\ promise \in [Route -> Nat] /\ store.blocks \in [Key -> Block \cup {NoBlock}]
  BY StoreSucceeds DEF IInv, Environment, StoreFence, StoreType
<1>1. calls[c].route \in Route /\ funding' = funding
  BY <1>0, SentCall DEF Fault
<1>2. PICK k \in KeysOf(calls[c].route), b \in Block :
        /\ Commit(ReadBack(c, Marked(store, k, b)))
        /\ promise' = [q \in Route |-> IF k \in KeysOf(q) THEN 0 ELSE promise[q]]
  BY FaultMarks
<1>. DEFINE m == Marked(store, k, b)
            e == ReadBack(c, m)
<1>3. k \in Key /\ ProviderOf[calls[c].route] \in Provider
  BY <1>1, <1>2, KeysTyped
<1>4. Succeeds(m) /\ m.blocks = [store.blocks EXCEPT ![k] = b]
  BY <1>0, <1>2, <1>3, MarkedSucceeds
<1>. HIDE DEF m
<1>5. /\ Succeeds(e)
      /\ \A j \in Key :
            \/ e.blocks[j] = m.blocks[j]
            \/ ~e.blocks[j].open /\ e.blocks[j] \in Block
            \/ e.blocks[j] = NoBlock /\ Due(m, j) /\ m.blocks[j].resets
  BY <1>0, <1>3, <1>4, ReadBackSucceeds
<1>6. Commit(e)
  BY <1>2 DEF m
<1>. HIDE DEF e
<1>7. store'.blocks = e.blocks
  BY <1>0, <1>5, <1>6, CommitFence
<1>8. \A j \in Key \ {k} : m.blocks[j] = store.blocks[j]
  BY <1>0, <1>4
<1>9. \A j \in Key \ {k} : store'.blocks[j].open =>
                /\ store.blocks[j].open /\ store.blocks[j] # NoBlock
                /\ store'.blocks[j].until = store.blocks[j].until
  BY <1>5, <1>7, <1>8 DEF NoBlock
<1>10. ASSUME NEW q \in Route
       PROVE  promise'[q] # 0 =>
               \A j \in Blocking(store, q)' : store'.blocks[j].until <= promise'[q]
  <2>1. CASE k \in KeysOf(q)
    BY <1>2, <2>1
  <2>2. CASE k \notin KeysOf(q)
    <3>1. promise'[q] = promise[q]
      BY <1>2, <2>2
    <3>2. KeysOf(q) \subseteq Key \ {k}
      BY <2>2, KeysTyped
    <3>. QED  BY <1>0, <1>1, <1>9, <3>1, <3>2, PromiseStays
  <2>. QED  BY <2>1, <2>2
<1>. QED  BY <1>10 DEF Promised

\* A step that leaves the ends of the blocks alone keeps the promises.
LEMMA RetimedPromises ==
    ASSUME IInv, Promised, Retimed, UNCHANGED <<funding, promise>>
    PROVE  Promised'
<1>1. \A k \in Key : store'.blocks[k].open =>
                /\ store.blocks[k].open /\ store.blocks[k] # NoBlock
                /\ store'.blocks[k].until = store.blocks[k].until
  BY DEF Retimed, NoBlock
<1>2. ASSUME NEW r \in Route
      PROVE  promise'[r] # 0 =>
             \A k \in Blocking(store, r)' : store'.blocks[k].until <= promise'[r]
  BY <1>1, PromiseStays, KeysTyped DEF IInv
<1>. QED  BY <1>2 DEF Promised

\* A route that draws on other pools has no promise.
LEMMA SwitchPromises ==
    ASSUME IInv, Promised, NEW r \in Route, SwitchFunding(r)
    PROVE  Promised'
<1>1. /\ Environment /\ store' = store /\ promise' = [promise EXCEPT ![r] = 0]
      /\ \A q \in Route : q # r => funding'[q] = funding[q]
      /\ promise \in [Route -> Nat] /\ store \in StoreType
  BY DEF IInv, Environment, SwitchFunding, StoreFence
<1>2. \A k \in Key : store'.blocks[k].open =>
                /\ store.blocks[k].open /\ store.blocks[k] # NoBlock
                /\ store'.blocks[k].until = store.blocks[k].until
  BY <1>1 DEF NoBlock
<1>3. ASSUME NEW q \in Route
      PROVE  promise'[q] # 0 =>
             \A k \in Blocking(store, q)' : store'.blocks[k].until <= promise'[q]
  <2>1. CASE q = r
    BY <1>1, <2>1
  <2>2. CASE q # r
    BY <1>1, <1>2, <2>2, PromiseStays, KeysTyped
  <2>. QED  BY <2>1, <2>2
<1>. QED  BY <1>3 DEF Promised

\* One step keeps the promises.
LEMMA PromiseStep == IInv /\ Promised /\ [Next]_vars => Promised'
<1>. SUFFICES ASSUME IInv, Promised, [Next]_vars PROVE Promised'
  OBVIOUS
<1>0. /\ StoreFence /\ CallsFence /\ Environment /\ Succeeds(store) /\ store.seq \in Nat
      /\ Quiet(store)
  BY StoreSucceeds DEF IInv, Quiet
<1>1. ASSUME NEW p, NEW v, ObserveCredential(p, v), UNCHANGED <<funding, promise>>
      PROVE  Promised'
  <2>1. Outdated(p, v) \in SUBSET Key
    BY DEF Outdated, Blocked
  <2>2. Quiet(Remove(store, Outdated(p, v)))
    BY <2>1, <1>0, RemoveQuiet
  <2>. QED  BY <2>2, <1>1, QuietPromises DEF ObserveCredential
<1>2. \A c \in Call : Refresh(c) \/ (\E r \in Route : BeginRequest(c, r)) => Promised'
  BY <1>1 DEF BeginRequest, Refresh
<1>3. \A c \in Call : Admit(c) \/ (\E r \in Route : AdmitNative(c, r)) => Promised'
  BY <1>0, ReadyCall, AdmitPromises DEF Admit, AdmitNative
<1>4. ASSUME NEW c \in Call, Succeed(c) PROVE Promised'
  <2>. DEFINE r == calls[c].route
              s == ExpireIfDue(store, KeysOfProvider(ProviderOf[r]))
              K == {k \in Applying(s, r) : calls[c].guard[k] = s.gens[k]}
  <2>1. r \in Route
    BY <1>4, <1>0, SentCall DEF Succeed
  <2>2. Quiet(s)
    BY <2>1, <1>0, KeysTyped, ExpireQuiet
  <2>3. K \in SUBSET Key
    BY <2>1, <1>0, KeysTyped DEF Applying, Environment
  <2>4. Commit(Remove(s, K)) /\ UNCHANGED <<funding, promise>>
    BY <1>4 DEF Succeed
  <2>. HIDE DEF K, s
  <2>5. Quiet(Remove(s, K))
    BY <2>2, <2>3, <1>0, RemoveQuiet
  <2>. QED  BY <2>4, <2>5, QuietPromises
<1>5. ASSUME NEW c \in Call, Late(c) PROVE Promised'
  <2>1. KeysOfProvider(ProviderOf[calls[c].route]) \in SUBSET Key
    BY <1>5, <1>0, SentCall, KeysTyped DEF Late
  <2>2. Quiet(ReadBack(c, store))
    BY <2>1, <1>0, ExpireQuiet DEF ReadBack
  <2>3. Commit(ReadBack(c, store)) /\ UNCHANGED <<funding, promise>>
    BY <1>5 DEF Late
  <2>. QED  BY <2>2, <2>3, QuietPromises
<1>6. ASSUME NEW p \in Provider, ListModels(p) PROVE Promised'
  BY <1>1, <1>6 DEF ListModels
<1>7. ASSUME NEW p \in Provider, Status(p) PROVE Promised'
  <2>1. Quiet(ExpireIfDue(store, KeysOfProvider(p)))
    BY <1>0, KeysTyped, ExpireQuiet
  <2>. QED  BY <2>1, <1>7, QuietPromises DEF Status
<1>8. ASSUME NEW p \in Provider, ClearProvider(p) PROVE Promised'
  <2>. DEFINE K == KeysOfProvider(p) \cap Blocked(store)
              a == Advance(store, {ProviderKey[p]})
  <2>1. K \in SUBSET Key /\ {ProviderKey[p]} \in SUBSET Key
    BY KeysTyped
  <2>2. Commit(Remove(a, K)) /\ UNCHANGED <<funding, promise>>
    BY <1>8 DEF ClearProvider
  <2>3. Succeeds(a) /\ a.blocks = store.blocks
    BY <2>1, <1>0, AdvanceSucceeds
  <2>. HIDE DEF K, a
  <2>4. Quiet(a)
    BY <2>3 DEF Quiet
  <2>5. Quiet(Remove(a, K))
    BY <2>1, <2>4, <1>0, RemoveQuiet
  <2>. QED  BY <2>2, <2>5, QuietPromises
<1>9. ASSUME NEW k \in Key, TimerFires(k) PROVE Promised'
  <2>0. UNCHANGED <<funding, promise>>
    BY <1>9 DEF TimerFires
  <2>1. CASE Due(store, k)
    <3>1. Commit(ExpireIfDue(store, {k}))
      BY <2>1, <1>9 DEF TimerFires
    <3>2. Quiet(ExpireIfDue(store, {k}))
      BY <1>0, ExpireQuiet
    <3>. QED  BY <2>0, <3>1, <3>2, QuietPromises
  <2>2. CASE ~Due(store, k)
    BY <2>0, <2>2, <1>9, RearmRetimed, RetimedPromises
  <2>. QED  BY <2>1, <2>2
<1>10. ASSUME store' = store, truth' = truth, UNCHANGED <<funding, promise>> PROVE Promised'
  <2>1. Retimed
    BY <1>10 DEF Retimed
  <2>. QED  BY <2>1, <1>10, RetimedPromises
<1>11. /\ \A c \in Call : Drop(c) => Promised'
       /\ \A p \in Provider : Rotate(p) => Promised'
       /\ Tick => Promised'
       /\ UNCHANGED vars => Promised'
  BY <1>10 DEF Drop, Rotate, Tick, vars
<1>12. \A r \in Route : SwitchFunding(r) => Promised'
  BY SwitchPromises
<1>13. \A c \in Call : Fault(c) => Promised'
  BY FaultPromises
<1>. QED
  BY <1>2, <1>3, <1>4, <1>5, <1>6, <1>7, <1>8, <1>9, <1>11, <1>12, <1>13 DEF Next

\* For any number of scopes in the way, whatever expires, is cleared or is set again
\* meanwhile: a caller that comes back at the instant it was told finds every block
\* in its way due, unless a fault was recorded or the funding switched since.
THEOREM PromiseKeptHolds == Spec => []PromiseKept
<1>1. Init => Promised
  BY DEF Init, Promised
<1>2. ASSUME IInv, Promised PROVE PromiseKept
  <2>. SUFFICES ASSUME NEW r \in Route, promise[r] # 0, promise[r] <= now,
                       NEW k \in Blocking(store, r)
                PROVE  Due(store, k)
    BY DEF PromiseKept
  <2>1. k \in Key /\ store.blocks[k].open /\ store.blocks[k] # NoBlock
    BY <1>2, BlockingKeys DEF Blocking, Applying, IInv
  <2>2. store.blocks[k].until \in Nat /\ now \in Nat /\ promise[r] \in Nat
    BY <1>2, <2>1 DEF IInv, StoreFence, StoreType, Block, Environment
  <2>3. store.blocks[k].until <= promise[r]
    BY <1>2 DEF Promised
  <2>. QED  BY <2>1, <2>2, <2>3 DEF Due
<1>. QED  BY <1>1, <1>2, PromiseStep, RouteInvariance, PTL DEF Spec

================================================================================
