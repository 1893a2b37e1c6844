-------------------------- MODULE DesktopLane_proofs --------------------------
(***************************************************************************)
(* Proofs about the desktop lane: one owner has the desktop, the positions *)
(* waiters are told are their places, and nobody is passed over, for any   *)
(* runs, owners and adopted processes.                                     *)
(*                                                                         *)
(* The invariant LInv ties the two views of a waiter together (its place   *)
(* in the queue and what its acquire() came to) and counts the holds: the  *)
(* counter is the number of runs that still have to release the lane, plus *)
(* one for a process adopted at startup.                                   *)
(***************************************************************************)
EXTENDS DesktopLane, FiniteSets, FiniteSetTheorems, TLAPS

\* Every waiter is in the queue, once, and was not aborted.
QueueOK ==
    /\ \A i, j \in DOMAIN lane.queue : lane.queue[i] = lane.queue[j] => i = j
    /\ \A i \in DOMAIN lane.queue : /\ phase[lane.queue[i]] = "waiting"
                                    /\ lane.queue[i] \notin aborted
    /\ \A r \in Run : phase[r] = "waiting" => \E i \in DOMAIN lane.queue : lane.queue[i] = r

\* The hold counter counts the runs that have to release, and an adopted process.
HoldsOK ==
    /\ IsFiniteSet(Holders)
    /\ lane.holds = Cardinality(Holders) + (IF adopted THEN 1 ELSE 0)
    /\ lane.owner = NoOwner <=> lane.holds = 0

\* A free lane has no queue, and a run that did not ask was told no position.
RestOK ==
    /\ lane.owner = NoOwner => lane.queue = <<>>
    /\ \A r \in Run : phase[r] = "idle" => position[r] = 0
    /\ \A r \in Holders : OwnerOf[r] = lane.owner

LInv == LaneTypeOK /\ QueueOK /\ HoldsOK /\ RestOK /\ PositionTrue

-----------------------------------------------------------------------------
\* What is left of a queue are the runs that did not leave it, once each.
LEMMA WithoutIs ==
    ASSUME NEW queue \in Seq(Run), NEW rs, NEW q \in Without(queue, rs)
    PROVE  /\ q \in Seq(Run)
           /\ ToSet(q) = ToSet(queue) \ rs
           /\ \A i, j \in DOMAIN q : q[i] = q[j] => i = j
  <1> DEFINE S == ToSet(queue) \ rs
             n == Cardinality(S)
             f == [i \in 1..Len(queue) |-> queue[i]]
  <1>1. f \in Surjection(1..Len(queue), ToSet(queue))
    BY DEF Surjection, ToSet
  <1>2. IsFiniteSet(1..Len(queue))
    BY FS_Interval
  <1>3. IsFiniteSet(ToSet(queue))
    BY <1>1, <1>2, FS_Surjection
  <1>4. S \in SUBSET ToSet(queue)
    OBVIOUS
  <1>5. IsFiniteSet(S) /\ n \in Nat
    BY <1>3, <1>4, FS_Subset, FS_CardinalityType
  <1>6. q \in [1..n -> S] /\ \A i, j \in 1..n : i # j => q[i] # q[j]
    BY DEF Without, SetToSeqs
  <1>7. q \in Injection(1..n, S)
    BY <1>6 DEF Injection, IsInjective
  <1>8. Cardinality(1..n) = n
    BY <1>5, FS_Interval
  <1>9. q \in Surjection(1..n, S)
    BY <1>5, <1>7, <1>8, FS_Injection
  <1>10. S \subseteq Run
    BY DEF ToSet
  <1>11. q \in Seq(Run) /\ DOMAIN q = 1..n
    <2>1. q \in [1..n -> Run] /\ n \in Nat
      BY <1>5, <1>6, <1>10
    <2> HIDE DEF n, S
    <2> QED BY <2>1
  <1>12. ToSet(q) = S
    BY <1>9, <1>11 DEF Surjection, ToSet
  <1> QED BY <1>6, <1>11, <1>12

\* Told gives the waiters their places and leaves the others alone.
LEMMA ToldIs ==
    ASSUME NEW queue \in Seq(Run), position \in [Run -> Nat],
           \A i, j \in DOMAIN queue : queue[i] = queue[j] => i = j
    PROVE  /\ Told(queue) \in [Run -> Nat]
           /\ \A i \in DOMAIN queue : Told(queue)[queue[i]] = i
           /\ \A r \in Run : (\A i \in DOMAIN queue : queue[i] # r)
                                => Told(queue)[r] = position[r]
  <1>1. \A i \in DOMAIN queue : queue[i] \in Run /\ i \in Nat /\ Contains(queue, queue[i])
    BY DEF Contains
  <1>2. \A i \in DOMAIN queue : PositionOf(queue[i], queue) = i
    BY <1>1 DEF PositionOf
  <1>3. \A r \in Run : Contains(queue, r) => \E i \in DOMAIN queue : queue[i] = r
    BY DEF Contains
  <1>4. \A r \in Run : Contains(queue, r) => PositionOf(r, queue) \in Nat
    BY <1>1, <1>2, <1>3
  <1>5. \A r \in Run : Told(queue)[r] \in Nat
    BY <1>4 DEF Told
  <1>6. Told(queue) \in [Run -> Nat]
    BY <1>4 DEF Told
  <1>7. \A i \in DOMAIN queue : Told(queue)[queue[i]] = i
    BY <1>1, <1>2 DEF Told
  <1>8. \A r \in Run : (\A i \in DOMAIN queue : queue[i] # r) => Told(queue)[r] = position[r]
    BY <1>3 DEF Told
  <1> QED BY <1>6, <1>7, <1>8

LEMMA InitLInv == LaneInit => LInv
  <1> SUFFICES ASSUME LaneInit PROVE LInv
    OBVIOUS
  <1>1. Holders = {}
    BY DEF LaneInit, Holders
  <1>2. LaneTypeOK
    <2>1. /\ {NoOwner} \cup Adopted \subseteq Owner \cup {NoOwner} /\ {0, 1} \subseteq Nat
          /\ {<<>>} \subseteq Seq(Run) /\ {FALSE} \subseteq BOOLEAN
      BY DEF Owner
    <2>2. lane \in [owner : Owner \cup {NoOwner}, holds : Nat, queue : Seq(Run), closed : BOOLEAN]
      BY <2>1, Zenon DEF LaneInit
    <2> QED BY <2>2 DEF LaneInit, LaneTypeOK, Phases
  <1>3. lane.queue = <<>> /\ DOMAIN lane.queue = {}
    BY DEF LaneInit
  <1>4. QueueOK
    BY <1>3 DEF LaneInit, QueueOK
  <1>5. HoldsOK
    <2>1. IsFiniteSet(Holders) /\ Cardinality(Holders) = 0
      BY <1>1, FS_EmptySet
    <2>2. /\ lane.holds = IF lane.owner = NoOwner THEN 0 ELSE 1
          /\ adopted <=> lane.owner # NoOwner
      BY DEF LaneInit
    <2>3. lane.holds = Cardinality(Holders) + (IF adopted THEN 1 ELSE 0)
      BY <2>1, <2>2
    <2> QED BY <2>1, <2>2, <2>3 DEF HoldsOK
  <1>6. RestOK
    BY <1>1, <1>3 DEF RestOK, LaneInit
  <1> QED BY <1>1, <1>2, <1>3, <1>4, <1>5, <1>6 DEF LInv, PositionTrue

-----------------------------------------------------------------------------
\* The holders after a step that gives one run the lane, and after one that
\* takes it from one.
LEMMA OneMoreHolder ==
    ASSUME LInv, NEW r \in Run, phase[r] = "idle",
           phase' = [phase EXCEPT ![r] = "held"], UNCHANGED adopted
    PROVE  /\ Holders' = Holders \cup {r}
           /\ IsFiniteSet(Holders') /\ Cardinality(Holders') = Cardinality(Holders) + 1
  <1>1. Holders' = Holders \cup {r} /\ r \notin Holders
    BY DEF Holders, LInv, LaneTypeOK
  <1> QED BY <1>1, FS_AddElement DEF LInv, HoldsOK

LEMMA OneFewerHolder ==
    ASSUME LInv, NEW r \in Run, phase[r] = "held"
    PROVE  /\ IsFiniteSet(Holders \ {r})
           /\ Cardinality(Holders) \in Nat /\ Cardinality(Holders) >= 1
           /\ Cardinality(Holders \ {r}) = Cardinality(Holders) - 1
           /\ lane.holds = 1 => ~adopted /\ Holders = {r}
  <1>1. r \in Holders /\ IsFiniteSet(Holders)
    BY DEF Holders, LInv, HoldsOK
  <1>2. /\ IsFiniteSet(Holders \ {r}) /\ Cardinality(Holders) \in Nat
        /\ Cardinality(Holders \ {r}) \in Nat
        /\ Cardinality(Holders \ {r}) = Cardinality(Holders) - 1
    BY <1>1, FS_RemoveElement, FS_CardinalityType
  <1>3. ASSUME lane.holds = 1 PROVE ~adopted /\ Holders = {r}
    <2>1. lane.holds = Cardinality(Holders) + (IF adopted THEN 1 ELSE 0)
      BY DEF LInv, HoldsOK
    <2>2. ~adopted
      <3>1. ASSUME adopted PROVE FALSE
        <4>1. lane.holds = Cardinality(Holders) + 1
          BY <2>1, <3>1
        <4> QED BY <1>2, <1>3, <4>1
      <3> QED BY <3>1
    <2>3. Cardinality(Holders) = 1
      <3>1. lane.holds = Cardinality(Holders) + 0
        BY <2>1, <2>2
      <3> QED BY <1>2, <1>3, <3>1
    <2>4. Holders \ {r} = {}
      BY <1>2, <2>3, FS_EmptySet
    <2> QED BY <1>1, <2>2, <2>4
  <1> QED BY <1>2, <1>3

LEMMA AcquireLInv ==
    ASSUME LInv, NEW r \in Run, Acquire(r)
    PROVE  LInv'
  <1> USE DEF LInv
  <1>0. /\ phase[r] = "idle" /\ UNCHANGED <<aborted, adopted>>
        /\ lane.queue \in Seq(Run) /\ r \notin Holders
        /\ \A i \in DOMAIN lane.queue : lane.queue[i] # r /\ lane.queue[i] \in Run
    BY DEF Acquire, Holders, QueueOK, LaneTypeOK
  <1>1. CASE Refuse(r)
    <2>1. /\ UNCHANGED <<lane, position, aborted, adopted>>
          /\ phase' = [phase EXCEPT ![r] = "refused"]
      BY <1>0, <1>1 DEF Refuse
    <2>2. Holders' = Holders
      BY <1>0, <2>1 DEF Holders, LaneTypeOK
    <2>3. LaneTypeOK'
      BY <2>1 DEF LaneTypeOK, Phases
    <2>4. QueueOK'
      BY <1>0, <2>1 DEF QueueOK, LaneTypeOK
    <2>5. HoldsOK' /\ PositionTrue'
      BY <2>1, <2>2 DEF HoldsOK, PositionTrue
    <2>6. RestOK'
      BY <2>1, <2>2 DEF RestOK, LaneTypeOK
    <2> QED BY <2>3, <2>4, <2>5, <2>6
  <1>2. CASE Join(r) \/ Take(r)
    <2>1. /\ UNCHANGED <<position, aborted, adopted>>
          /\ phase' = [phase EXCEPT ![r] = "held"]
          /\ lane'.queue = lane.queue /\ lane'.owner = OwnerOf[r]
          /\ lane'.holds = lane.holds + 1 /\ lane'.closed = lane.closed
          /\ lane' \in [owner : Owner \cup {NoOwner}, holds : Nat, queue : Seq(Run), closed : BOOLEAN]
          /\ Join(r) => lane.owner = OwnerOf[r]
          /\ lane.owner # OwnerOf[r] => lane.owner = NoOwner
          /\ OwnerOf[r] # NoOwner
      <3>1. OwnerOf[r] \in Owner /\ OwnerOf[r] # NoOwner
        BY OwnerAssumption DEF Owner
      <3>2. /\ UNCHANGED <<position, aborted, adopted>>
            /\ phase' = [phase EXCEPT ![r] = "held"]
        BY <1>0, <1>2 DEF Join, Take
      <3>3. CASE Join(r)
        <4>1. lane' = [lane EXCEPT !.holds = @ + 1] /\ lane.owner = OwnerOf[r]
          BY <3>3 DEF Join
        <4>2. lane'.queue = lane.queue /\ lane'.owner = OwnerOf[r]
          BY <4>1 DEF LaneTypeOK
        <4>3. lane'.holds = lane.holds + 1 /\ lane'.closed = lane.closed
          BY <4>1 DEF LaneTypeOK
        <4>4. lane' \in [owner : Owner \cup {NoOwner}, holds : Nat, queue : Seq(Run), closed : BOOLEAN]
          <5>1. lane.holds + 1 \in Nat
            BY DEF LaneTypeOK
          <5>2. lane' = [lane EXCEPT !.holds = lane.holds + 1]
            BY <4>1
          <5> QED BY <5>1, <5>2, Zenon DEF LaneTypeOK
        <4> QED BY <3>1, <3>2, <4>1, <4>2, <4>3, <4>4
      <3>4. CASE Take(r)
        <4>1. lane' = [lane EXCEPT !.owner = OwnerOf[r], !.holds = 1] /\ lane.owner = NoOwner
          BY <3>4 DEF Take
        <4>2. lane.holds = 0
          BY <4>1 DEF HoldsOK
        <4>3. ~Join(r)
          BY <3>1, <4>1 DEF Join
        <4>4. lane'.queue = lane.queue /\ lane'.owner = OwnerOf[r]
          BY <4>1 DEF LaneTypeOK
        <4>5. lane'.holds = 1 /\ lane'.closed = lane.closed
          BY <4>1 DEF LaneTypeOK
        <4>6. lane' \in [owner : Owner \cup {NoOwner}, holds : Nat, queue : Seq(Run), closed : BOOLEAN]
          BY <3>1, <4>1 DEF LaneTypeOK
        <4> QED BY <3>1, <3>2, <4>1, <4>2, <4>3, <4>4, <4>5, <4>6
      <3> QED BY <1>2, <3>3, <3>4
    <2>2. /\ Holders' = Holders \cup {r}
          /\ IsFiniteSet(Holders') /\ Cardinality(Holders') = Cardinality(Holders) + 1
          /\ Cardinality(Holders) \in Nat
      BY <1>0, <2>1, OneMoreHolder, FS_CardinalityType DEF HoldsOK
    <2>3. LaneTypeOK'
      BY <2>1 DEF LaneTypeOK, Phases
    <2>4. QueueOK'
      BY <1>0, <2>1 DEF QueueOK, LaneTypeOK
    <2>5. HoldsOK'
      <3>1. lane'.holds = Cardinality(Holders') + (IF adopted' THEN 1 ELSE 0)
        <4>1. lane.holds = Cardinality(Holders) + (IF adopted THEN 1 ELSE 0)
          BY DEF HoldsOK
        <4>2. CASE adopted
          BY <2>1, <2>2, <4>1, <4>2
        <4>3. CASE ~adopted
          BY <2>1, <2>2, <4>1, <4>3
        <4> QED BY <4>2, <4>3
      <3>2. lane'.owner # NoOwner /\ lane'.holds # 0
        BY <2>1 DEF LaneTypeOK
      <3> QED BY <2>2, <3>1, <3>2 DEF HoldsOK
    <2>6. RestOK'
      <3>1. \A h \in Holders : OwnerOf[h] = OwnerOf[r]
        <4>1. CASE lane.owner = OwnerOf[r]
          BY <4>1 DEF RestOK
        <4>2. CASE lane.owner = NoOwner
          <5>1. Holders = {}
            <6>1. lane.holds = 0 /\ lane.holds = Cardinality(Holders) + (IF adopted THEN 1 ELSE 0)
              BY <4>2 DEF HoldsOK
            <6>2. Cardinality(Holders) = 0
              BY <2>2, <6>1
            <6> QED BY <6>2, FS_EmptySet DEF HoldsOK
          <5> QED BY <5>1
        <4> QED BY <2>1, <4>1, <4>2
      <3> QED BY <2>1, <2>2, <3>1 DEF RestOK, LaneTypeOK
    <2>7. PositionTrue'
      BY <1>0, <2>1, <2>2 DEF PositionTrue, RestOK
    <2> QED BY <2>3, <2>4, <2>5, <2>6, <2>7
  <1>3. CASE Enqueue(r) /\ r \notin aborted
    <2> DEFINE q == Append(lane.queue, r)
    <2>1. /\ lane' = [lane EXCEPT !.queue = q]
          /\ phase' = [phase EXCEPT ![r] = "waiting"]
          /\ position' = Told(q)
          /\ UNCHANGED <<aborted, adopted>>
      BY <1>0, <1>3 DEF Enqueue, LaneTypeOK
    <2>2. /\ q \in Seq(Run) /\ DOMAIN q = 1..(Len(lane.queue) + 1)
          /\ \A i \in DOMAIN lane.queue : i \in DOMAIN q /\ q[i] = lane.queue[i]
          /\ q[Len(lane.queue) + 1] = r
          /\ \A i \in DOMAIN q : i \in DOMAIN lane.queue \/ i = Len(lane.queue) + 1
      BY <1>0
    <2>3. \A i, j \in DOMAIN q : q[i] = q[j] => i = j
      BY <1>0, <2>2 DEF QueueOK
    <2>4. /\ lane'.queue = q /\ lane'.owner = lane.owner /\ lane'.holds = lane.holds
          /\ lane' \in [owner : Owner \cup {NoOwner}, holds : Nat, queue : Seq(Run), closed : BOOLEAN]
      BY <2>1, <2>2 DEF LaneTypeOK
    <2>5. /\ position' \in [Run -> Nat] /\ \A i \in DOMAIN q : position'[q[i]] = i
          /\ \A w \in Run : (\A i \in DOMAIN q : q[i] # w) => position'[w] = position[w]
      BY <2>1, <2>2, <2>3, ToldIs DEF LaneTypeOK
    <2> HIDE DEF q
    <2>6. Holders' = Holders
      BY <1>0, <2>1 DEF Holders, LaneTypeOK
    <2>7. LaneTypeOK'
      BY <2>1, <2>4, <2>5 DEF LaneTypeOK, Phases
    <2>8. QueueOK'
      <3>1. \A i \in DOMAIN q : phase'[q[i]] = "waiting" /\ q[i] \notin aborted'
        BY <1>0, <1>3, <2>1, <2>2 DEF QueueOK, LaneTypeOK
      <3>2. ASSUME NEW w \in Run, phase'[w] = "waiting"
            PROVE  \E i \in DOMAIN q : q[i] = w
        <4>1. CASE w = r
          <5>1. Len(lane.queue) + 1 \in DOMAIN q
            BY <1>0, <2>2
          <5> QED BY <2>2, <4>1, <5>1
        <4>2. CASE w # r
          <5>1. phase[w] = "waiting"
            BY <2>1, <3>2, <4>2 DEF LaneTypeOK
          <5>2. PICK i \in DOMAIN lane.queue : lane.queue[i] = w
            BY <5>1 DEF QueueOK
          <5> QED BY <2>2, <5>2
        <4> QED BY <4>1, <4>2
      <3> QED BY <2>3, <2>4, <3>1, <3>2 DEF QueueOK
    <2>9. HoldsOK'
      BY <2>1, <2>4, <2>6 DEF HoldsOK
    <2>10. \A w \in Run : phase'[w] # "waiting" => position'[w] = position[w]
      BY <2>5, <2>8, <2>4 DEF QueueOK
    <2>11. RestOK'
      <3>1. lane'.owner # NoOwner
        BY <1>3, <2>4 DEF Enqueue, RestOK
      <3> QED BY <2>1, <2>4, <2>6, <2>10, <3>1 DEF RestOK, LaneTypeOK
    <2>12. PositionTrue'
      <3>1. \A h \in Holders' : position'[h] = position[h]
        BY <2>10 DEF Holders
      <3> QED BY <2>4, <2>5, <2>6, <3>1 DEF PositionTrue
    <2> QED BY <2>7, <2>8, <2>9, <2>11, <2>12
  <1> QED BY <1>1, <1>2, <1>3 DEF Acquire

LEMMA AbortLInv ==
    ASSUME LInv, NEW rs \in SUBSET Run, Abort(rs)
    PROVE  LInv'
  <1> USE DEF LInv
  <1>1. PICK q \in Without(lane.queue, rs) :
            lane' = [lane EXCEPT !.queue = q] /\ position' = Told(q)
    BY DEF Abort
  <1>2. /\ aborted' = aborted \cup rs /\ UNCHANGED adopted
        /\ phase' = [r \in Run |-> IF r \in rs /\ phase[r] = "waiting" THEN "refused"
                                   ELSE phase[r]]
    BY DEF Abort
  <1>3. /\ q \in Seq(Run) /\ ToSet(q) = ToSet(lane.queue) \ rs
        /\ \A i, j \in DOMAIN q : q[i] = q[j] => i = j
    BY <1>1, WithoutIs DEF LaneTypeOK
  <1>4. \A i \in DOMAIN q : q[i] \notin rs /\ \E j \in DOMAIN lane.queue : lane.queue[j] = q[i]
    BY <1>3 DEF ToSet
  <1>5. \A j \in DOMAIN lane.queue : lane.queue[j] \notin rs
            => \E i \in DOMAIN q : q[i] = lane.queue[j]
    BY <1>3 DEF ToSet
  <1>6. /\ lane'.queue = q /\ lane'.owner = lane.owner /\ lane'.holds = lane.holds
        /\ lane' \in [owner : Owner \cup {NoOwner}, holds : Nat, queue : Seq(Run), closed : BOOLEAN]
    BY <1>1, <1>3 DEF LaneTypeOK
  <1>7. /\ position' \in [Run -> Nat] /\ \A i \in DOMAIN q : position'[q[i]] = i
        /\ \A w \in Run : (\A i \in DOMAIN q : q[i] # w) => position'[w] = position[w]
    BY <1>1, <1>3, ToldIs DEF LaneTypeOK
  <1>8. Holders' = Holders
    BY <1>2 DEF Holders
  <1>9. LaneTypeOK'
    <2>1. phase' \in [Run -> Phases] /\ aborted' \subseteq Run /\ adopted' \in BOOLEAN
      BY <1>2 DEF LaneTypeOK, Phases
    <2> QED BY <1>6, <1>7, <2>1 DEF LaneTypeOK
  <1>10. QueueOK'
    <2>1. \A i \in DOMAIN q : phase'[q[i]] = "waiting" /\ q[i] \notin aborted'
      <3> SUFFICES ASSUME NEW i \in DOMAIN q
                   PROVE  phase'[q[i]] = "waiting" /\ q[i] \notin aborted'
        OBVIOUS
      <3>1. PICK j \in DOMAIN lane.queue : lane.queue[j] = q[i]
        BY <1>4
      <3>2. q[i] \in Run /\ q[i] \notin rs /\ phase[q[i]] = "waiting" /\ q[i] \notin aborted
        BY <1>3, <1>4, <3>1 DEF QueueOK
      <3> QED BY <1>2, <3>2
    <2>2. ASSUME NEW w \in Run, phase'[w] = "waiting"
          PROVE  \E i \in DOMAIN q : q[i] = w
      <3>1. phase[w] = "waiting" /\ w \notin rs
        BY <1>2, <2>2
      <3>2. PICK j \in DOMAIN lane.queue : lane.queue[j] = w
        BY <3>1 DEF QueueOK
      <3> QED BY <1>5, <3>1, <3>2
    <2> QED BY <1>3, <1>6, <2>1, <2>2 DEF QueueOK
  <1>11. HoldsOK'
    BY <1>2, <1>6, <1>8 DEF HoldsOK
  <1>12. \A w \in Run : phase'[w] # "waiting" => position'[w] = position[w]
    BY <1>6, <1>7, <1>10 DEF QueueOK
  <1>13. RestOK'
    <2>1. lane.queue = <<>> => q = <<>>
      <3> SUFFICES ASSUME lane.queue = <<>> PROVE q = <<>>
        OBVIOUS
      <3>1. DOMAIN lane.queue = {}
        OBVIOUS
      <3>2. DOMAIN q = {}
        BY <1>4, <3>1
      <3> QED BY <1>3, <3>2
    <2>2. \A w \in Run : phase'[w] = "idle" => position'[w] = 0
      BY <1>2, <1>12 DEF RestOK
    <2> QED BY <1>6, <1>8, <2>1, <2>2 DEF RestOK
  <1>14. PositionTrue'
    <2>1. \A h \in Holders' : position'[h] = position[h]
      BY <1>12 DEF Holders
    <2> QED BY <1>6, <1>7, <1>8, <2>1 DEF PositionTrue
  <1> QED BY <1>9, <1>10, <1>11, <1>13, <1>14

LEMMA KeepHeldLInv ==
    ASSUME LInv, NEW r \in Run, phase[r] = "held", KeepHeld(r), UNCHANGED <<aborted, adopted>>
    PROVE  LInv'
  <1> USE DEF LInv
  <1>1. /\ phase' = [phase EXCEPT ![r] = "released"] /\ UNCHANGED position
        /\ lane' = [lane EXCEPT !.holds = lane.holds - 1] /\ lane.holds > 1
    BY DEF KeepHeld
  <1>2. /\ lane.holds \in Nat /\ lane.holds - 1 \in Nat /\ lane.holds - 1 # 0
        /\ lane'.queue = lane.queue /\ lane'.owner = lane.owner
        /\ lane'.holds = lane.holds - 1
    BY <1>1 DEF LaneTypeOK
  <1>3. Holders' = Holders \ {r}
    BY <1>1 DEF Holders, LaneTypeOK
  <1>4. LaneTypeOK'
    <2>1. lane' \in [owner : Owner \cup {NoOwner}, holds : Nat, queue : Seq(Run), closed : BOOLEAN]
      BY <1>1, <1>2, Zenon DEF LaneTypeOK
    <2> QED BY <1>1, <2>1 DEF LaneTypeOK, Phases
  <1>5. QueueOK'
    BY <1>1, <1>2 DEF QueueOK, LaneTypeOK
  <1>6. HoldsOK'
    <2>1. /\ IsFiniteSet(Holders') /\ Cardinality(Holders') = Cardinality(Holders) - 1
          /\ Cardinality(Holders) \in Nat
      BY <1>3, OneFewerHolder
    <2>2. lane.holds = Cardinality(Holders) + (IF adopted THEN 1 ELSE 0)
      BY DEF HoldsOK
    <2>3. lane'.holds = Cardinality(Holders') + (IF adopted' THEN 1 ELSE 0)
      <3>1. CASE adopted
        BY <1>2, <2>1, <2>2, <3>1
      <3>2. CASE ~adopted
        BY <1>2, <2>1, <2>2, <3>2
      <3> QED BY <3>1, <3>2
    <2>4. lane.owner # NoOwner
      BY <1>2 DEF HoldsOK
    <2> QED BY <1>2, <2>1, <2>3, <2>4 DEF HoldsOK
  <1>7. RestOK'
    BY <1>1, <1>2, <1>3 DEF RestOK, LaneTypeOK
  <1>8. PositionTrue'
    BY <1>1, <1>2, <1>3 DEF PositionTrue
  <1> QED BY <1>4, <1>5, <1>6, <1>7, <1>8

LEMMA NobodyNextLInv ==
    ASSUME LInv, NEW r \in Run, phase[r] = "held", lane.holds = 1, NobodyNext(r),
           UNCHANGED <<aborted, adopted>>
    PROVE  LInv'
  <1> USE DEF LInv
  <1>1. lane.queue = <<>>
    <2>1. DOMAIN lane.queue = {}
      BY DEF NobodyNext, QueueOK, ToSet
    <2>2. lane.queue \in Seq(Run)
      BY DEF LaneTypeOK
    <2>3. ASSUME NEW q \in Seq(Run), DOMAIN q = {} PROVE q = <<>>
      BY <2>3
    <2> QED BY <2>1, <2>2, <2>3
  <1>2. /\ phase' = [w \in Run |-> IF w = r THEN "released" ELSE phase[w]]
        /\ lane' = [lane EXCEPT !.owner = NoOwner, !.holds = 0, !.queue = <<>>]
        /\ UNCHANGED position
    BY <1>1 DEF NobodyNext, Contains
  <1>3. /\ lane'.queue = <<>> /\ lane'.owner = NoOwner /\ lane'.holds = 0
        /\ DOMAIN lane'.queue = {} /\ DOMAIN lane.queue = {}
    BY <1>1, <1>2 DEF LaneTypeOK
  <1>4. ~adopted /\ Holders = {r}
    BY OneFewerHolder
  <1>5. Holders' = {}
    BY <1>2, <1>4 DEF Holders
  <1>6. LaneTypeOK'
    <2>1. <<>> \in Seq(Run) /\ 0 \in Nat
      OBVIOUS
    <2>2. lane' \in [owner : Owner \cup {NoOwner}, holds : Nat, queue : Seq(Run), closed : BOOLEAN]
      BY <1>2, <2>1, Zenon DEF LaneTypeOK
    <2>3. phase' \in [Run -> Phases]
      BY <1>2 DEF LaneTypeOK, Phases
    <2> QED BY <1>2, <2>2, <2>3 DEF LaneTypeOK
  <1>7. QueueOK'
    <2>1. \A w \in Run : phase'[w] # "waiting"
      BY <1>2, <1>3 DEF QueueOK
    <2> QED BY <1>3, <2>1 DEF QueueOK
  <1>8. HoldsOK'
    <2>1. IsFiniteSet(Holders') /\ Cardinality(Holders') = 0
      BY <1>5, FS_EmptySet
    <2>2. lane'.holds = Cardinality(Holders') + (IF adopted' THEN 1 ELSE 0)
      BY <1>3, <1>4, <2>1
    <2> QED BY <1>3, <2>1, <2>2 DEF HoldsOK
  <1>9. RestOK'
    BY <1>2, <1>3, <1>5 DEF RestOK
  <1>10. PositionTrue'
    BY <1>3, <1>5 DEF PositionTrue
  <1> QED BY <1>6, <1>7, <1>8, <1>9, <1>10

\* Nobody in the queue was aborted, so the first waiter is the one granted.
LEMMA GrantsFirst ==
    ASSUME LInv, NEW r \in Run, NEW i \in DOMAIN lane.queue, GrantTo(r, i)
    PROVE  /\ i = 1 /\ lane.queue[1] \in Run
           /\ lane' = [lane EXCEPT !.owner = OwnerOf[lane.queue[1]], !.holds = 1,
                                   !.queue = Tail(lane.queue)]
           /\ phase' = [w \in Run |-> IF w = r THEN "released"
                                      ELSE IF w = lane.queue[1] THEN "held" ELSE phase[w]]
           /\ position' = [Told(Tail(lane.queue)) EXCEPT ![lane.queue[1]] = 0]
  <1> DEFINE skipped == {lane.queue[j] : j \in 1..(i - 1)}
  <1>1. lane.queue \in Seq(Run) /\ i \in 1..Len(lane.queue)
    BY DEF LInv, LaneTypeOK
  <1>2. skipped \subseteq aborted
    BY DEF GrantTo
  <1>3. \A j \in 1..Len(lane.queue) : lane.queue[j] \notin aborted
    BY <1>1 DEF LInv, QueueOK
  <1>4. i = 1
    <2> SUFFICES ASSUME i # 1 PROVE FALSE
      OBVIOUS
    <2>1. 1 \in 1..(i - 1) /\ 1 \in 1..Len(lane.queue)
      BY <1>1
    <2>2. lane.queue[1] \in skipped
      BY <2>1
    <2> QED BY <1>2, <1>3, <2>1, <2>2
  <1>5. skipped = {}
    BY <1>4
  <1>6. SubSeq(lane.queue, i + 1, Len(lane.queue)) = Tail(lane.queue)
    BY <1>1, <1>4
  <1>7. lane.queue[1] \in Run
    BY <1>1, <1>4
  <1>8. lane' = [lane EXCEPT !.owner = OwnerOf[lane.queue[1]], !.holds = 1,
                             !.queue = Tail(lane.queue)]
    BY <1>4, <1>6 DEF GrantTo
  <1>9. phase' = [w \in Run |-> IF w = r THEN "released"
                                ELSE IF w = lane.queue[1] THEN "held" ELSE phase[w]]
    BY <1>4, <1>5 DEF GrantTo
  <1>10. position' = [Told(Tail(lane.queue)) EXCEPT ![lane.queue[1]] = 0]
    BY <1>4, <1>6 DEF GrantTo
  <1> QED BY <1>4, <1>7, <1>8, <1>9, <1>10

LEMMA GrantToLInv ==
    ASSUME LInv, NEW r \in Run, phase[r] = "held", lane.holds = 1,
           NEW i \in DOMAIN lane.queue, GrantTo(r, i), UNCHANGED <<aborted, adopted>>
    PROVE  LInv'
  <1> USE DEF LInv
  <1> DEFINE first == lane.queue[1]
             q     == Tail(lane.queue)
  <1>1. /\ first \in Run /\ 1 \in DOMAIN lane.queue
        /\ lane' = [lane EXCEPT !.owner = OwnerOf[first], !.holds = 1, !.queue = q]
        /\ phase' = [w \in Run |-> IF w = r THEN "released"
                                   ELSE IF w = first THEN "held" ELSE phase[w]]
        /\ position' = [Told(q) EXCEPT ![first] = 0]
    BY GrantsFirst
  <1>2. /\ q \in Seq(Run) /\ \A k \in DOMAIN q : /\ k + 1 \in DOMAIN lane.queue
                                                 /\ q[k] = lane.queue[k + 1]
        /\ \A j \in DOMAIN lane.queue : j # 1 => /\ j - 1 \in DOMAIN q
                                                 /\ q[j - 1] = lane.queue[j]
        /\ \A k \in DOMAIN q : k \in Nat /\ k + 1 # 1
    <2>1. lane.queue \in Seq(Run) /\ lane.queue # <<>>
      BY <1>1 DEF LaneTypeOK
    <2> QED BY <2>1
  <1>3. /\ \A k, l \in DOMAIN q : q[k] = q[l] => k = l
        /\ \A k \in DOMAIN q : q[k] # first
    BY <1>1, <1>2 DEF QueueOK
  <1>4. /\ Told(q) \in [Run -> Nat] /\ \A k \in DOMAIN q : Told(q)[q[k]] = k
        /\ \A w \in Run : (\A k \in DOMAIN q : q[k] # w) => Told(q)[w] = position[w]
    BY <1>2, <1>3, ToldIs DEF LaneTypeOK
  <1> HIDE DEF q
  <1>5. /\ phase[first] = "waiting" /\ first # r /\ first \notin aborted
        /\ \A k \in DOMAIN q : phase[q[k]] = "waiting" /\ q[k] # r /\ q[k] \notin aborted /\ q[k] \in Run
    BY <1>1, <1>2 DEF QueueOK
  <1> HIDE DEF first
  <1>6. OwnerOf[first] \in Owner /\ OwnerOf[first] # NoOwner
    BY <1>1, OwnerAssumption DEF Owner
  <1>7. lane'.queue = q /\ lane'.owner = OwnerOf[first] /\ lane'.holds = 1
    BY <1>1 DEF LaneTypeOK
  <1>8. ~adopted /\ Holders = {r}
    BY OneFewerHolder
  <1>9. Holders' = {first}
    BY <1>1, <1>5, <1>8 DEF Holders
  <1>10. LaneTypeOK'
    <2>1. lane' \in [owner : Owner \cup {NoOwner}, holds : Nat, queue : Seq(Run), closed : BOOLEAN]
      BY <1>1, <1>2, <1>6 DEF LaneTypeOK
    <2>2. phase' \in [Run -> Phases]
      BY <1>1 DEF LaneTypeOK, Phases
    <2>3. position' \in [Run -> Nat]
      BY <1>1, <1>4
    <2> QED BY <2>1, <2>2, <2>3 DEF LaneTypeOK
  <1>11. QueueOK'
    <2>1. \A k \in DOMAIN q : phase'[q[k]] = "waiting" /\ q[k] \notin aborted'
      BY <1>1, <1>3, <1>5
    <2>2. ASSUME NEW w \in Run, phase'[w] = "waiting"
          PROVE  \E k \in DOMAIN q : q[k] = w
      <3>1. phase[w] = "waiting" /\ w # first
        BY <1>1, <2>2
      <3>2. PICK j \in DOMAIN lane.queue : lane.queue[j] = w
        BY <3>1 DEF QueueOK
      <3>3. j # 1
        BY <3>1, <3>2 DEF first
      <3> QED BY <1>2, <3>2, <3>3
    <2> QED BY <1>3, <1>7, <2>1, <2>2 DEF QueueOK
  <1>12. HoldsOK'
    <2>1. IsFiniteSet(Holders') /\ Cardinality(Holders') = 1
      BY <1>9, FS_Singleton
    <2>2. lane'.holds = Cardinality(Holders') + (IF adopted' THEN 1 ELSE 0)
      BY <1>7, <1>8, <2>1
    <2> QED BY <1>6, <1>7, <2>1, <2>2 DEF HoldsOK
  <1>13. RestOK'
    <2>1. ASSUME NEW w \in Run, phase'[w] = "idle" PROVE position'[w] = 0
      <3>1. phase[w] = "idle" /\ w # first
        BY <1>1, <2>1
      <3>2. \A k \in DOMAIN q : q[k] # w
        BY <1>5, <3>1
      <3> QED BY <1>1, <1>4, <3>1, <3>2 DEF RestOK
    <2> QED BY <1>6, <1>7, <1>9, <2>1 DEF RestOK
  <1>14. PositionTrue'
    <2>1. \A k \in DOMAIN q : position'[q[k]] = k
      BY <1>1, <1>3, <1>4, <1>5
    <2>2. position'[first] = 0
      BY <1>1, <1>4
    <2> QED BY <1>7, <1>9, <2>1, <2>2 DEF PositionTrue
  <1> QED BY <1>10, <1>11, <1>12, <1>13, <1>14

LEMMA ReleaseLInv ==
    ASSUME LInv, NEW r \in Run, Release(r)
    PROVE  LInv'
  <1>1. phase[r] = "held" /\ UNCHANGED <<aborted, adopted>>
    BY DEF Release
  <1>2. CASE KeepHeld(r)
    BY <1>1, <1>2, KeepHeldLInv
  <1>3. CASE lane.holds = 1 /\ NobodyNext(r)
    BY <1>1, <1>3, NobodyNextLInv
  <1>4. CASE lane.holds = 1 /\ \E i \in DOMAIN lane.queue : GrantTo(r, i)
    BY <1>1, <1>4, GrantToLInv
  <1> QED BY <1>2, <1>3, <1>4 DEF Release, GrantNext

LEMMA CloseLaneLInv ==
    ASSUME LInv, CloseLane
    PROVE  LInv'
  <1> USE DEF LInv
  <1>1. /\ lane' = [lane EXCEPT !.closed = TRUE, !.queue = <<>>]
        /\ phase' = [r \in Run |-> IF phase[r] = "waiting" THEN "refused" ELSE phase[r]]
        /\ UNCHANGED <<position, aborted, adopted>>
    BY DEF CloseLane
  <1>2. /\ lane'.queue = <<>> /\ lane'.owner = lane.owner /\ lane'.holds = lane.holds
        /\ DOMAIN lane'.queue = {}
    BY <1>1 DEF LaneTypeOK
  <1>3. Holders' = Holders
    BY <1>1 DEF Holders
  <1>4. LaneTypeOK'
    <2>1. <<>> \in Seq(Run)
      OBVIOUS
    <2>2. lane' \in [owner : Owner \cup {NoOwner}, holds : Nat, queue : Seq(Run), closed : BOOLEAN]
      BY <1>1, <2>1, Zenon DEF LaneTypeOK
    <2>3. phase' \in [Run -> Phases]
      BY <1>1 DEF LaneTypeOK, Phases
    <2> QED BY <1>1, <2>2, <2>3 DEF LaneTypeOK
  <1>5. QueueOK'
    <2>1. \A w \in Run : phase'[w] # "waiting"
      BY <1>1
    <2> QED BY <1>2, <2>1 DEF QueueOK
  <1>6. HoldsOK'
    BY <1>1, <1>2, <1>3 DEF HoldsOK
  <1>7. RestOK'
    BY <1>1, <1>2, <1>3 DEF RestOK
  <1>8. PositionTrue'
    BY <1>1, <1>2, <1>3 DEF PositionTrue
  <1> QED BY <1>4, <1>5, <1>6, <1>7, <1>8

-----------------------------------------------------------------------------
\* The invariant holds in every reachable state of the lane.
THEOREM LaneInvariance == LaneSpec => []LInv
  <1>1. LaneInit => LInv
    BY InitLInv
  <1>2. LInv /\ [LaneNext]_laneVars => LInv'
    <2> SUFFICES ASSUME LInv, [LaneNext]_laneVars PROVE LInv'
      OBVIOUS
    <2>1. CASE \E r \in Run : Acquire(r)
      BY <2>1, AcquireLInv
    <2>2. CASE \E r \in Run : Abort({r})
      <3>1. PICK r \in Run : Abort({r})
        BY <2>2
      <3>2. {r} \in SUBSET Run
        OBVIOUS
      <3> QED BY <3>1, <3>2, AbortLInv
    <2>3. CASE \E r \in Run : Release(r)
      BY <2>3, ReleaseLInv
    <2>4. CASE CloseLane
      BY <2>4, CloseLaneLInv
    <2>5. CASE UNCHANGED laneVars
      BY <2>5 DEF laneVars, LInv, LaneTypeOK, QueueOK, HoldsOK, RestOK, PositionTrue, Holders
    <2> QED BY <2>1, <2>2, <2>3, <2>4, <2>5 DEF LaneNext
  <1> QED BY <1>1, <1>2, PTL DEF LaneSpec

\* One owner has the desktop: however attempts join and leave, waiters give up,
\* the lane is closed or was adopted, the runs that have it are those of its
\* owner, a free lane has none, and an owner is recorded only while a run of it,
\* or an adopted process, still has it.
THEOREM OneOwnerHolds == LaneSpec => []OneOwner
  <1>1. LInv => OneOwner
    <2> SUFFICES ASSUME LInv PROVE OneOwner
      OBVIOUS
    <2>1. /\ IsFiniteSet(Holders) /\ Cardinality(Holders) \in Nat
          /\ lane.holds = Cardinality(Holders) + (IF adopted THEN 1 ELSE 0)
          /\ lane.owner = NoOwner <=> lane.holds = 0
      BY FS_CardinalityType DEF LInv, HoldsOK
    <2>2. lane.owner = NoOwner => Cardinality(Holders) = 0
      BY <2>1
    <2>3. lane.owner # NoOwner /\ ~adopted => Cardinality(Holders) # 0
      BY <2>1
    <2>4. Cardinality(Holders) = 0 <=> Holders = {}
      BY <2>1, FS_EmptySet
    <2> QED BY <2>2, <2>3, <2>4 DEF LInv, RestOK, OneOwner
  <1> QED BY <1>1, LaneInvariance, PTL

\* The position a waiter was last told is its place in the queue.
THEOREM PositionTrueHolds == LaneSpec => []PositionTrue
  <1>1. LInv => PositionTrue
    BY DEF LInv
  <1> QED BY <1>1, LaneInvariance, PTL

\* A waiter is never passed over by a later one.
THEOREM FifoHolds == LaneSpec => Fifo
  <1> DEFINE Served == \A i, j \in DOMAIN lane.queue :
                (i < j /\ phase'[lane.queue[j]] = "held") => phase'[lane.queue[i]] # "waiting"
  <1>1. LInv /\ [LaneNext]_laneVars => [Served]_laneVars
    <2> SUFFICES ASSUME LInv, LaneNext,
                        NEW i \in DOMAIN lane.queue, NEW j \in DOMAIN lane.queue,
                        i < j, phase'[lane.queue[j]] = "held"
                 PROVE  phase'[lane.queue[i]] # "waiting"
      OBVIOUS
    <2>1. /\ lane.queue[i] \in Run /\ lane.queue[j] \in Run
          /\ phase[lane.queue[i]] = "waiting" /\ phase[lane.queue[j]] = "waiting"
          /\ phase \in [Run -> Phases]
      BY DEF LInv, LaneTypeOK, QueueOK
    <2>2. ASSUME NEW r \in Run, Acquire(r) PROVE FALSE
      <3>1. phase[r] = "idle"
        BY <2>2 DEF Acquire
      <3>2. \E new \in {"refused", "held", "waiting"} : phase' = [phase EXCEPT ![r] = new]
        BY <2>2 DEF Acquire, Refuse, Join, Take, Enqueue
      <3> QED BY <2>1, <3>1, <3>2
    <2>3. ASSUME NEW r \in Run, Abort({r}) PROVE FALSE
      BY <2>1, <2>3 DEF Abort
    <2>4. ASSUME CloseLane PROVE FALSE
      BY <2>1, <2>4 DEF CloseLane
    <2>5. ASSUME NEW r \in Run, Release(r) PROVE phase'[lane.queue[i]] # "waiting"
      <3>1. phase[r] = "held"
        BY <2>5 DEF Release
      <3>2. CASE KeepHeld(r)
        BY <2>1, <3>1, <3>2 DEF KeepHeld
      <3>3. CASE NobodyNext(r)
        BY <2>1, <3>1, <3>3 DEF NobodyNext
      <3>4. ASSUME NEW k \in DOMAIN lane.queue, GrantTo(r, k) PROVE FALSE
        <4>1. phase' = [w \in Run |-> IF w = r THEN "released"
                                     ELSE IF w = lane.queue[1] THEN "held" ELSE phase[w]]
          BY <3>4, GrantsFirst
        <4>2. lane.queue[j] = lane.queue[1]
          BY <2>1, <3>1, <4>1
        <4>3. lane.queue \in Seq(Run) /\ i \in 1..Len(lane.queue) /\ j \in 1..Len(lane.queue)
          BY DEF LInv, LaneTypeOK
        <4>4. j = 1
          BY <4>2, <4>3 DEF LInv, QueueOK
        <4> QED BY <4>3, <4>4
      <3> QED BY <2>5, <3>2, <3>3, <3>4 DEF Release, GrantNext
    <2> QED BY <2>2, <2>3, <2>4, <2>5 DEF LaneNext
  <1> QED BY <1>1, LaneInvariance, PTL DEF LaneSpec, Fifo
===============================================================================
