-------------------------- MODULE ExecService_proofs --------------------------
(***************************************************************************)
(* Proofs about ExecService: for any executions, requests, event sizes and *)
(* retention bounds, no agent is forgotten or hidden, one run at a time    *)
(* drives the desktop, a terminal run is final and a reader sees every     *)
(* event or fails.                                                         *)
(*                                                                         *)
(* The invariant XInv says for each run where start() and the drain loop   *)
(* can be, given the state of its entry, its agent and the lane (RunOK);   *)
(* that the retained runs are terminal, listed and listed once (RetOK);    *)
(* and what an iterator has seen of its buffer (ReadOK).  The lane is the  *)
(* one of DesktopLane_proofs, whose lemmas are used step by step.          *)
(***************************************************************************)
EXTENDS ExecService, FiniteSetTheorems, WellFoundedInduction, TLAPS

LP == INSTANCE DesktopLane_proofs WITH
          OwnerOf <- [r \in Run |-> r], Adopted <- {}

EntryType == [status : Terminal \cup {"none", "queued", "running"},
              cancelRequested : BOOLEAN, session : BOOLEAN, request : Request]

ReaderType == [pc : {"none", "read", "yield", "last", "wait", "done", "threw"},
               cursor : Nat, got : Nat, batch : SUBSET Nat]

ServiceType ==
    /\ call \in [Run -> Pending \cup {"none", "returned", "rejected"}]
    /\ entry \in [Run -> EntryType]
    /\ runs \subseteq Run /\ retained \in Seq(Run)
    /\ consumer \in [Run -> {"none", "drain", "cancel", "release", "ended"}]
    /\ observed \in [Run -> {"none", "done", "failed"}]
    /\ replay \in [Run -> [sizes : Seq(Sizes), next : Nat]]
    /\ child \in [Run -> {"none", "live", "loose", "dead"}] /\ killed \subseteq Run
    /\ reader \in [Run -> ReaderType]
    /\ closing \in {"open", "cancelling", "draining", "closed"} /\ toClose \subseteq Run

\* Where a start() is: what it has done so far and what it still owes.
StartOK(r) ==
    /\ call[r] = "none" => /\ entry[r].status = "none" /\ r \notin runs /\ r \notin toClose
                           /\ phase[r] = "idle"
    /\ call[r] = "resolve" => phase[r] = "idle" /\ Preregistered(r)
    /\ call[r] = "lane" => Preregistered(r)
    /\ call[r] \in {"client", "undo"} /\ Preregistered(r) => phase[r] = "held"
    /\ call[r] \in {"finalize", "rejected"} => phase[r] # "held"
    /\ phase[r] = "waiting" => call[r] = "lane"

\* An agent lives only while a start() or a drain loop answers for it.
ChildOK(r) ==
    /\ call[r] \in {"none", "resolve", "lane"} => child[r] = "none"
    /\ child[r] = "live" => call[r] \in {"client", "undo", "returned"}
    /\ child[r] = "live" => consumer[r] \notin {"release", "ended"}
    /\ child[r] = "live" /\ (call[r] = "undo" \/ consumer[r] = "cancel") => r \in killed
    /\ child[r] = "live" /\ call[r] # "client" /\ closing # "open" => r \in killed
    /\ child[r] = "loose" => r \in killed

\* A drain loop belongs to a run that is listed and running, unless close()
\* settled it.
DrainOK(r) ==
    /\ consumer[r] = "none" <=> call[r] # "returned"
    /\ consumer[r] \in {"drain", "cancel"} =>
         \/ closing = "closed" /\ r \in toClose /\ IsTerminal(r)
         \/ entry[r].status = "running" /\ entry[r].session /\ r \in runs
    /\ consumer[r] \in {"release", "ended"} => IsTerminal(r)
    /\ consumer[r] \in {"drain", "cancel", "release"} /\ Preregistered(r) => phase[r] = "held"
    /\ consumer[r] = "ended" => phase[r] # "held"
    /\ entry[r].session => consumer[r] \in {"drain", "cancel"} /\ ~IsTerminal(r)

RunOK == \A r \in Run : StartOK(r) /\ ChildOK(r) /\ DrainOK(r)

RetOK ==
    /\ \A i, j \in DOMAIN retained : retained[i] = retained[j] => i = j
    /\ \A i \in DOMAIN retained : retained[i] \in runs /\ IsTerminal(retained[i])
    /\ IsFiniteSet(runs)
    /\ closing = "open" => toClose = {}

\* The batch an iterator is handing out goes on where it stopped.
BatchOK(r, d) ==
    \E m \in 0..(replay[r].next - 1) :
        /\ d.batch = (d.cursor + 1)..m
        /\ d.pc = "last" => m + 1 = replay[r].next \/ r \in toClose

\* What an iterator in state d has seen of the buffer of r.
SeenOK(r, d) ==
    /\ d.cursor < replay[r].next /\ d.got = d.cursor
    /\ d.pc \in {"yield", "last"} => BatchOK(r, d)
    /\ d.pc \in {"last", "done"} => consumer[r] \in {"release", "ended"} \/ r \in toClose
    /\ d.pc = "done" => d.cursor + 1 = replay[r].next \/ r \in toClose
    /\ d.pc = "threw" => \/ d.cursor + 1 < Oldest(replay[r])
                         \/ IsTerminal(r) /\ r \notin runs

ReadOK(r) ==
    /\ replay[r].next \in 1..(entry[r].request.events + 1)
    /\ reader[r].pc # "none" => call[r] = "returned"
    /\ SeenOK(r, reader[r])

ReadersOK == \A r \in Run : ReadOK(r)

XInv == ServiceType /\ LP!LInv /\ RunOK /\ RetOK /\ ReadersOK

-----------------------------------------------------------------------------
\* The least and the greatest of some numbers.
LEMMA MinIs ==
    ASSUME NEW S \in SUBSET Nat, S # {}
    PROVE  Min(S) \in S /\ \A n \in S : Min(S) <= n
  <1>1. \E m \in S : \A n \in S : ~(<<n, m>> \in OpToRel(<, Nat))
    BY WFMin, NatLessThanWellFounded
  <1>2. PICK m \in S : \A n \in S : ~(<<n, m>> \in OpToRel(<, Nat))
    BY <1>1
  <1>3. \A n \in S : n < m => <<n, m>> \in OpToRel(<, Nat)
    BY DEF OpToRel
  <1>4. \A n \in S : ~(n < m)
    BY <1>2, <1>3, Zenon
  <1>5. \A n \in S : m <= n
    BY <1>4
  <1> QED BY <1>5 DEF Min

LEMMA MaxIs ==
    ASSUME NEW N \in Nat, NEW S \in SUBSET (0..N), S # {}
    PROVE  Max(S) \in S
  <1> DEFINE T == {n \in 0..N : N - n \in S}
  <1>1. PICK k \in S : TRUE
    OBVIOUS
  <1>2. k \in 0..N /\ N - k \in 0..N /\ N - (N - k) = k
    OBVIOUS
  <1>3. N - k \in T
    BY <1>2
  <1>4. T \in SUBSET Nat /\ T # {}
    BY <1>3
  <1>5. Min(T) \in T /\ \A n \in T : Min(T) <= n
    BY <1>4, MinIs
  <1> DEFINE m == N - Min(T)
  <1>6. m \in S
    BY <1>5
  <1>7. ASSUME NEW n \in S PROVE m >= n
    <2>1. n \in 0..N /\ N - n \in 0..N /\ N - (N - n) = n
      OBVIOUS
    <2>2. N - n \in T
      BY <2>1
    <2>3. Min(T) \in 0..N
      BY <1>5
    <2> HIDE DEF T
    <2> QED BY <1>5, <2>1, <2>2, <2>3
  <1>8. \E x \in S : \A n \in S : x >= n
    BY <1>6, <1>7
  <1> QED BY <1>8 DEF Max

\* Trimming keeps a suffix.
LEMMA TrimIs ==
    ASSUME NEW sizes \in Seq(Sizes)
    PROVE  Trim(sizes) \in Seq(Sizes) /\ Len(Trim(sizes)) <= Len(sizes)
  <1> DEFINE N == Len(sizes)
             suffix(n) == SubSeq(sizes, N - n + 1, N)
             S == {n \in 0..N : n = 0 \/ (n <= MaxRetainedEvents /\ Bytes(suffix(n)) <= MaxRetainedBytes)}
  <1>1. N \in Nat /\ S \in SUBSET (0..N) /\ 0 \in S
    OBVIOUS
  <1>2. Max(S) \in 0..N
    BY <1>1, MaxIs
  <1>3. Trim(sizes) = suffix(Max(S))
    BY DEF Trim
  <1> HIDE DEF S
  <1> SUFFICES ASSUME NEW k \in 0..N
               PROVE  suffix(k) \in Seq(Sizes) /\ Len(suffix(k)) <= N
    BY <1>2, <1>3
  <1> QED BY <1>1

\* A buffer only forgets: the oldest event it has never becomes older.
LEMMA AppendToIs ==
    ASSUME NEW b \in [sizes : Seq(Sizes), next : Nat], NEW size \in Sizes
    PROVE  /\ AppendTo(b, size) \in [sizes : Seq(Sizes), next : Nat]
           /\ AppendTo(b, size).next = b.next + 1
           /\ Oldest(b) <= Oldest(AppendTo(b, size))
           /\ Oldest(b) \in Int
  <1>1. Append(b.sizes, size) \in Seq(Sizes) /\ Len(Append(b.sizes, size)) = Len(b.sizes) + 1
    OBVIOUS
  <1> DEFINE t == Trim(Append(b.sizes, size))
  <1>2. t \in Seq(Sizes) /\ Len(t) <= Len(b.sizes) + 1
    BY <1>1, TrimIs
  <1> HIDE DEF t
  <1>3. AppendTo(b, size) = [sizes |-> t, next |-> b.next + 1]
    BY DEF AppendTo, t
  <1> QED BY <1>2, <1>3 DEF Oldest

\* Pruning drops runs from the front of the list of terminal runs.
LEMMA PruneCountIs ==
    ASSUME NEW ids \in Seq(Run)
    PROVE  PruneCount(ids, replay) \in 0..Len(ids)
  <1> DEFINE N == Len(ids)
             size(n) == FoldSeq(+, 0, [i \in 1..(N - n) |-> Bytes(replay[ids[n + i]].sizes)])
             S == {n \in 0..N : n = N \/ (N - n <= MaxCompletedRuns /\ size(n) <= MaxCompletedBytes)}
  <1>3. PruneCount(ids, replay) = Min(S)
    BY DEF PruneCount
  <1> HIDE DEF size
  <1>1. S \in SUBSET Nat /\ N \in S /\ S \subseteq 0..N
    OBVIOUS
  <1>2. Min(S) \in S
    BY <1>1, MinIs
  <1> QED BY <1>1, <1>2, <1>3

LEMMA PruneIs ==
    ASSUME NEW ids \in Seq(Run), NEW registered \in SUBSET Run,
           \A i, j \in DOMAIN ids : ids[i] = ids[j] => i = j,
           \A i \in DOMAIN ids : ids[i] \in registered,
           Prune(ids, registered)
    PROVE  /\ retained' \in Seq(Run)
           /\ \A i, j \in DOMAIN retained' : retained'[i] = retained'[j] => i = j
           /\ \A i \in DOMAIN retained' : /\ retained'[i] \in runs'
                                          /\ \E j \in DOMAIN ids : ids[j] = retained'[i]
           /\ runs' \subseteq registered
           /\ \A r \in registered : r \in runs' \/ \E j \in DOMAIN ids : ids[j] = r
  <1> DEFINE n == PruneCount(ids, replay)
  <1>1. n \in 0..Len(ids)
    BY PruneCountIs
  <1>2. /\ retained' = SubSeq(ids, n + 1, Len(ids))
        /\ runs' = registered \ {ids[i] : i \in 1..n}
    BY DEF Prune
  <1> HIDE DEF n
  <1>3. /\ retained' \in Seq(Run) /\ Len(retained') = Len(ids) - n
        /\ \A i \in DOMAIN retained' : i + n \in DOMAIN ids /\ retained'[i] = ids[i + n]
        /\ \A i \in DOMAIN retained' : i \in Nat /\ i >= 1
    BY <1>1, <1>2
  <1>4. \A i, j \in DOMAIN retained' : retained'[i] = retained'[j] => i = j
    BY <1>1, <1>3
  <1>5. ASSUME NEW i \in DOMAIN retained' PROVE retained'[i] \in runs'
    <2>1. \A k \in 1..n : k \in DOMAIN ids /\ ids[k] # ids[i + n]
      BY <1>1, <1>3
    <2> QED BY <1>2, <1>3, <2>1
  <1>6. ASSUME NEW r \in registered, r \notin runs' PROVE \E j \in DOMAIN ids : ids[j] = r
    <2>1. PICK k \in 1..n : ids[k] = r
      BY <1>2, <1>6
    <2> QED BY <1>1, <2>1
  <1> QED BY <1>2, <1>3, <1>4, <1>5, <1>6

-----------------------------------------------------------------------------
\* The lane.  Its invariant is kept by each call of the service, and a run whose
\* turn it is not only ever moves from waiting to held or refused.

LEMMA OwnerFact == LP!OwnerAssumption
  BY RunAssumption DEF LP!OwnerAssumption, LP!Owner, LP!NoOwner, L!NoOwner

Moved(s) == \/ phase'[s] = phase[s]
            \/ phase[s] = "waiting" /\ phase'[s] \in {"held", "refused"}

LEMMA LanePhases == LP!LInv => /\ phase \in [Run -> LP!Phases]
                               /\ \A i \in DOMAIN lane.queue : phase[lane.queue[i]] = "waiting"
                               /\ lane.queue \in Seq(Run)
  BY DEF LP!LInv, LP!LaneTypeOK, LP!QueueOK

LEMMA LaneAcquire ==
    ASSUME LP!LInv, NEW r \in Run, L!Acquire(r)
    PROVE  /\ LP!LInv'
           /\ phase[r] = "idle" /\ phase'[r] \in {"refused", "held", "waiting"}
           /\ \A s \in Run : s # r => Moved(s)
  <1>1. LP!Acquire(r)
    BY DEF L!Acquire, LP!Acquire, L!Refuse, LP!Refuse, L!Join, LP!Join, L!Take, LP!Take,
           L!Enqueue, LP!Enqueue, L!NoOwner, LP!NoOwner, L!Told, LP!Told,
           L!PositionOf, LP!PositionOf, L!Contains, LP!Contains
  <1>2. LP!LInv'
    BY <1>1, LP!AcquireLInv, OwnerFact
  <1>3. phase[r] = "idle" /\ \E new \in {"refused", "held", "waiting"} : phase' = [phase EXCEPT ![r] = new]
    BY DEF L!Acquire, L!Refuse, L!Join, L!Take, L!Enqueue
  <1>4. PICK new \in {"refused", "held", "waiting"} : phase' = [phase EXCEPT ![r] = new]
    BY <1>3
  <1>5. phase'[r] = new /\ \A s \in Run : s # r => phase'[s] = phase[s]
    BY <1>4, LanePhases
  <1> QED BY <1>2, <1>3, <1>5 DEF Moved

LEMMA LaneRelease ==
    ASSUME LP!LInv, NEW r \in Run, L!Release(r)
    PROVE  /\ LP!LInv'
           /\ phase[r] = "held" /\ phase'[r] = "released"
           /\ \A s \in Run : s # r => Moved(s)
  <1>1. LP!Release(r)
    BY DEF L!Release, LP!Release, L!KeepHeld, LP!KeepHeld, L!GrantNext, LP!GrantNext,
           L!GrantTo, LP!GrantTo, L!NobodyNext, LP!NobodyNext, L!NoOwner, LP!NoOwner,
           L!Told, LP!Told, L!PositionOf, LP!PositionOf, L!Contains, LP!Contains,
           L!ToSet, LP!ToSet
  <1>2. LP!LInv'
    BY <1>1, LP!ReleaseLInv, OwnerFact
  <1>3. phase[r] = "held"
    BY DEF L!Release
  <1>4. CASE L!KeepHeld(r)
    BY <1>2, <1>3, <1>4, LanePhases DEF L!KeepHeld, Moved
  <1>5. CASE L!NobodyNext(r)
    <2>1. \A s \in Run : s # r => Moved(s)
      BY <1>5, LanePhases DEF L!NobodyNext, L!Contains, Moved
    <2> QED BY <1>2, <1>3, <1>5, <2>1 DEF L!NobodyNext
  <1>6. ASSUME NEW i \in DOMAIN lane.queue, L!GrantTo(r, i)
        PROVE  phase'[r] = "released" /\ \A s \in Run : s # r => Moved(s)
    <2>1. phase' = [w \in Run |-> IF w = r THEN "released" ELSE IF w = lane.queue[i] THEN "held"
                                 ELSE IF w \in {lane.queue[j] : j \in 1..(i - 1)} THEN "refused"
                                 ELSE phase[w]]
      BY <1>6 DEF L!GrantTo
    <2>2. \A j \in 1..(i - 1) : phase[lane.queue[j]] = "waiting"
      BY LanePhases
    <2>3. phase[lane.queue[i]] = "waiting"
      BY LanePhases
    <2> QED BY <2>1, <2>2, <2>3 DEF Moved
  <1> QED BY <1>2, <1>3, <1>4, <1>5, <1>6 DEF L!Release, L!GrantNext

LEMMA LaneAbort ==
    ASSUME LP!LInv, NEW rs \in SUBSET Run, L!Abort(rs)
    PROVE  LP!LInv' /\ \A s \in Run : Moved(s)
  <1>1. LP!Abort(rs)
    <2>1. \A q, r : L!PositionOf(r, q) = LP!PositionOf(r, q)
      BY DEF L!PositionOf, LP!PositionOf, L!Contains, LP!Contains
    <2>2. \A q : L!Told(q) = LP!Told(q)
      BY <2>1 DEF L!Told, LP!Told, L!Contains, LP!Contains
    <2>3. \A S : L!SetToSeqs(S) = LP!SetToSeqs(S)
      BY DEF L!SetToSeqs, LP!SetToSeqs, L!Cardinality, LP!Cardinality
    <2>4. L!Without(lane.queue, rs) = LP!Without(lane.queue, rs)
      BY <2>1, <2>3 DEF L!Without, LP!Without, L!ToSet, LP!ToSet
    <2> QED BY <2>2, <2>4 DEF L!Abort, LP!Abort
  <1>2. LP!LInv'
    BY <1>1, LP!AbortLInv, OwnerFact
  <1>3. \A s \in Run : Moved(s)
    BY DEF L!Abort, Moved
  <1> QED BY <1>2, <1>3

LEMMA LaneClose ==
    ASSUME LP!LInv, L!CloseLane
    PROVE  LP!LInv' /\ \A s \in Run : Moved(s)
  <1>1. LP!CloseLane
    BY DEF L!CloseLane, LP!CloseLane
  <1>2. LP!LInv'
    BY <1>1, LP!CloseLaneLInv, OwnerFact
  <1>3. \A s \in Run : Moved(s)
    BY DEF L!CloseLane, Moved
  <1> QED BY <1>2, <1>3

LEMMA LaneSame ==
    ASSUME LP!LInv, UNCHANGED laneVars
    PROVE  LP!LInv' /\ \A s \in Run : Moved(s)
  BY DEF laneVars, Moved, LP!LInv, LP!LaneTypeOK, LP!QueueOK, LP!HoldsOK, LP!RestOK,
         LP!PositionTrue, LP!Holders

\* The preparation's release gives the lane up when the run has it.
LEMMA LaneGivenUp ==
    ASSUME LP!LInv, NEW r \in Run, ReleaseLane(r)
    PROVE  /\ LP!LInv' /\ phase'[r] # "held"
           /\ phase'[r] = "waiting" => phase[r] = "waiting"
           /\ phase'[r] = "idle" <=> phase[r] = "idle"
           /\ \A s \in Run : s # r => Moved(s)
  <1>1. CASE phase[r] = "held"
    BY <1>1, LaneRelease DEF ReleaseLane
  <1>2. CASE phase[r] # "held"
    BY <1>2, LaneSame DEF ReleaseLane, laneVars
  <1> QED BY <1>1, <1>2

-----------------------------------------------------------------------------
\* What a step leaves alone.

ClosingKept ==
    /\ closing' = "open" <=> closing = "open"
    /\ closing = "closed" => closing' = "closed"
    /\ toClose' = toClose

EntryKept(s) ==
    /\ entry'[s].status = entry[s].status
    /\ entry'[s].session = entry[s].session
    /\ entry'[s].request = entry[s].request

\* A run is dropped only when it is terminal, and not listed again.
ListKept(s) ==
    /\ s \in runs' => s \in runs
    /\ s \in runs => s \in runs' \/ IsTerminal(s)'

RunKept(s) ==
    /\ call'[s] = call[s] /\ consumer'[s] = consumer[s] /\ child'[s] = child[s]
    /\ s \in killed => s \in killed'
    /\ EntryKept(s) /\ ListKept(s) /\ Moved(s)

LEMMA RunFrame ==
    ASSUME NEW s \in Run, StartOK(s), ChildOK(s), DrainOK(s), RunKept(s), ClosingKept
    PROVE  StartOK(s)' /\ ChildOK(s)' /\ DrainOK(s)'
  <1> USE DEF RunKept, EntryKept, ListKept, Moved, ClosingKept, IsTerminal, Preregistered
  <1>1. StartOK(s)'
    BY DEF StartOK, DrainOK, Terminal
  <1>2. ChildOK(s)'
    BY DEF ChildOK
  <1>3. DrainOK(s)'
    BY DEF DrainOK, StartOK, Terminal
  <1> QED BY <1>1, <1>2, <1>3

\* An iterator that was left alone, or woken.
ReaderKept(s) ==
    /\ reader'[s].pc = reader[s].pc \/ (reader[s].pc = "wait" /\ reader'[s].pc = "read")
    /\ reader'[s].cursor = reader[s].cursor /\ reader'[s].got = reader[s].got
    /\ reader'[s].batch = reader[s].batch

ReadKept(s) ==
    /\ ReaderKept(s) /\ replay'[s] = replay[s] /\ entry'[s].request = entry[s].request
    /\ call[s] = "returned" => call'[s] = "returned"
    /\ consumer[s] \in {"release", "ended"} => consumer'[s] \in {"release", "ended"}
    /\ s \in toClose => s \in toClose'
    /\ IsTerminal(s) /\ s \notin runs => IsTerminal(s)' /\ s \notin runs'

LEMMA ReadFrame ==
    ASSUME NEW s \in Run, ReadOK(s), ReadKept(s)
    PROVE  ReadOK(s)'
  <1> USE DEF ReadKept, ReaderKept, IsTerminal
  <1>1. SeenOK(s, reader[s])
    BY DEF ReadOK
  <1>2. reader'[s].pc \in {"yield", "last"} => BatchOK(s, reader[s])'
    <2> SUFFICES ASSUME reader'[s].pc \in {"yield", "last"} PROVE BatchOK(s, reader[s])'
      OBVIOUS
    <2>1. reader[s].pc = reader'[s].pc
      OBVIOUS
    <2>2. BatchOK(s, reader[s])
      BY <1>1, <2>1 DEF SeenOK
    <2> QED BY <2>1, <2>2 DEF BatchOK
  <1>3. SeenOK(s, reader[s])'
    BY <1>1, <1>2 DEF SeenOK
  <1> QED BY <1>3 DEF ReadOK

\* Settling ends the runs that were not over, leaves the others as they are,
\* wakes iterators and prunes terminal runs only.
LEMMA SettleIs ==
    ASSUME ServiceType, RetOK, NEW rs \in SUBSET Run, NEW entries \in [Run -> EntryType],
           \A r \in Run : /\ entries[r].status = entry[r].status
                          /\ entries[r].session = entry[r].session
                          /\ entries[r].request = entry[r].request,
           Settle(rs, entries)
    PROVE  /\ entry' \in [Run -> EntryType] /\ reader' \in [Run -> ReaderType]
           /\ \A r \in Run : entry'[r].request = entry[r].request
           /\ \A r \in Run : IsTerminal(r) => EntryKept(r)
           /\ \A r \in Run : r \notin rs => EntryKept(r)
           /\ \A r \in rs : IsTerminal(r)'
           /\ \A r \in rs : ~IsTerminal(r) => ~entry'[r].session
           /\ \A r \in Run : ListKept(r) /\ ReaderKept(r)
           /\ retained' \in Seq(Run) /\ runs' \subseteq Run
           /\ \A i, j \in DOMAIN retained' : retained'[i] = retained'[j] => i = j
           /\ \A i \in DOMAIN retained' : /\ retained'[i] \in runs'
                                          /\ entry'[retained'[i]].status \in Terminal
           /\ IsFiniteSet(runs')
  <1> DEFINE fresh == {r \in rs : ~IsTerminal(r)}
  <1>1. /\ entry' = [r \in Run |-> IF r \in rs THEN Settled(entries[r], observed[r]) ELSE entries[r]]
        /\ reader' = Woken(fresh)
    BY DEF Settle
  <1>2. PICK ids \in SetToSeqs(fresh \cap runs) : Prune(retained \o ids, runs)
    BY DEF Settle
  <1>3. ASSUME NEW e \in EntryType, NEW obs
        PROVE  /\ Settled(e, obs) \in EntryType /\ Settled(e, obs).request = e.request
               /\ Settled(e, obs).status \in Terminal
               /\ e.status \in Terminal => Settled(e, obs) = e
               /\ e.status \notin Terminal => ~Settled(e, obs).session
    <2>1. CASE e.status \in Terminal
      BY <2>1 DEF Settled
    <2>2. CASE e.status \notin Terminal
      <3>1. Outcome(e, obs) \in Terminal
        BY DEF Outcome, Terminal
      <3>2. Settled(e, obs) = [e EXCEPT !.status = Outcome(e, obs), !.session = FALSE]
        BY <2>2 DEF Settled
      <3> HIDE DEF Outcome
      <3> QED BY <2>2, <3>1, <3>2 DEF EntryType
    <2> QED BY <2>1, <2>2
  <1>4. entry' \in [Run -> EntryType]
    BY <1>1, <1>3
  <1>5. \A r \in Run : entry'[r].request = entry[r].request
    BY <1>1, <1>3
  <1>6. \A r \in Run : IsTerminal(r) => EntryKept(r)
    BY <1>1, <1>3 DEF IsTerminal, EntryKept
  <1>7. \A r \in Run : r \notin rs => EntryKept(r)
    BY <1>1 DEF EntryKept
  <1>8. \A r \in rs : IsTerminal(r)'
    BY <1>1, <1>3 DEF IsTerminal
  <1>9. \A r \in rs : ~IsTerminal(r) => ~entry'[r].session
    BY <1>1, <1>3 DEF IsTerminal
  <1>10. /\ ids \in Seq(Run) /\ \A i, j \in DOMAIN ids : ids[i] = ids[j] => i = j
         /\ \A i \in DOMAIN ids : ids[i] \in fresh /\ ids[i] \in runs
    <2> DEFINE S == fresh \cap runs
               n == Cardinality(S)
    <2>1. n \in Nat
      <3>1. IsFiniteSet(runs) /\ S \in SUBSET runs
        BY DEF RetOK
      <3> QED BY <3>1, FS_Subset, FS_CardinalityType
    <2>2. ids \in [1..n -> S] /\ \A i, j \in 1..n : i # j => ids[i] # ids[j]
      BY DEF SetToSeqs
    <2>3. S \subseteq Run /\ S \subseteq fresh /\ S \subseteq runs
      OBVIOUS
    <2> HIDE DEF n, S, fresh
    <2>4. ids \in [1..n -> Run]
      BY <2>2, <2>3
    <2>5. ids \in Seq(Run) /\ DOMAIN ids = 1..n
      BY <2>1, <2>4
    <2> QED BY <2>2, <2>3, <2>5
  <1> DEFINE all == retained \o ids
  <1>11. /\ all \in Seq(Run)
         /\ \A i \in DOMAIN all : \/ i \in DOMAIN retained /\ all[i] = retained[i]
                                  \/ i - Len(retained) \in DOMAIN ids /\ all[i] = ids[i - Len(retained)]
         /\ \A i \in DOMAIN all : i \in Nat
         /\ Len(retained) \in Nat /\ retained \in Seq(Run)
    BY <1>10 DEF ServiceType
  <1> HIDE DEF all, fresh
  <1>12. \A i \in DOMAIN all : all[i] \in runs
    BY <1>10, <1>11 DEF RetOK
  <1>13. \A i \in DOMAIN all : entry'[all[i]].status \in Terminal
    <2> SUFFICES ASSUME NEW i \in DOMAIN all PROVE entry'[all[i]].status \in Terminal
      OBVIOUS
    <2>1. ASSUME NEW r \in Run, IsTerminal(r) PROVE entry'[r].status \in Terminal
      BY <1>6, <2>1 DEF IsTerminal, EntryKept
    <2>2. \A r \in fresh : r \in rs
      BY DEF fresh
    <2>3. \A r \in rs : entry'[r].status \in Terminal
      BY <1>8 DEF IsTerminal
    <2>4. all[i] \in Run /\ (IsTerminal(all[i]) \/ all[i] \in rs)
      BY <1>10, <1>11, <2>2 DEF RetOK
    <2> QED BY <2>1, <2>3, <2>4
  <1>14. \A i, j \in DOMAIN all : all[i] = all[j] => i = j
    <2>1. \A i \in DOMAIN retained : retained[i] \notin fresh
      BY DEF RetOK, fresh
    <2> QED BY <1>10, <1>11, <2>1 DEF RetOK
  <1>15. runs \in SUBSET Run /\ Prune(all, runs)
    BY <1>2 DEF ServiceType, all
  <1>16. /\ retained' \in Seq(Run)
         /\ \A i, j \in DOMAIN retained' : retained'[i] = retained'[j] => i = j
         /\ \A i \in DOMAIN retained' : /\ retained'[i] \in runs'
                                        /\ \E j \in DOMAIN all : all[j] = retained'[i]
         /\ runs' \subseteq runs
         /\ \A r \in runs : r \in runs' \/ \E j \in DOMAIN all : all[j] = r
    BY <1>11, <1>12, <1>14, <1>15, PruneIs
  <1>17. \A r \in Run : ListKept(r)
    <2> SUFFICES ASSUME NEW r \in Run, r \in runs, r \notin runs' PROVE IsTerminal(r)'
      BY <1>16 DEF ListKept
    <2>1. PICK j \in DOMAIN all : all[j] = r
      BY <1>16
    <2> QED BY <1>13, <2>1 DEF IsTerminal
  <1>18. \A i \in DOMAIN retained' : entry'[retained'[i]].status \in Terminal
    BY <1>13, <1>16
  <1>19. IsFiniteSet(runs')
    BY <1>16, FS_Subset DEF RetOK
  <1>20. reader' \in [Run -> ReaderType] /\ \A r \in Run : ReaderKept(r)
    BY <1>1 DEF Woken, ServiceType, ReaderType, ReaderKept
  <1> QED BY <1>4, <1>5, <1>6, <1>7, <1>8, <1>9, <1>15, <1>16, <1>17, <1>18, <1>19, <1>20

-----------------------------------------------------------------------------
\* A step of one run keeps the invariant if it keeps what it says of that run.
LEMMA OneRun ==
    ASSUME XInv, NEW r \in Run, ServiceType', LP!LInv', RetOK', ClosingKept,
           \A s \in Run : s # r => RunKept(s),
           StartOK(r)', ChildOK(r)', DrainOK(r)',
           \A s \in Run : ReadKept(s)
    PROVE  XInv'
  <1>1. ASSUME NEW s \in Run PROVE StartOK(s)' /\ ChildOK(s)' /\ DrainOK(s)'
    <2>1. CASE s = r
      BY <2>1
    <2>2. CASE s # r
      BY <2>2, RunFrame DEF XInv, RunOK
    <2> QED BY <2>1, <2>2
  <1>2. ASSUME NEW s \in Run PROVE ReadOK(s)'
    BY ReadFrame DEF XInv, ReadersOK
  <1>3. RunOK'
    BY <1>1 DEF RunOK
  <1>4. ReadersOK'
    BY <1>2 DEF ReadersOK
  <1> QED BY <1>3, <1>4 DEF XInv

\* The awaits of start().
LEMMA GotoKeeps ==
    ASSUME XInv, NEW r \in Run, NEW pc \in Pending, call[r] \in Pending, Goto(r, pc),
           UNCHANGED child, killed \subseteq killed', killed' \subseteq Run,
           LP!LInv', \A s \in Run : s # r => Moved(s),
           StartOK(r)', ChildOK(r)', DrainOK(r)'
    PROVE  XInv'
  <1>1. /\ call' = [call EXCEPT ![r] = pc]
        /\ UNCHANGED <<entry, runs, retained, consumer, observed, replay, reader, closing, toClose>>
    BY DEF Goto, drainVars
  <1>2. ServiceType'
    BY <1>1 DEF XInv, ServiceType
  <1>3. RetOK'
    BY <1>1 DEF XInv, RetOK, IsTerminal
  <1>4. ClosingKept
    BY <1>1 DEF ClosingKept
  <1>5. \A s \in Run : s # r => RunKept(s)
    BY <1>1 DEF RunKept, EntryKept, ListKept, XInv, ServiceType
  <1>6. \A s \in Run : ReadKept(s)
    BY <1>1 DEF ReadKept, ReaderKept, IsTerminal, XInv, ServiceType, Pending
  <1> QED BY <1>2, <1>3, <1>4, <1>5, <1>6, OneRun

LEMMA ResolveFailsX ==
    ASSUME XInv, NEW r \in Run, ResolveFails(r)
    PROVE  XInv'
  <1>1. /\ call[r] = "resolve" /\ Goto(r, "catch") /\ UNCHANGED <<child, killed>>
        /\ UNCHANGED laneVars /\ call'[r] = "catch"
    BY DEF ResolveFails, Goto, XInv, ServiceType
  <1>2. LP!LInv' /\ \A s \in Run : Moved(s)
    BY <1>1, LaneSame DEF XInv
  <1>3. killed \subseteq killed' /\ killed' \subseteq Run /\ "catch" \in Pending /\ call[r] \in Pending
    BY <1>1 DEF XInv, ServiceType, Pending
  <1>4. StartOK(r) /\ ChildOK(r) /\ DrainOK(r)
    BY DEF XInv, RunOK
  <1>5. StartOK(r)' /\ ChildOK(r)' /\ DrainOK(r)'
    BY <1>1, <1>4 DEF Goto, drainVars, laneVars, StartOK, ChildOK, DrainOK, IsTerminal, Preregistered
  <1> QED BY <1>1, <1>2, <1>3, <1>5, GotoKeeps

LEMMA AcquireLaneX ==
    ASSUME XInv, NEW r \in Run, AcquireLane(r)
    PROVE  XInv'
  <1>1. /\ call[r] = "resolve" /\ Goto(r, "lane") /\ UNCHANGED <<child, killed>>
        /\ L!Acquire(r) /\ call'[r] = "lane"
    BY DEF AcquireLane, Goto, XInv, ServiceType
  <1>2. /\ LP!LInv' /\ \A s \in Run : s # r => Moved(s)
        /\ phase[r] = "idle" /\ phase'[r] \in {"refused", "held", "waiting"}
    BY <1>1, LaneAcquire DEF XInv
  <1>3. killed \subseteq killed' /\ killed' \subseteq Run /\ "lane" \in Pending /\ call[r] \in Pending
    BY <1>1 DEF XInv, ServiceType, Pending
  <1>4. StartOK(r) /\ ChildOK(r) /\ DrainOK(r)
    BY DEF XInv, RunOK
  <1>5. StartOK(r)' /\ ChildOK(r)' /\ DrainOK(r)'
    BY <1>1, <1>2, <1>4 DEF Goto, drainVars, StartOK, ChildOK, DrainOK, IsTerminal, Preregistered
  <1> QED BY <1>1, <1>2, <1>3, <1>5, GotoKeeps

LEMMA LaneAnswersX ==
    ASSUME XInv, NEW r \in Run, LaneAnswers(r)
    PROVE  XInv'
  <1>1. PICK pc \in {"client", "catch"} :
            /\ call[r] = "lane" /\ Goto(r, pc) /\ UNCHANGED <<child, killed>>
            /\ UNCHANGED laneVars /\ call'[r] = pc
            /\ pc = "client" => phase[r] = "held"
            /\ phase[r] # "waiting"
    BY DEF LaneAnswers, Goto, XInv, ServiceType
  <1>2. LP!LInv' /\ \A s \in Run : Moved(s)
    BY <1>1, LaneSame DEF XInv
  <1>3. killed \subseteq killed' /\ killed' \subseteq Run /\ pc \in Pending /\ call[r] \in Pending
    BY <1>1 DEF XInv, ServiceType, Pending
  <1>4. StartOK(r) /\ ChildOK(r) /\ DrainOK(r)
    BY DEF XInv, RunOK
  <1>5. StartOK(r)' /\ ChildOK(r)' /\ DrainOK(r)'
    BY <1>1, <1>4 DEF Goto, drainVars, laneVars, StartOK, ChildOK, DrainOK, IsTerminal, Preregistered
  <1> QED BY <1>1, <1>2, <1>3, <1>5, GotoKeeps

LEMMA ClientFailsX ==
    ASSUME XInv, NEW r \in Run, ClientFails(r) \/ Undone(r)
    PROVE  XInv'
  <1>1. /\ call[r] \in {"client", "undo"} /\ child[r] # "live"
        /\ Goto(r, "catch") /\ UNCHANGED <<child, killed>>
        /\ UNCHANGED laneVars /\ call'[r] = "catch"
    BY DEF ClientFails, Undone, StopAnswered, Goto, XInv, ServiceType
  <1>2. LP!LInv' /\ \A s \in Run : Moved(s)
    BY <1>1, LaneSame DEF XInv
  <1>3. killed \subseteq killed' /\ killed' \subseteq Run /\ "catch" \in Pending /\ call[r] \in Pending
    BY <1>1 DEF XInv, ServiceType, Pending
  <1>4. StartOK(r) /\ ChildOK(r) /\ DrainOK(r)
    BY DEF XInv, RunOK
  <1>5. StartOK(r)' /\ ChildOK(r)' /\ DrainOK(r)'
    BY <1>1, <1>4 DEF Goto, drainVars, laneVars, StartOK, ChildOK, DrainOK, IsTerminal, Preregistered
  <1> QED BY <1>1, <1>2, <1>3, <1>5, GotoKeeps

LEMMA StartedLateX ==
    ASSUME XInv, NEW r \in Run, StartedLate(r)
    PROVE  XInv'
  <1>1. /\ call[r] = "client" /\ Goto(r, "undo") /\ UNCHANGED child
        /\ killed' = killed \cup {r} /\ UNCHANGED laneVars /\ call'[r] = "undo"
    BY DEF StartedLate, Goto, XInv, ServiceType
  <1>2. LP!LInv' /\ \A s \in Run : Moved(s)
    BY <1>1, LaneSame DEF XInv
  <1>3. killed \subseteq killed' /\ killed' \subseteq Run /\ "undo" \in Pending /\ call[r] \in Pending
    BY <1>1 DEF XInv, ServiceType, Pending
  <1>4. StartOK(r) /\ ChildOK(r) /\ DrainOK(r)
    BY DEF XInv, RunOK
  <1>5. StartOK(r)' /\ ChildOK(r)' /\ DrainOK(r)'
    BY <1>1, <1>4 DEF Goto, drainVars, laneVars, StartOK, ChildOK, DrainOK, IsTerminal, Preregistered
  <1> QED BY <1>1, <1>2, <1>3, <1>5, GotoKeeps

LEMMA CatchX ==
    ASSUME XInv, NEW r \in Run, Catch(r)
    PROVE  XInv'
  <1>1. /\ call[r] = "catch" /\ Goto(r, "finalize") /\ UNCHANGED <<child, killed>>
        /\ ReleaseLane(r) /\ call'[r] = "finalize"
    BY DEF Catch, Goto, XInv, ServiceType
  <1>2. /\ LP!LInv' /\ \A s \in Run : s # r => Moved(s)
        /\ phase'[r] # "held" /\ (phase'[r] = "waiting" => phase[r] = "waiting")
    BY <1>1, LaneGivenUp DEF XInv
  <1>3. killed \subseteq killed' /\ killed' \subseteq Run /\ "finalize" \in Pending /\ call[r] \in Pending
    BY <1>1 DEF XInv, ServiceType, Pending
  <1>4. StartOK(r) /\ ChildOK(r) /\ DrainOK(r)
    BY DEF XInv, RunOK
  <1>5. StartOK(r)' /\ ChildOK(r)' /\ DrainOK(r)'
    BY <1>1, <1>2, <1>4 DEF Goto, drainVars, StartOK, ChildOK, DrainOK, IsTerminal, Preregistered
  <1> QED BY <1>1, <1>2, <1>3, <1>5, GotoKeeps

-----------------------------------------------------------------------------
\* A run is asked for.
LEMMA StartX ==
    ASSUME XInv, NEW r \in Run, StartPlain(r) \/ StartQueued(r)
    PROVE  XInv'
  <1>1. PICK pc \in {"client", "resolve"}, status \in {"running", "queued"} :
            /\ call[r] = "none" /\ call' = [call EXCEPT ![r] = pc]
            /\ entry' = [entry EXCEPT ![r].status = status]
            /\ runs' = IF pc = "resolve" THEN runs \cup {r} ELSE runs
            /\ pc = "resolve" <=> Preregistered(r)
            /\ UNCHANGED <<retained, consumer, observed, replay, child, killed, reader, closing, toClose>>
            /\ UNCHANGED laneVars
    BY DEF StartPlain, StartQueued, Preregistered, drainVars
  <1>2. LP!LInv' /\ \A s \in Run : Moved(s)
    BY <1>1, LaneSame DEF XInv
  <1>3. entry' \in [Run -> EntryType] /\ \A s \in Run : s # r => entry'[s] = entry[s]
    BY <1>1 DEF XInv, ServiceType, EntryType
  <1>4. /\ entry'[r].status = status /\ entry'[r].session = entry[r].session
        /\ entry'[r].request = entry[r].request
    BY <1>1 DEF XInv, ServiceType, EntryType
  <1>5. ServiceType'
    BY <1>1, <1>3 DEF XInv, ServiceType, Pending
  <1>6. StartOK(r) /\ ChildOK(r) /\ DrainOK(r) /\ call'[r] = pc
    BY <1>1 DEF XInv, RunOK, ServiceType
  <1>7. RetOK'
    <2>1. \A i \in DOMAIN retained : retained[i] \in Run /\ retained[i] \in runs /\ retained[i] # r
      BY <1>1, <1>6 DEF XInv, RetOK, ServiceType, StartOK
    <2>2. IsFiniteSet(runs')
      BY <1>1, FS_AddElement DEF XInv, RetOK
    <2> QED BY <1>1, <1>3, <2>1, <2>2 DEF XInv, RetOK, IsTerminal
  <1>8. ClosingKept
    BY <1>1 DEF ClosingKept
  <1>9. \A s \in Run : s # r => RunKept(s)
    BY <1>1, <1>2, <1>3 DEF RunKept, EntryKept, ListKept, XInv, ServiceType
  <1>10. ~IsTerminal(r)
    BY <1>1, <1>6 DEF StartOK, IsTerminal, Terminal
  <1>11. \A s \in Run : ReadKept(s)
    BY <1>1, <1>3, <1>4, <1>10 DEF ReadKept, ReaderKept, IsTerminal, XInv, ServiceType
  <1>12. StartOK(r)'
    BY <1>1, <1>4, <1>6 DEF StartOK, Preregistered, laneVars
  <1>13. ChildOK(r)'
    BY <1>1, <1>6 DEF ChildOK
  <1>14. DrainOK(r)'
    BY <1>1, <1>4, <1>6 DEF DrainOK, IsTerminal
  <1> QED BY <1>2, <1>5, <1>7, <1>8, <1>9, <1>11, <1>12, <1>13, <1>14, OneRun

\* The agent process: it is spawned, it dies, or its stop fails.
LEMMA ChildX ==
    ASSUME XInv, NEW r \in Run, Spawn(r) \/ Die(r) \/ TerminationFails(r)
    PROVE  XInv'
  <1>1. PICK c \in {"live", "loose", "dead"} :
            /\ child' = [child EXCEPT ![r] = c]
            /\ c = "live" => call[r] = "client"
            /\ c # "live" => child[r] = "live"
            /\ killed' = IF c = "loose" THEN killed \cup {r} ELSE killed
            /\ UNCHANGED <<call, entry, runs, retained, consumer, observed, replay, reader, closing, toClose>>
            /\ UNCHANGED laneVars
    BY DEF Spawn, Die, TerminationFails, runVars, drainVars
  <1>2. LP!LInv' /\ \A s \in Run : Moved(s)
    BY <1>1, LaneSame DEF XInv
  <1>3. ServiceType' /\ child'[r] = c
    BY <1>1 DEF XInv, ServiceType
  <1>4. StartOK(r) /\ ChildOK(r) /\ DrainOK(r)
    BY DEF XInv, RunOK
  <1>5. RetOK'
    BY <1>1 DEF XInv, RetOK, IsTerminal
  <1>6. ClosingKept
    BY <1>1 DEF ClosingKept
  <1>7. \A s \in Run : s # r => RunKept(s)
    BY <1>1, <1>2 DEF RunKept, EntryKept, ListKept, XInv, ServiceType
  <1>8. \A s \in Run : ReadKept(s)
    BY <1>1 DEF ReadKept, ReaderKept, IsTerminal
  <1>9. StartOK(r)'
    BY <1>1, <1>4 DEF StartOK, Preregistered, laneVars
  <1>10. ChildOK(r)'
    BY <1>1, <1>3, <1>4 DEF ChildOK, DrainOK
  <1>11. DrainOK(r)'
    BY <1>1, <1>4 DEF DrainOK, IsTerminal, Preregistered, laneVars
  <1> QED BY <1>2, <1>3, <1>5, <1>6, <1>7, <1>8, <1>9, <1>10, <1>11, OneRun

\* client.start resolved in time.
LEMMA StartedX ==
    ASSUME XInv, NEW r \in Run, Started(r)
    PROVE  XInv'
  <1>1. /\ call[r] = "client" /\ closing = "open" /\ ~IsTerminal(r)
        /\ call' = [call EXCEPT ![r] = "returned"]
        /\ entry' = [entry EXCEPT ![r].status = "running", ![r].session = TRUE]
        /\ consumer' = [consumer EXCEPT ![r] = "drain"]
        /\ Prune(retained, runs \cup {r})
        /\ UNCHANGED <<observed, replay, child, killed, reader, closing, toClose>>
        /\ UNCHANGED laneVars
    BY DEF Started, Bind
  <1>2. LP!LInv' /\ \A s \in Run : Moved(s)
    BY <1>1, LaneSame DEF XInv
  <1>3. entry' \in [Run -> EntryType] /\ \A s \in Run : s # r => entry'[s] = entry[s]
    <2>1. entry \in [Run -> EntryType] /\ entry[r] \in EntryType
      BY DEF XInv, ServiceType
    <2>2. [entry[r] EXCEPT !.status = "running", !.session = TRUE] \in EntryType
      BY <2>1 DEF EntryType
    <2>3. entry' = [entry EXCEPT ![r] = [entry[r] EXCEPT !.status = "running", !.session = TRUE]]
      BY <1>1, <2>1
    <2> QED BY <2>1, <2>2, <2>3
  <1>4. entry'[r].status = "running" /\ entry'[r].session /\ entry'[r].request = entry[r].request
    BY <1>1 DEF XInv, ServiceType, EntryType
  <1>5. /\ retained \in Seq(Run) /\ runs \cup {r} \in SUBSET Run
        /\ \A i, j \in DOMAIN retained : retained[i] = retained[j] => i = j
        /\ \A i \in DOMAIN retained : retained[i] \in runs \cup {r}
        /\ \A i \in DOMAIN retained : retained[i] # r /\ IsTerminal(retained[i]) /\ retained[i] \in Run
    BY <1>1 DEF XInv, ServiceType, RetOK
  <1>6. /\ retained' \in Seq(Run)
        /\ \A i, j \in DOMAIN retained' : retained'[i] = retained'[j] => i = j
        /\ \A i \in DOMAIN retained' : /\ retained'[i] \in runs'
                                       /\ \E j \in DOMAIN retained : retained[j] = retained'[i]
        /\ runs' \subseteq runs \cup {r}
        /\ \A s \in runs \cup {r} : s \in runs' \/ \E j \in DOMAIN retained : retained[j] = s
    BY <1>1, <1>5, PruneIs
  <1>7. r \in runs'
    BY <1>5, <1>6
  <1>8. ServiceType' /\ call'[r] = "returned" /\ consumer'[r] = "drain"
    BY <1>1, <1>3, <1>5, <1>6 DEF XInv, ServiceType, Pending
  <1>9. StartOK(r) /\ ChildOK(r) /\ DrainOK(r)
    BY DEF XInv, RunOK
  <1>10. RetOK'
    <2>1. \A i \in DOMAIN retained' : entry'[retained'[i]].status \in Terminal
      BY <1>3, <1>5, <1>6 DEF IsTerminal
    <2>2. IsFiniteSet(runs')
      <3>1. IsFiniteSet(runs \cup {r})
        BY FS_AddElement DEF XInv, RetOK
      <3> QED BY <1>6, <3>1, FS_Subset
    <2> QED BY <1>1, <1>6, <2>1, <2>2 DEF XInv, RetOK, IsTerminal
  <1>11. ClosingKept
    BY <1>1 DEF ClosingKept
  <1>12. \A s \in Run : s # r => RunKept(s)
    <2> SUFFICES ASSUME NEW s \in Run, s # r PROVE RunKept(s)
      OBVIOUS
    <2>1. ListKept(s)
      BY <1>3, <1>5, <1>6 DEF ListKept, IsTerminal
    <2>2. EntryKept(s)
      BY <1>3 DEF EntryKept
    <2> QED BY <1>1, <1>2, <2>1, <2>2 DEF RunKept, XInv, ServiceType
  <1>13. \A s \in Run : ReadKept(s)
    <2> SUFFICES ASSUME NEW s \in Run PROVE ReadKept(s)
      OBVIOUS
    <2>1. ReaderKept(s) /\ replay'[s] = replay[s] /\ entry'[s].request = entry[s].request
      BY <1>1, <1>3, <1>4 DEF ReaderKept
    <2>2. IsTerminal(s) /\ s \notin runs => IsTerminal(s)' /\ s \notin runs'
      BY <1>1, <1>3, <1>6 DEF IsTerminal
    <2>3. consumer[r] = "none"
      BY <1>1, <1>9 DEF DrainOK
    <2> QED BY <1>1, <2>1, <2>2, <2>3 DEF ReadKept, XInv, ServiceType
  <1>14. StartOK(r)'
    BY <1>1, <1>8, <1>9 DEF StartOK, Preregistered, laneVars
  <1>15. ChildOK(r)'
    BY <1>1, <1>8, <1>9 DEF ChildOK
  <1>16. DrainOK(r)'
    <2>1. phase' = phase
      BY <1>1 DEF laneVars
    <2>2. ~IsTerminal(r)'
      BY <1>4 DEF IsTerminal, Terminal
    <2>3. Preregistered(r)' => phase'[r] = "held"
      BY <1>1, <1>4, <1>9, <2>1 DEF Preregistered, StartOK
    <2> QED BY <1>4, <1>7, <1>8, <2>2, <2>3 DEF DrainOK
  <1> QED BY <1>2, <1>8, <1>10, <1>11, <1>12, <1>13, <1>14, <1>15, <1>16, OneRun

\* The stream fails: the session is told to stop.
LEMMA StreamFailsX ==
    ASSUME XInv, NEW r \in Run, StreamFails(r)
    PROVE  XInv'
  <1>1. /\ consumer[r] = "drain" /\ consumer' = [consumer EXCEPT ![r] = "cancel"]
        /\ killed' = killed \cup {r}
        /\ UNCHANGED <<call, entry, runs, retained, observed, replay, child, reader, closing, toClose>>
        /\ UNCHANGED laneVars
    BY DEF StreamFails, runVars
  <1>2. LP!LInv' /\ \A s \in Run : Moved(s)
    BY <1>1, LaneSame DEF XInv
  <1>3. ServiceType' /\ consumer'[r] = "cancel"
    BY <1>1 DEF XInv, ServiceType
  <1>4. StartOK(r) /\ ChildOK(r) /\ DrainOK(r)
    BY DEF XInv, RunOK
  <1>5. RetOK' /\ ClosingKept
    BY <1>1 DEF XInv, RetOK, IsTerminal, ClosingKept
  <1>6. \A s \in Run : s # r => RunKept(s)
    BY <1>1, <1>2 DEF RunKept, EntryKept, ListKept, XInv, ServiceType
  <1>7. \A s \in Run : ReadKept(s)
    BY <1>1 DEF ReadKept, ReaderKept, IsTerminal, XInv, ServiceType
  <1>8. StartOK(r)' /\ ChildOK(r)'
    BY <1>1, <1>3, <1>4 DEF StartOK, ChildOK, Preregistered, laneVars
  <1>9. DrainOK(r)'
    BY <1>1, <1>3, <1>4 DEF DrainOK, IsTerminal, Preregistered, laneVars
  <1> QED BY <1>2, <1>3, <1>5, <1>6, <1>7, <1>8, <1>9, OneRun

LEMMA ReleaseRunX ==
    ASSUME XInv, NEW r \in Run, ReleaseRun(r)
    PROVE  XInv'
  <1>1. /\ consumer[r] = "release" /\ consumer' = [consumer EXCEPT ![r] = "ended"]
        /\ ReleaseLane(r)
        /\ UNCHANGED <<call, entry, runs, retained, observed, replay, child, killed, reader, closing, toClose>>
    BY DEF ReleaseRun, runVars
  <1>2. /\ LP!LInv' /\ \A s \in Run : s # r => Moved(s)
        /\ phase'[r] # "held" /\ (phase'[r] = "waiting" => phase[r] = "waiting")
    BY <1>1, LaneGivenUp DEF XInv
  <1>3. ServiceType' /\ consumer'[r] = "ended"
    BY <1>1 DEF XInv, ServiceType
  <1>4. StartOK(r) /\ ChildOK(r) /\ DrainOK(r)
    BY DEF XInv, RunOK
  <1>5. RetOK' /\ ClosingKept
    BY <1>1 DEF XInv, RetOK, IsTerminal, ClosingKept
  <1>6. \A s \in Run : s # r => RunKept(s)
    BY <1>1, <1>2 DEF RunKept, EntryKept, ListKept, XInv, ServiceType
  <1>7. \A s \in Run : ReadKept(s)
    BY <1>1 DEF ReadKept, ReaderKept, IsTerminal, XInv, ServiceType
  <1>8. StartOK(r)' /\ ChildOK(r)'
    BY <1>1, <1>2, <1>3, <1>4 DEF StartOK, ChildOK, DrainOK, Preregistered
  <1>9. DrainOK(r)'
    BY <1>1, <1>2, <1>3, <1>4 DEF DrainOK, IsTerminal, Preregistered
  <1> QED BY <1>2, <1>3, <1>5, <1>6, <1>7, <1>8, <1>9, OneRun

-----------------------------------------------------------------------------
\* Settlements.

LEMMA RequestedIs ==
    ASSUME ServiceType, NEW rs
    PROVE  /\ Requested(rs) \in [Run -> EntryType]
           /\ \A r \in Run : /\ Requested(rs)[r].status = entry[r].status
                             /\ Requested(rs)[r].session = entry[r].session
                             /\ Requested(rs)[r].request = entry[r].request
  <1>1. ASSUME NEW e \in EntryType, NEW b \in BOOLEAN
        PROVE  LET f == [e EXCEPT !.cancelRequested = b]
               IN /\ f \in EntryType /\ f.status = e.status
                  /\ f.session = e.session /\ f.request = e.request
    BY DEF EntryType
  <1>2. ASSUME NEW r \in Run
        PROVE  \E b \in BOOLEAN : Requested(rs)[r] = [entry[r] EXCEPT !.cancelRequested = b]
    <2>1. (entry[r].cancelRequested \/ r \in rs) \in BOOLEAN
      OBVIOUS
    <2>2. Requested(rs)[r] = [entry[r] EXCEPT !.cancelRequested = entry[r].cancelRequested \/ r \in rs]
      BY Zenon DEF Requested
    <2> QED BY <2>1, <2>2, Zenon
  <1>3. \A r \in Run : entry[r] \in EntryType
    BY DEF ServiceType
  <1>4. \A r \in Run : /\ Requested(rs)[r] \in EntryType
                       /\ Requested(rs)[r].status = entry[r].status
                       /\ Requested(rs)[r].session = entry[r].session
                       /\ Requested(rs)[r].request = entry[r].request
    <2> SUFFICES ASSUME NEW r \in Run
                 PROVE  /\ Requested(rs)[r] \in EntryType
                        /\ Requested(rs)[r].status = entry[r].status
                        /\ Requested(rs)[r].session = entry[r].session
                        /\ Requested(rs)[r].request = entry[r].request
      OBVIOUS
    <2>1. PICK b \in BOOLEAN : Requested(rs)[r] = [entry[r] EXCEPT !.cancelRequested = b]
      BY <1>2
    <2>2. entry[r] \in EntryType
      BY <1>3
    <2> QED BY <1>1, <2>1, <2>2
  <1>5. Requested(rs) = [r \in Run |-> Requested(rs)[r]]
    BY DEF Requested
  <1>6. Requested(rs) \in [Run -> EntryType]
    BY <1>4, <1>5, Zenon
  <1> QED BY <1>4, <1>6

\* What a settlement of one run means for the invariant.
LEMMA SettleOne ==
    ASSUME XInv, NEW r \in Run, NEW entries \in [Run -> EntryType],
           \A s \in Run : /\ entries[s].status = entry[s].status
                          /\ entries[s].session = entry[s].session
                          /\ entries[s].request = entry[s].request,
           Settle({r}, entries), UNCHANGED <<replay, closing, toClose>>
    PROVE  /\ entry' \in [Run -> EntryType] /\ reader' \in [Run -> ReaderType]
           /\ retained' \in Seq(Run) /\ runs' \subseteq Run
           /\ RetOK' /\ ClosingKept
           /\ \A s \in Run : ListKept(s) /\ ReaderKept(s) /\ entry'[s].request = entry[s].request
           /\ \A s \in Run : s # r => EntryKept(s)
           /\ \A s \in Run : IsTerminal(s) /\ s \notin runs => IsTerminal(s)' /\ s \notin runs'
           /\ IsTerminal(r)' /\ ~entry'[r].session
  <1>1. /\ entry' \in [Run -> EntryType] /\ reader' \in [Run -> ReaderType]
        /\ \A s \in Run : entry'[s].request = entry[s].request
        /\ \A s \in Run : IsTerminal(s) => EntryKept(s)
        /\ \A s \in Run : s \notin {r} => EntryKept(s)
        /\ \A s \in {r} : IsTerminal(s)'
        /\ \A s \in {r} : ~IsTerminal(s) => ~entry'[s].session
        /\ \A s \in Run : ListKept(s) /\ ReaderKept(s)
        /\ retained' \in Seq(Run) /\ runs' \subseteq Run
        /\ \A i, j \in DOMAIN retained' : retained'[i] = retained'[j] => i = j
        /\ \A i \in DOMAIN retained' : /\ retained'[i] \in runs'
                                       /\ entry'[retained'[i]].status \in Terminal
        /\ IsFiniteSet(runs')
    <2>1. {r} \in SUBSET Run
      OBVIOUS
    <2> QED BY <2>1, SettleIs DEF XInv
  <1>2. RetOK' /\ ClosingKept
    BY <1>1 DEF XInv, RetOK, IsTerminal, ClosingKept
  <1>3. \A s \in Run : IsTerminal(s) /\ s \notin runs => IsTerminal(s)' /\ s \notin runs'
    BY <1>1 DEF EntryKept, ListKept, IsTerminal
  <1>4. ~entry'[r].session
    <2>1. CASE IsTerminal(r)
      <3>1. ~entry[r].session
        BY <2>1 DEF XInv, RunOK, DrainOK
      <3>2. entry'[r].session = entry[r].session
        BY <1>1, <2>1 DEF EntryKept
      <3> QED BY <3>1, <3>2
    <2>2. CASE ~IsTerminal(r)
      BY <1>1, <2>2
    <2> QED BY <2>1, <2>2
  <1> QED BY <1>1, <1>2, <1>3, <1>4

LEMMA FinalizedX ==
    ASSUME XInv, NEW r \in Run, Finalized(r)
    PROVE  XInv'
  <1>1. /\ call[r] = "finalize" /\ call' = [call EXCEPT ![r] = "rejected"]
        /\ UNCHANGED <<consumer, observed, replay, child, killed, closing, toClose>>
        /\ UNCHANGED laneVars
    BY DEF Finalized, drainVars
  <1>2. LP!LInv' /\ (\A s \in Run : Moved(s)) /\ phase' = phase
    BY <1>1, LaneSame DEF XInv, laneVars
  <1>3. StartOK(r) /\ ChildOK(r) /\ DrainOK(r) /\ call'[r] = "rejected"
    BY <1>1 DEF XInv, RunOK, ServiceType
  <1>4. /\ entry' \in [Run -> EntryType] /\ reader' \in [Run -> ReaderType]
        /\ retained' \in Seq(Run) /\ runs' \subseteq Run
        /\ RetOK' /\ ClosingKept
        /\ \A s \in Run : ListKept(s) /\ ReaderKept(s) /\ entry'[s].request = entry[s].request
        /\ \A s \in Run : s # r => EntryKept(s)
        /\ \A s \in Run : IsTerminal(s) /\ s \notin runs => IsTerminal(s)' /\ s \notin runs'
        /\ ~entry'[r].session
    <2>1. CASE Preregistered(r)
      <3>1. Settle({r}, entry) /\ entry \in [Run -> EntryType]
        BY <2>1 DEF Finalized, XInv, ServiceType
      <3> QED BY <1>1, <3>1, SettleOne
    <2>2. CASE ~Preregistered(r)
      <3>1. UNCHANGED <<entry, runs, retained, reader>>
        BY <2>2 DEF Finalized
      <3>2. ~entry[r].session
        BY <1>1, <1>3 DEF DrainOK
      <3>3. RetOK' /\ ClosingKept
        BY <1>1, <3>1 DEF XInv, RetOK, ClosingKept, IsTerminal
      <3> QED BY <3>1, <3>2, <3>3 DEF XInv, ServiceType, ListKept, ReaderKept, EntryKept, IsTerminal
    <2> QED BY <2>1, <2>2
  <1>5. ServiceType'
    BY <1>1, <1>4 DEF XInv, ServiceType
  <1>6. \A s \in Run : s # r => RunKept(s)
    BY <1>1, <1>2, <1>4 DEF RunKept, XInv, ServiceType
  <1>7. \A s \in Run : ReadKept(s)
    BY <1>1, <1>4 DEF ReadKept, XInv, ServiceType
  <1>8. StartOK(r)'
    BY <1>1, <1>2, <1>3, <1>4 DEF StartOK
  <1>9. ChildOK(r)'
    BY <1>1, <1>3 DEF ChildOK
  <1>10. DrainOK(r)'
    BY <1>1, <1>3, <1>4 DEF DrainOK
  <1> QED BY <1>2, <1>4, <1>5, <1>6, <1>7, <1>8, <1>9, <1>10, OneRun

LEMMA DrainedX ==
    ASSUME XInv, NEW r \in Run, StreamEnds(r) \/ StreamCancelled(r)
    PROVE  XInv'
  <1>1. /\ consumer[r] \in {"drain", "cancel"} /\ child[r] # "live"
        /\ consumer' = [consumer EXCEPT ![r] = "release"]
        /\ Settle({r}, entry)
        /\ killed \subseteq killed' /\ killed' \subseteq killed \cup {r}
        /\ UNCHANGED <<call, observed, replay, child, closing, toClose>>
        /\ UNCHANGED laneVars
    BY DEF StreamEnds, StreamCancelled, Drained, StopAnswered
  <1>2. LP!LInv' /\ (\A s \in Run : Moved(s)) /\ phase' = phase
    BY <1>1, LaneSame DEF XInv, laneVars
  <1>3. StartOK(r) /\ ChildOK(r) /\ DrainOK(r) /\ consumer'[r] = "release"
    BY <1>1 DEF XInv, RunOK, ServiceType
  <1>4. /\ entry' \in [Run -> EntryType] /\ reader' \in [Run -> ReaderType]
        /\ retained' \in Seq(Run) /\ runs' \subseteq Run
        /\ RetOK' /\ ClosingKept
        /\ \A s \in Run : ListKept(s) /\ ReaderKept(s) /\ entry'[s].request = entry[s].request
        /\ \A s \in Run : s # r => EntryKept(s)
        /\ \A s \in Run : IsTerminal(s) /\ s \notin runs => IsTerminal(s)' /\ s \notin runs'
        /\ IsTerminal(r)' /\ ~entry'[r].session
    <2>1. entry \in [Run -> EntryType]
      BY DEF XInv, ServiceType
    <2> QED BY <1>1, <2>1, SettleOne
  <1>5. ServiceType'
    BY <1>1, <1>4 DEF XInv, ServiceType
  <1>6. \A s \in Run : s # r => RunKept(s)
    BY <1>1, <1>2, <1>4 DEF RunKept, XInv, ServiceType
  <1>7. \A s \in Run : ReadKept(s)
    BY <1>1, <1>4 DEF ReadKept, XInv, ServiceType
  <1>8. StartOK(r)'
    BY <1>1, <1>2, <1>3, <1>4 DEF StartOK, DrainOK, Preregistered
  <1>9. ChildOK(r)'
    BY <1>1, <1>3 DEF ChildOK
  <1>10. DrainOK(r)'
    BY <1>1, <1>2, <1>3, <1>4 DEF DrainOK, Preregistered
  <1> QED BY <1>2, <1>4, <1>5, <1>6, <1>7, <1>8, <1>9, <1>10, OneRun

LEMMA CancelQueuedX ==
    ASSUME XInv, NEW r \in Run, Cancel(r), CancelQueued(r)
    PROVE  XInv'
  <1>1. /\ r \in runs /\ ~IsTerminal(r) /\ ~entry[r].session
        /\ OnCancel({r}) /\ Settle({r}, Requested({r}))
        /\ UNCHANGED <<call, consumer, observed, replay, child, killed, closing, toClose>>
    BY DEF Cancel, CancelQueued, drainVars
  <1>2. LP!LInv' /\ (\A s \in Run : Moved(s))
    <2>1. {s \in {r} : ~entry[s].session} \in SUBSET Run
      OBVIOUS
    <2> QED BY <1>1, <2>1, LaneAbort DEF XInv, OnCancel
  <1>3. StartOK(r) /\ ChildOK(r) /\ DrainOK(r)
    BY DEF XInv, RunOK
  <1>4. /\ entry' \in [Run -> EntryType] /\ reader' \in [Run -> ReaderType]
        /\ retained' \in Seq(Run) /\ runs' \subseteq Run
        /\ RetOK' /\ ClosingKept
        /\ \A s \in Run : ListKept(s) /\ ReaderKept(s) /\ entry'[s].request = entry[s].request
        /\ \A s \in Run : s # r => EntryKept(s)
        /\ \A s \in Run : IsTerminal(s) /\ s \notin runs => IsTerminal(s)' /\ s \notin runs'
        /\ IsTerminal(r)' /\ ~entry'[r].session
    <2>1. /\ Requested({r}) \in [Run -> EntryType]
          /\ \A s \in Run : /\ Requested({r})[s].status = entry[s].status
                            /\ Requested({r})[s].session = entry[s].session
                            /\ Requested({r})[s].request = entry[s].request
      BY RequestedIs DEF XInv
    <2> QED BY <1>1, <2>1, SettleOne
  <1>5. ServiceType'
    BY <1>1, <1>4 DEF XInv, ServiceType
  <1>6. \A s \in Run : s # r => RunKept(s)
    BY <1>1, <1>2, <1>4 DEF RunKept, XInv, ServiceType
  <1>7. \A s \in Run : ReadKept(s)
    BY <1>1, <1>4 DEF ReadKept, XInv, ServiceType
  <1>8. consumer[r] = "none" /\ call[r] \notin {"none", "returned"}
    <2>1. consumer[r] \notin {"drain", "cancel", "release", "ended"}
      BY <1>1, <1>3 DEF DrainOK
    <2> QED BY <1>1, <1>3, <2>1 DEF DrainOK, StartOK, XInv, ServiceType
  <1>9. StartOK(r)'
    BY <1>1, <1>2, <1>3, <1>4, <1>8 DEF StartOK, Preregistered, Moved
  <1>10. ChildOK(r)'
    BY <1>1, <1>3 DEF ChildOK
  <1>11. DrainOK(r)'
    BY <1>1, <1>3, <1>4, <1>8 DEF DrainOK
  <1> QED BY <1>2, <1>4, <1>5, <1>6, <1>7, <1>9, <1>10, <1>11, OneRun

LEMMA CancelSessionX ==
    ASSUME XInv, NEW r \in Run, Cancel(r), CancelSession(r)
    PROVE  XInv'
  <1>1. /\ entry' = Requested({r}) /\ killed' = killed \cup {r}
        /\ UNCHANGED <<call, runs, retained, consumer, observed, replay, child, reader, closing, toClose>>
        /\ UNCHANGED laneVars
    BY DEF Cancel, CancelSession, drainVars
  <1>2. LP!LInv' /\ \A s \in Run : Moved(s)
    BY <1>1, LaneSame DEF XInv
  <1>3. entry' \in [Run -> EntryType] /\ \A s \in Run : EntryKept(s)
    BY <1>1, RequestedIs DEF XInv, EntryKept
  <1>4. ServiceType'
    BY <1>1, <1>3 DEF XInv, ServiceType
  <1>5. RetOK' /\ ClosingKept
    <2>1. \A i \in DOMAIN retained : retained[i] \in Run
      BY DEF XInv, ServiceType
    <2> QED BY <1>1, <1>3, <2>1 DEF XInv, RetOK, IsTerminal, ClosingKept, EntryKept
  <1>6. \A s \in Run : RunKept(s)
    BY <1>1, <1>2, <1>3 DEF RunKept, ListKept, XInv, ServiceType
  <1>7. \A s \in Run : ReadKept(s)
    BY <1>1, <1>3 DEF ReadKept, ReaderKept, IsTerminal, EntryKept
  <1>8. StartOK(r)' /\ ChildOK(r)' /\ DrainOK(r)'
    BY <1>5, <1>6, RunFrame DEF XInv, RunOK
  <1> QED BY <1>2, <1>4, <1>5, <1>6, <1>7, <1>8, OneRun

LEMMA CancelX ==
    ASSUME XInv, NEW r \in Run, Cancel(r)
    PROVE  XInv'
  BY CancelQueuedX, CancelSessionX DEF Cancel

-----------------------------------------------------------------------------
\* close() and the shutdown of the lane.

LEMMA CloseX ==
    ASSUME XInv, Close
    PROVE  XInv'
  <1>1. /\ closing = "open" /\ closing' = "cancelling"
        /\ toClose' = {r \in runs : ~IsTerminal(r)}
        /\ entry' = Requested(toClose')
        /\ killed' = killed \cup {r \in toClose' : entry[r].session}
        /\ OnCancel(toClose')
        /\ UNCHANGED <<call, runs, retained, consumer, observed, replay, child, reader>>
    BY DEF Close, drainVars
  <1>2. toClose = {} /\ toClose' \subseteq Run
    BY <1>1 DEF XInv, RetOK, ServiceType
  <1>3. LP!LInv' /\ \A s \in Run : Moved(s)
    <2>1. {s \in toClose' : ~entry[s].session} \in SUBSET Run
      BY <1>2
    <2> QED BY <1>1, <2>1, LaneAbort DEF XInv, OnCancel
  <1>4. entry' \in [Run -> EntryType] /\ \A s \in Run : EntryKept(s)
    BY <1>1, RequestedIs DEF XInv, EntryKept
  <1>5. ServiceType'
    <2>1. killed' \subseteq Run
      BY <1>1, <1>2 DEF XInv, ServiceType
    <2> QED BY <1>1, <1>2, <1>4, <2>1 DEF XInv, ServiceType
  <1>6. RetOK'
    <2>1. \A i \in DOMAIN retained : retained[i] \in Run
      BY DEF XInv, ServiceType
    <2> QED BY <1>1, <1>4, <2>1 DEF XInv, RetOK, IsTerminal, EntryKept
  <1>7. ASSUME NEW s \in Run PROVE StartOK(s)' /\ ChildOK(s)' /\ DrainOK(s)'
    <2>1. StartOK(s) /\ ChildOK(s) /\ DrainOK(s)
      BY DEF XInv, RunOK
    <2>2. EntryKept(s) /\ Moved(s)
      BY <1>3, <1>4
    <2>3. StartOK(s)'
      BY <1>1, <2>1, <2>2 DEF StartOK, EntryKept, Moved, Preregistered, DrainOK
    <2>4. s \in killed => s \in killed'
      BY <1>1
    <2>5. child[s] = "live" /\ call[s] # "client" => s \in killed'
      <3> SUFFICES ASSUME child[s] = "live", call[s] # "client", s \notin killed
                   PROVE  s \in killed'
        BY <2>4
      <3>1. call[s] = "returned" /\ consumer[s] = "drain"
        BY <2>1 DEF ChildOK, DrainOK, XInv, ServiceType
      <3>2. entry[s].status = "running" /\ entry[s].session /\ s \in runs
        BY <1>1, <2>1, <3>1 DEF DrainOK
      <3>3. s \in toClose'
        BY <1>1, <2>1, <3>2 DEF DrainOK
      <3> QED BY <1>1, <3>2, <3>3
    <2>6. ChildOK(s)'
      BY <1>1, <2>1, <2>4, <2>5 DEF ChildOK
    <2>7. DrainOK(s)'
      BY <1>1, <2>1, <2>2 DEF DrainOK, StartOK, EntryKept, Moved, Preregistered, IsTerminal
    <2> QED BY <2>3, <2>6, <2>7
  <1>8. ASSUME NEW s \in Run PROVE ReadOK(s)'
    <2>1. ReadKept(s)
      BY <1>1, <1>2, <1>4 DEF ReadKept, ReaderKept, EntryKept, IsTerminal
    <2> QED BY <2>1, ReadFrame DEF XInv, ReadersOK
  <1>9. RunOK'
    BY <1>7 DEF RunOK
  <1>10. ReadersOK'
    BY <1>8 DEF ReadersOK
  <1> QED BY <1>3, <1>5, <1>6, <1>9, <1>10 DEF XInv

LEMMA CloseCancelledX ==
    ASSUME XInv, CloseCancelled \/ ShutLane
    PROVE  XInv'
  <1>1. /\ closing' = closing \/ (closing = "cancelling" /\ closing' = "draining")
        /\ UNCHANGED <<call, entry, runs, retained, consumer, observed, replay, child, killed, reader, toClose>>
    BY DEF CloseCancelled, ShutLane, runVars, drainVars
  <1>2. LP!LInv' /\ \A s \in Run : Moved(s)
    BY LaneSame, LaneClose DEF XInv, CloseCancelled, ShutLane
  <1>3. ServiceType'
    BY <1>1 DEF XInv, ServiceType
  <1>4. RetOK' /\ ClosingKept
    BY <1>1 DEF XInv, RetOK, ClosingKept, IsTerminal
  <1>5. ASSUME NEW s \in Run PROVE StartOK(s)' /\ ChildOK(s)' /\ DrainOK(s)'
    <2>1. RunKept(s)
      BY <1>1, <1>2 DEF RunKept, EntryKept, ListKept
    <2> QED BY <1>4, <2>1, RunFrame DEF XInv, RunOK
  <1>6. ASSUME NEW s \in Run PROVE ReadOK(s)'
    <2>1. ReadKept(s)
      BY <1>1 DEF ReadKept, ReaderKept, IsTerminal
    <2> QED BY <2>1, ReadFrame DEF XInv, ReadersOK
  <1>7. RunOK'
    BY <1>5 DEF RunOK
  <1>8. ReadersOK'
    BY <1>6 DEF ReadersOK
  <1> QED BY <1>2, <1>3, <1>4, <1>7, <1>8 DEF XInv

LEMMA CloseSettlesX ==
    ASSUME XInv, CloseSettles
    PROVE  XInv'
  <1>1. /\ closing = "draining" /\ closing' = "closed"
        /\ Settle(toClose, entry)
        /\ UNCHANGED <<call, consumer, observed, replay, child, killed, toClose>>
        /\ UNCHANGED laneVars
    BY DEF CloseSettles, drainVars
  <1>2. LP!LInv' /\ (\A s \in Run : Moved(s)) /\ phase' = phase
    BY <1>1, LaneSame DEF XInv, laneVars
  <1>3. /\ entry' \in [Run -> EntryType] /\ reader' \in [Run -> ReaderType]
        /\ \A r \in Run : entry'[r].request = entry[r].request
        /\ \A r \in Run : IsTerminal(r) => EntryKept(r)
        /\ \A r \in Run : r \notin toClose => EntryKept(r)
        /\ \A r \in toClose : IsTerminal(r)'
        /\ \A r \in toClose : ~IsTerminal(r) => ~entry'[r].session
        /\ \A r \in Run : ListKept(r) /\ ReaderKept(r)
        /\ retained' \in Seq(Run) /\ runs' \subseteq Run
        /\ \A i, j \in DOMAIN retained' : retained'[i] = retained'[j] => i = j
        /\ \A i \in DOMAIN retained' : /\ retained'[i] \in runs'
                                       /\ entry'[retained'[i]].status \in Terminal
        /\ IsFiniteSet(runs')
    <2>1. toClose \in SUBSET Run /\ entry \in [Run -> EntryType]
      BY DEF XInv, ServiceType
    <2> QED BY <1>1, <2>1, SettleIs DEF XInv
  <1>4. ServiceType'
    BY <1>1, <1>3 DEF XInv, ServiceType
  <1>5. RetOK' /\ ClosingKept
    BY <1>1, <1>3 DEF XInv, RetOK, ClosingKept, IsTerminal
  <1>6. ASSUME NEW s \in Run PROVE StartOK(s)' /\ ChildOK(s)' /\ DrainOK(s)'
    <2>1. StartOK(s) /\ ChildOK(s) /\ DrainOK(s)
      BY DEF XInv, RunOK
    <2>2. CASE s \notin toClose
      <3>1. RunKept(s)
        BY <1>1, <1>2, <1>3, <2>2 DEF RunKept
      <3> QED BY <1>5, <2>1, <3>1, RunFrame
    <2>3. CASE s \in toClose
      <3>1. IsTerminal(s)' /\ ~entry'[s].session
        <4>1. CASE IsTerminal(s)
          <5>1. ~entry[s].session /\ entry'[s].session = entry[s].session
            BY <1>3, <2>1, <4>1 DEF DrainOK, EntryKept
          <5> QED BY <1>3, <2>3, <5>1
        <4>2. CASE ~IsTerminal(s)
          BY <1>3, <2>3, <4>2
        <4> QED BY <4>1, <4>2
      <3>2. entry'[s].request = entry[s].request /\ ListKept(s)
        BY <1>3
      <3>3. StartOK(s)'
        BY <1>1, <1>2, <2>1, <2>3, <3>2 DEF StartOK, Preregistered
      <3>4. ChildOK(s)'
        BY <1>1, <2>1 DEF ChildOK
      <3>5. DrainOK(s)'
        BY <1>1, <1>2, <2>1, <2>3, <3>1, <3>2 DEF DrainOK, Preregistered
      <3> QED BY <3>3, <3>4, <3>5
    <2> QED BY <2>2, <2>3
  <1>7. ASSUME NEW s \in Run PROVE ReadOK(s)'
    <2>1. IsTerminal(s) /\ s \notin runs => IsTerminal(s)' /\ s \notin runs'
      BY <1>3 DEF EntryKept, ListKept, IsTerminal
    <2>2. ReadKept(s)
      BY <1>1, <1>3, <2>1 DEF ReadKept
    <2> QED BY <2>2, ReadFrame DEF XInv, ReadersOK
  <1>8. RunOK'
    BY <1>6 DEF RunOK
  <1>9. ReadersOK'
    BY <1>7 DEF ReadersOK
  <1> QED BY <1>2, <1>4, <1>5, <1>8, <1>9 DEF XInv

-----------------------------------------------------------------------------
\* The drain loop records an event.

LEMMA RecordX ==
    ASSUME XInv, NEW r \in Run, NEW kind \in {"output", "done", "failed", "internal"},
           NEW size \in Sizes, Record(r, kind, size)
    PROVE  XInv'
  <1>1. /\ consumer[r] = "drain"
        /\ kind # "internal" => replay[r].next <= entry[r].request.events
        /\ observed' = [observed EXCEPT ![r] = IF kind \in {"done", "failed"} THEN kind ELSE @]
        /\ replay' = [replay EXCEPT ![r] = IF kind = "internal" THEN @ ELSE AppendTo(@, size)]
        /\ reader' = Woken({r})
        /\ UNCHANGED <<call, entry, runs, retained, consumer, child, killed, closing, toClose>>
        /\ UNCHANGED laneVars
    BY DEF Record, runVars
  <1>2. LP!LInv' /\ \A s \in Run : Moved(s)
    BY <1>1, LaneSame DEF XInv
  <1>3. /\ replay[r] \in [sizes : Seq(Sizes), next : Nat]
        /\ AppendTo(replay[r], size) \in [sizes : Seq(Sizes), next : Nat]
        /\ AppendTo(replay[r], size).next = replay[r].next + 1
        /\ Oldest(replay[r]) <= Oldest(AppendTo(replay[r], size))
        /\ Oldest(replay[r]) \in Int
    BY AppendToIs DEF XInv, ServiceType
  <1>4. /\ replay' \in [Run -> [sizes : Seq(Sizes), next : Nat]]
        /\ \A s \in Run : s # r => replay'[s] = replay[s]
        /\ replay'[r] = IF kind = "internal" THEN replay[r] ELSE AppendTo(replay[r], size)
    BY <1>1, <1>3 DEF XInv, ServiceType
  <1>5. reader' \in [Run -> ReaderType] /\ \A s \in Run : ReaderKept(s)
    BY <1>1 DEF Woken, XInv, ServiceType, ReaderType, ReaderKept
  <1>6. observed' \in [Run -> {"none", "done", "failed"}]
    BY <1>1 DEF XInv, ServiceType
  <1>7. ServiceType'
    BY <1>1, <1>4, <1>5, <1>6 DEF XInv, ServiceType
  <1>8. RetOK' /\ ClosingKept
    BY <1>1 DEF XInv, RetOK, ClosingKept, IsTerminal
  <1>9. ASSUME NEW s \in Run PROVE StartOK(s)' /\ ChildOK(s)' /\ DrainOK(s)'
    <2>1. RunKept(s)
      BY <1>1, <1>2 DEF RunKept, EntryKept, ListKept
    <2> QED BY <1>8, <2>1, RunFrame DEF XInv, RunOK
  <1>10. ASSUME NEW s \in Run PROVE ReadOK(s)'
    <2>1. CASE replay'[s] = replay[s]
      <3>1. ReadKept(s)
        BY <1>1, <1>5, <2>1 DEF ReadKept, IsTerminal
      <3> QED BY <3>1, ReadFrame DEF XInv, ReadersOK
    <2>2. CASE replay'[s] # replay[s]
      <3>1. s = r /\ kind # "internal" /\ replay'[r] = AppendTo(replay[r], size)
        BY <1>4, <2>2
      <3>2. /\ replay'[r].next = replay[r].next + 1 /\ replay[r].next \in Nat
            /\ Oldest(replay[r]) <= Oldest(replay'[r]) /\ Oldest(replay[r]) \in Int
            /\ Oldest(replay'[r]) \in Int
        BY <1>3, <3>1 DEF Oldest
      <3>3. ReadOK(r) /\ ReaderKept(r) /\ reader[r] \in ReaderType
        BY <1>5 DEF XInv, ReadersOK, ServiceType
      <3>4. SeenOK(r, reader[r])
        BY <3>3 DEF ReadOK
      <3>5. reader[r].pc \in {"last", "done"} => r \in toClose
        BY <1>1, <3>4 DEF SeenOK
      <3>6. reader'[r].pc \in {"yield", "last"} => BatchOK(r, reader[r])'
        <4> SUFFICES ASSUME reader'[r].pc \in {"yield", "last"} PROVE BatchOK(r, reader[r])'
          OBVIOUS
        <4>1. reader'[r].pc = reader[r].pc
          BY <3>3 DEF ReaderKept
        <4>2. PICK m \in 0..(replay[r].next - 1) : reader[r].batch = (reader[r].cursor + 1)..m
          BY <3>4, <4>1 DEF SeenOK, BatchOK
        <4>3. m \in 0..(replay'[r].next - 1)
          BY <3>2, <4>2
        <4> QED BY <1>1, <3>3, <3>5, <4>1, <4>2, <4>3 DEF BatchOK, ReaderKept
      <3>7. reader'[r].cursor < replay'[r].next
        BY <3>2, <3>3, <3>4 DEF SeenOK, ReaderKept, ReaderType
      <3>8. reader'[r].pc = "threw" => (reader'[r].cursor + 1 < Oldest(replay'[r])
                                         \/ (IsTerminal(r) /\ r \notin runs))
        <4>1. /\ reader'[r].pc = "threw" => reader[r].pc = "threw"
              /\ reader'[r].cursor = reader[r].cursor /\ reader[r].cursor \in Nat
          BY <3>3 DEF ReaderKept, ReaderType
        <4>2. reader[r].cursor + 1 < Oldest(replay[r]) => reader[r].cursor + 1 < Oldest(replay'[r])
          BY <3>2, <4>1
        <4>3. reader[r].pc = "threw" => (reader[r].cursor + 1 < Oldest(replay[r])
                                          \/ (IsTerminal(r) /\ r \notin runs))
          BY <3>4 DEF SeenOK
        <4> QED BY <4>1, <4>2, <4>3, Zenon
      <3>9. SeenOK(r, reader[r])'
        BY <1>1, <3>3, <3>4, <3>5, <3>6, <3>7, <3>8 DEF SeenOK, ReaderKept, IsTerminal
      <3>10. replay'[r].next \in 1..(entry'[r].request.events + 1)
        <4>1. entry[r].request.events \in Nat
          BY DEF XInv, ServiceType, EntryType, Request
        <4>2. replay[r].next <= entry[r].request.events
          BY <1>1, <3>1
        <4> QED BY <1>1, <3>2, <4>1, <4>2
      <3>11. reader'[r].pc # "none" => call'[r] = "returned"
        BY <1>1, <3>3 DEF ReadOK, ReaderKept
      <3> QED BY <3>1, <3>9, <3>10, <3>11 DEF ReadOK
    <2> QED BY <2>1, <2>2
  <1>11. RunOK'
    BY <1>9 DEF RunOK
  <1>12. ReadersOK'
    BY <1>10 DEF ReadersOK
  <1> QED BY <1>2, <1>7, <1>8, <1>11, <1>12 DEF XInv

-----------------------------------------------------------------------------
\* The iterator.

\* A run whose start() returned is running and listed, or over.
LEMMA ReturnedIs ==
    ASSUME XInv, NEW r \in Run, call[r] = "returned",
           ~(r \in runs /\ entry[r].status = "running")
    PROVE  IsTerminal(r) /\ (consumer[r] \in {"release", "ended"} \/ r \in toClose)
  <1>1. DrainOK(r) /\ consumer[r] \in {"none", "drain", "cancel", "release", "ended"}
    BY DEF XInv, RunOK, ServiceType
  <1> QED BY <1>1 DEF DrainOK

\* A cursor that was not trimmed past reads on without a gap.
LEMMA ReadAfterIs ==
    ASSUME XInv, NEW r \in Run, NEW after \in Nat, ~Expired(replay[r], after)
    PROVE  ReadAfter(replay[r], after) = (after + 1)..(replay[r].next - 1)
  <1>1. replay[r].next \in Nat /\ Oldest(replay[r]) \in Int /\ after >= Oldest(replay[r]) - 1
    BY DEF XInv, ServiceType, Oldest, Expired
  <1> QED BY <1>1 DEF ReadAfter

LEMMA CheckedIs ==
    ASSUME XInv, NEW r \in Run, call[r] = "returned", NEW d \in ReaderType,
           d.cursor < replay[r].next, d.got = d.cursor
    PROVE  Checked(r, d) \in ReaderType /\ SeenOK(r, Checked(r, d))
  <1> DEFINE e == Checked(r, d)
             rest == ReadAfter(replay[r], d.cursor)
  <1>0. d.cursor \in Nat /\ replay[r].next \in Nat /\ Oldest(replay[r]) \in Int
    BY DEF ReaderType, XInv, ServiceType, Oldest
  <1>1. CASE r \in runs /\ entry[r].status = "running"
    <2>1. e = [d EXCEPT !.pc = "wait"]
      BY <1>1 DEF Checked
    <2>2. /\ e \in ReaderType /\ e.pc = "wait"
          /\ e.cursor = d.cursor /\ e.got = d.got
      BY <2>1 DEF ReaderType
    <2> QED BY <2>2 DEF SeenOK
  <1>2. CASE ~(r \in runs /\ entry[r].status = "running") /\ Throws(r, d)
    <2>1. e = [d EXCEPT !.pc = "threw"]
      BY <1>2 DEF Checked
    <2>2. /\ e \in ReaderType /\ e.pc = "threw"
          /\ e.cursor = d.cursor /\ e.got = d.got
      BY <2>1 DEF ReaderType
    <2>3. d.cursor + 1 < Oldest(replay[r]) \/ (IsTerminal(r) /\ r \notin runs)
      <3>1. CASE r \notin runs
        BY <1>2, <3>1, ReturnedIs
      <3>2. CASE Expired(replay[r], d.cursor)
        BY <1>0, <3>2 DEF Expired
      <3> QED BY <1>2, <3>1, <3>2 DEF Throws
    <2> QED BY <2>2, <2>3 DEF SeenOK
  <1>3. CASE ~(r \in runs /\ entry[r].status = "running") /\ ~Throws(r, d)
    <2>1. rest = (d.cursor + 1)..(replay[r].next - 1)
      BY <1>0, <1>3, ReadAfterIs DEF Throws
    <2>2. rest \in SUBSET Nat /\ (rest = {} => d.cursor + 1 = replay[r].next)
      <3> DEFINE c == d.cursor
                 n == replay[r].next
      <3>1. c \in Nat /\ n \in Nat /\ c < n /\ rest = (c + 1)..(n - 1)
        BY <1>0, <2>1
      <3> HIDE DEF c, n, rest
      <3>2. rest \in SUBSET Nat /\ (rest = {} => c + 1 = n)
        <4>1. rest \in SUBSET Nat
          BY <3>1
        <4>2. c + 1 # n => c + 1 \in rest
          BY <3>1
        <4> QED BY <4>1, <4>2
      <3> QED BY <3>2 DEF c, n
    <2>3. e = [d EXCEPT !.pc = IF rest = {} THEN "done" ELSE "last", !.batch = rest]
      BY <1>3 DEF Checked
    <2>4. consumer[r] \in {"release", "ended"} \/ r \in toClose
      BY <1>3, ReturnedIs
    <2> HIDE DEF rest
    <2>5. /\ e \in ReaderType /\ e.pc \in {"done", "last"} /\ e.batch = rest
          /\ e.pc = "done" => rest = {}
          /\ e.cursor = d.cursor /\ e.got = d.got
      BY <2>2, <2>3 DEF ReaderType
    <2> HIDE DEF e
    <2>6. BatchOK(r, e)
      <3>1. replay[r].next - 1 \in 0..(replay[r].next - 1)
        BY <1>0
      <3>2. replay[r].next - 1 + 1 = replay[r].next
        BY <1>0
      <3> QED BY <2>1, <2>5, <3>1, <3>2 DEF BatchOK
    <2> QED BY <2>2, <2>4, <2>5, <2>6 DEF SeenOK, e
  <1> QED BY <1>1, <1>2, <1>3

LEMMA IteratedIs ==
    ASSUME XInv, NEW r \in Run, call[r] = "returned", NEW d \in ReaderType,
           d.cursor < replay[r].next, d.got = d.cursor
    PROVE  Iterated(r, d) \in ReaderType /\ SeenOK(r, Iterated(r, d))
  <1> DEFINE e == Iterated(r, d)
             batch == ReadAfter(replay[r], d.cursor)
  <1>0. d.cursor \in Nat /\ replay[r].next \in Nat /\ Oldest(replay[r]) \in Int
    BY DEF ReaderType, XInv, ServiceType, Oldest
  <1>1. CASE Throws(r, d)
    <2>1. e = [d EXCEPT !.pc = "threw"]
      BY <1>1 DEF Iterated
    <2>2. /\ e \in ReaderType /\ e.pc = "threw"
          /\ e.cursor = d.cursor /\ e.got = d.got
      BY <2>1 DEF ReaderType
    <2>3. d.cursor + 1 < Oldest(replay[r]) \/ (IsTerminal(r) /\ r \notin runs)
      <3>1. CASE r \notin runs
        BY <3>1, ReturnedIs
      <3>2. CASE Expired(replay[r], d.cursor)
        BY <1>0, <3>2 DEF Expired
      <3> QED BY <1>1, <3>1, <3>2 DEF Throws
    <2> QED BY <2>2, <2>3 DEF SeenOK
  <1>2. CASE ~Throws(r, d) /\ batch = {}
    <2>1. e = Checked(r, d)
      BY <1>2 DEF Iterated
    <2> QED BY <2>1, CheckedIs
  <1>3. CASE ~Throws(r, d) /\ batch # {}
    <2>1. batch = (d.cursor + 1)..(replay[r].next - 1)
      BY <1>0, <1>3, ReadAfterIs DEF Throws
    <2>2. batch \in SUBSET Nat
      BY <1>0, <2>1
    <2>3. e = [d EXCEPT !.pc = "yield", !.batch = batch]
      BY <1>3 DEF Iterated
    <2> HIDE DEF batch
    <2>4. /\ e \in ReaderType /\ e.pc = "yield" /\ e.batch = batch
          /\ e.cursor = d.cursor /\ e.got = d.got
      BY <2>2, <2>3 DEF ReaderType
    <2> HIDE DEF e
    <2>5. BatchOK(r, e)
      <3>1. replay[r].next - 1 \in 0..(replay[r].next - 1)
        BY <1>0
      <3> QED BY <2>1, <2>4, <3>1 DEF BatchOK
    <2> QED BY <2>4, <2>5 DEF SeenOK, e
  <1> QED BY <1>1, <1>2, <1>3

\* A step of the iterator of r.
LEMMA ReaderX ==
    ASSUME XInv, NEW r \in Run, NEW d \in ReaderType, SeenOK(r, d), call[r] = "returned",
           reader' = [reader EXCEPT ![r] = d],
           UNCHANGED <<call, entry, runs, retained, consumer, observed, replay, child, killed, closing, toClose>>,
           UNCHANGED laneVars
    PROVE  XInv'
  <1>1. LP!LInv' /\ \A s \in Run : Moved(s)
    BY LaneSame DEF XInv
  <1>2. ServiceType' /\ reader'[r] = d
    BY DEF XInv, ServiceType
  <1>3. RetOK' /\ ClosingKept
    BY DEF XInv, RetOK, ClosingKept, IsTerminal
  <1>4. ASSUME NEW s \in Run PROVE StartOK(s)' /\ ChildOK(s)' /\ DrainOK(s)'
    <2>1. RunKept(s)
      BY <1>1 DEF RunKept, EntryKept, ListKept
    <2> QED BY <1>3, <2>1, RunFrame DEF XInv, RunOK
  <1>5. ASSUME NEW s \in Run PROVE ReadOK(s)'
    <2>1. CASE s = r
      <3>1. ReadOK(r)
        BY DEF XInv, ReadersOK
      <3>2. SeenOK(r, reader[r])'
        BY <1>2 DEF SeenOK, BatchOK, IsTerminal
      <3> QED BY <2>1, <3>1, <3>2 DEF ReadOK
    <2>2. CASE s # r
      <3>1. ReadKept(s)
        BY <2>2 DEF ReadKept, ReaderKept, IsTerminal, XInv, ServiceType
      <3> QED BY <3>1, ReadFrame DEF XInv, ReadersOK
    <2> QED BY <2>1, <2>2
  <1>6. RunOK'
    BY <1>4 DEF RunOK
  <1>7. ReadersOK'
    BY <1>5 DEF ReadersOK
  <1> QED BY <1>1, <1>2, <1>3, <1>6, <1>7 DEF XInv

LEMMA ReadX ==
    ASSUME XInv, NEW r \in Run, Read(r)
    PROVE  XInv'
  <1>1. /\ reader[r] \in ReaderType /\ SeenOK(r, reader[r])
        /\ reader[r].pc # "none" => call[r] = "returned"
    BY DEF XInv, ServiceType, ReadersOK, ReadOK
  <1>2. call[r] = "returned"
    BY <1>1 DEF Read
  <1>3. Iterated(r, reader[r]) \in ReaderType /\ SeenOK(r, Iterated(r, reader[r]))
    BY <1>1, <1>2, IteratedIs DEF SeenOK
  <1>4. /\ reader' = [reader EXCEPT ![r] = Iterated(r, reader[r])]
        /\ UNCHANGED <<call, entry, runs, retained, consumer, observed, replay, child, killed, closing, toClose>>
        /\ UNCHANGED laneVars
    BY DEF Read, runVars, drainVars
  <1> QED BY <1>2, <1>3, <1>4, ReaderX

LEMMA YieldX ==
    ASSUME XInv, NEW r \in Run, Yield(r)
    PROVE  XInv'
  <1> DEFINE d == reader[r]
             seq == Min(d.batch)
             e == [d EXCEPT !.cursor = seq, !.got = d.got + 1, !.batch = d.batch \ {seq}]
  <1>1. /\ d \in ReaderType /\ SeenOK(r, d) /\ d.pc \in {"yield", "last"} /\ d.batch # {}
        /\ call[r] = "returned" /\ replay[r].next \in Nat
    BY DEF XInv, ServiceType, ReadersOK, ReadOK, Yield
  <1>2. PICK m \in 0..(replay[r].next - 1) :
            /\ d.batch = (d.cursor + 1)..m
            /\ d.pc = "last" => m + 1 = replay[r].next \/ r \in toClose
    BY <1>1 DEF SeenOK, BatchOK
  <1>3. d.cursor \in Nat /\ d.got = d.cursor /\ d.batch \in SUBSET Nat /\ m \in Nat
    BY <1>1, <1>2 DEF SeenOK, ReaderType
  <1>4. seq \in d.batch /\ \A n \in d.batch : seq <= n
    BY <1>1, <1>3, MinIs
  <1>5. d.cursor + 1 \in d.batch
    BY <1>1, <1>2, <1>3
  <1>6. seq = d.cursor + 1 /\ seq <= m
    BY <1>2, <1>3, <1>4, <1>5
  <1>7. d.batch \ {seq} = (seq + 1)..m
    BY <1>2, <1>3, <1>6
  <1> HIDE DEF seq
  <1>8. /\ e \in ReaderType /\ e.pc = d.pc /\ e.cursor = seq /\ e.got = d.got + 1
        /\ e.batch = (seq + 1)..m
    <2>1. seq \in Nat /\ d.got + 1 \in Nat /\ (seq + 1)..m \in SUBSET Nat
      BY <1>3, <1>6
    <2>2. e = [d EXCEPT !.cursor = seq, !.got = d.got + 1, !.batch = (seq + 1)..m]
      BY <1>7
    <2> DEFINE g == d.got + 1
               b == (seq + 1)..m
    <2> HIDE DEF g, b, e, d
    <2>3. seq \in Nat /\ g \in Nat /\ b \in SUBSET Nat /\ d \in ReaderType
      BY <1>1, <2>1 DEF g, b
    <2>4. e = [d EXCEPT !.cursor = seq, !.got = g, !.batch = b]
      BY <2>2 DEF g, b
    <2>5. e \in ReaderType /\ e.pc = d.pc /\ e.cursor = seq /\ e.got = g /\ e.batch = b
      BY <2>3, <2>4 DEF ReaderType
    <2> QED BY <2>5 DEF g, b
  <1>9. /\ reader' = [reader EXCEPT ![r] = e]
        /\ UNCHANGED <<call, entry, runs, retained, consumer, observed, replay, child, killed, closing, toClose>>
        /\ UNCHANGED laneVars
    BY DEF Yield, runVars, drainVars, seq, XInv, ServiceType, ReaderType
  <1> HIDE DEF e
  <1>10. BatchOK(r, e)
    BY <1>2, <1>8 DEF BatchOK
  <1>11. SeenOK(r, e)
    BY <1>1, <1>2, <1>3, <1>6, <1>8, <1>10 DEF SeenOK
  <1> QED BY <1>1, <1>8, <1>9, <1>11, ReaderX

LEMMA ResumeX ==
    ASSUME XInv, NEW r \in Run, Resume(r)
    PROVE  XInv'
  <1> DEFINE d == reader[r]
             e == IF d.pc = "last" THEN [d EXCEPT !.pc = "done"] ELSE Checked(r, d)
  <1>1. /\ d \in ReaderType /\ SeenOK(r, d) /\ d.pc \in {"yield", "last"} /\ d.batch = {}
        /\ call[r] = "returned" /\ replay[r].next \in Nat
    BY DEF XInv, ServiceType, ReadersOK, ReadOK, Resume
  <1>2. /\ reader' = [reader EXCEPT ![r] = e]
        /\ UNCHANGED <<call, entry, runs, retained, consumer, observed, replay, child, killed, closing, toClose>>
        /\ UNCHANGED laneVars
    BY DEF Resume, runVars, drainVars
  <1>3. e \in ReaderType /\ SeenOK(r, e)
    <2>1. CASE d.pc # "last"
      BY <1>1, <2>1, CheckedIs DEF SeenOK
    <2>2. CASE d.pc = "last"
      <3>1. PICK m \in 0..(replay[r].next - 1) :
                /\ d.batch = (d.cursor + 1)..m
                /\ m + 1 = replay[r].next \/ r \in toClose
        BY <1>1, <2>2 DEF SeenOK, BatchOK
      <3>2. d.cursor \in Nat /\ d.cursor < replay[r].next
        BY <1>1 DEF SeenOK, ReaderType
      <3>3. d.cursor + 1 = replay[r].next \/ r \in toClose
        <4> DEFINE c == d.cursor
                   n == replay[r].next
        <4>1. c \in Nat /\ n \in Nat /\ c < n /\ m \in Nat /\ c + 1 \notin (c + 1)..m
          <5>1. (c + 1)..m = {}
            BY <1>1, <3>1
          <5>2. c + 1 \notin (c + 1)..m
            BY <5>1
          <5>3. m \in Nat
            BY <1>1, <3>1
          <5> QED BY <1>1, <3>2, <5>2, <5>3
        <4> HIDE DEF c, n
        <4>2. m <= c
          BY <4>1
        <4>3. m + 1 = n => c + 1 = n
          BY <4>1, <4>2
        <4> QED BY <3>1, <4>3 DEF c, n
      <3>4. e = [d EXCEPT !.pc = "done"]
        BY <2>2
      <3>5. e \in ReaderType /\ e.pc = "done" /\ e.cursor = d.cursor /\ e.got = d.got
        BY <1>1, <3>4 DEF ReaderType
      <3> QED BY <1>1, <2>2, <3>3, <3>5 DEF SeenOK
    <2> QED BY <2>1, <2>2
  <1> HIDE DEF e
  <1> QED BY <1>1, <1>2, <1>3, ReaderX

-----------------------------------------------------------------------------
LEMMA InitX == Init => XInv
  <1> SUFFICES ASSUME Init PROVE XInv
    OBVIOUS
  <1>1. LP!LInv
    <2>1. LP!LaneInit
      BY DEF Init, L!LaneInit, LP!LaneInit, L!NoOwner, LP!NoOwner
    <2> QED BY <2>1, LP!InitLInv, OwnerFact
  <1>2. phase = [r \in Run |-> "idle"]
    BY DEF Init, L!LaneInit
  <1>3. PICK q \in Requests : entry = [r \in Run |-> NewEntry(q[r])]
    BY DEF Init
  <1>4. \A r \in Run : q[r] \in Request
    BY RequestAssumption
  <1>5. ASSUME NEW r \in Run
        PROVE  /\ entry[r] \in EntryType /\ entry[r].status = "none" /\ ~entry[r].session
               /\ entry[r].request = q[r]
    <2>1. entry[r] = [request |-> q[r], status |-> "none", cancelRequested |-> FALSE, session |-> FALSE]
      BY <1>3 DEF NewEntry
    <2> QED BY <1>4, <2>1 DEF EntryType
  <1>6. entry \in [Run -> EntryType]
    BY <1>3, <1>5
  <1>7. ASSUME NEW r \in Run
        PROVE  /\ replay[r] = [sizes |-> <<>>, next |-> 1]
               /\ replay[r] \in [sizes : Seq(Sizes), next : Nat]
    BY DEF Init, EmptyBuffer
  <1>8. ASSUME NEW r \in Run
        PROVE  /\ reader[r] = [pc |-> "none", cursor |-> 0, got |-> 0, batch |-> {}]
               /\ reader[r] \in ReaderType
    BY DEF Init, ReaderType
  <1>9. ServiceType
    <2>1. replay \in [Run -> [sizes : Seq(Sizes), next : Nat]]
      BY <1>7 DEF Init
    <2>2. reader \in [Run -> ReaderType]
      BY <1>8 DEF Init
    <2>3. retained \in Seq(Run)
      BY DEF Init
    <2> QED BY <1>6, <2>1, <2>2, <2>3 DEF Init, ServiceType, Pending
  <1>10. RunOK
    BY <1>2, <1>5 DEF RunOK, StartOK, ChildOK, DrainOK, Init, IsTerminal
  <1>11. RetOK
    BY FS_EmptySet DEF RetOK, Init
  <1>12. ASSUME NEW r \in Run PROVE ReadOK(r)
    <2>1. replay[r].next = 1 /\ reader[r].pc = "none" /\ reader[r].cursor = 0 /\ reader[r].got = 0
      BY <1>7, <1>8
    <2>2. entry[r].request.events \in Nat
      BY <1>4, <1>5 DEF Request
    <2>3. 1 \in 1..(entry[r].request.events + 1) /\ 0 < 1
      BY <2>2
    <2> QED BY <2>1, <2>3 DEF ReadOK, SeenOK
  <1>13. ReadersOK
    BY <1>12 DEF ReadersOK
  <1> QED BY <1>1, <1>9, <1>10, <1>11, <1>13 DEF XInv

LEMMA StutterX ==
    ASSUME XInv, UNCHANGED vars
    PROVE  XInv'
  <1>1. /\ UNCHANGED <<call, entry, runs, retained, consumer, observed, replay, child, killed, reader, closing, toClose>>
        /\ UNCHANGED laneVars
    BY DEF vars, runVars, drainVars
  <1>2. LP!LInv' /\ \A s \in Run : Moved(s)
    BY <1>1, LaneSame DEF XInv
  <1>3. phase' = phase
    BY <1>1 DEF laneVars
  <1>4. ServiceType'
    BY <1>1 DEF XInv, ServiceType
  <1>5. RunOK'
    BY <1>1, <1>3 DEF XInv, RunOK, StartOK, ChildOK, DrainOK, IsTerminal, Preregistered
  <1>6. RetOK'
    BY <1>1 DEF XInv, RetOK, IsTerminal
  <1>7. ReadersOK'
    BY <1>1 DEF XInv, ReadersOK, ReadOK, SeenOK, BatchOK, IsTerminal
  <1> QED BY <1>2, <1>4, <1>5, <1>6, <1>7 DEF XInv

LEMMA StepX ==
    ASSUME XInv, [Next]_vars
    PROVE  XInv'
  <1>1. CASE UNCHANGED vars
    BY <1>1, StutterX
  <1>2. ASSUME NEW r \in Run, StartStep(r) PROVE XInv'
    BY <1>2, ResolveFailsX, AcquireLaneX, LaneAnswersX, ClientFailsX, StartedLateX, StartedX,
       CatchX, FinalizedX DEF StartStep
  <1>3. ASSUME NEW r \in Run, DrainStep(r) PROVE XInv'
    BY <1>3, DrainedX, ReleaseRunX DEF DrainStep
  <1>4. ASSUME NEW r \in Run, ReadStep(r) PROVE XInv'
    BY <1>4, ReadX, YieldX, ResumeX DEF ReadStep
  <1>5. ASSUME NEW r \in Run,
               \/ StartPlain(r) \/ StartQueued(r) \/ Spawn(r) \/ Die(r)
               \/ TerminationFails(r) \/ StreamFails(r) \/ Cancel(r)
        PROVE XInv'
    BY <1>5, StartX, ChildX, StreamFailsX, CancelX
  <1>6. ASSUME NEW r \in Run, NEW kind \in {"output", "done", "failed", "internal"},
               NEW size \in Sizes, Record(r, kind, size)
        PROVE XInv'
    BY <1>6, RecordX
  <1>7. CASE Close \/ CloseCancelled \/ CloseSettles \/ ShutLane
    BY <1>7, CloseX, CloseCancelledX, CloseSettlesX
  <1> QED BY <1>1, <1>2, <1>3, <1>4, <1>5, <1>6, <1>7 DEF Next

(* The invariant of the service, its readers and the lane it waits for.    *)
(* Source: the start(), #consume, #settle, cancel() and close() of         *)
(* service.ts and the handle's iterator.                                   *)
THEOREM ExecInvariance == Spec => []XInv
  <1>1. Init => XInv
    BY InitX
  <1>2. XInv /\ [Next]_vars => XInv'
    BY StepX
  <1> QED BY <1>1, <1>2, PTL DEF Spec

(* Types: in particular #terminalRuns only lists runs that #runs still     *)
(* has, and a buffer's sequence numbers stay in step with the events.      *)
THEOREM TypeOKHolds == Spec => []TypeOK
  <1>1. XInv => TypeOK
    <2> SUFFICES ASSUME XInv PROVE TypeOK
      OBVIOUS
    <2>1. L!LaneTypeOK
      <3>1. LP!LaneTypeOK
        BY DEF XInv, LP!LInv
      <3> QED BY <3>1 DEF LP!LaneTypeOK, L!LaneTypeOK, L!Owner, LP!Owner, L!NoOwner, LP!NoOwner,
                          L!Phases, LP!Phases
    <2>2. ToSet(retained) \subseteq runs
      <3>1. \A i \in DOMAIN retained : retained[i] \in runs
        BY DEF XInv, RetOK
      <3> QED BY <3>1 DEF ToSet
    <2>3. \A r \in Run : /\ replay[r].sizes \in Seq(Sizes)
                         /\ replay[r].next \in 1..(entry[r].request.events + 1)
      BY DEF XInv, ServiceType, ReadersOK, ReadOK
    <2> QED BY <2>1, <2>2, <2>3 DEF XInv, ServiceType, TypeOK, EntryType, ReaderType
  <1> QED BY <1>1, ExecInvariance, PTL

(* The agent of a run that is over, or of a closed service, was told to    *)
(* stop unless its start() is still to return and will find out, an agent  *)
(* whose stop could not be confirmed included.                             *)
THEOREM NoOrphanHolds == Spec => []NoOrphan
  <1>1. XInv => NoOrphan
    <2> SUFFICES ASSUME XInv, NEW r \in Run, child[r] \in {"live", "loose"},
                        IsTerminal(r) \/ closing = "closed", call[r] # "client"
                 PROVE  r \in killed
      BY DEF NoOrphan
    <2>1. /\ ChildOK(r) /\ DrainOK(r)
          /\ consumer[r] \in {"none", "drain", "cancel", "release", "ended"}
      BY DEF XInv, RunOK, ServiceType
    <2>2. CASE child[r] = "loose" \/ closing = "closed" \/ call[r] = "undo" \/ consumer[r] = "cancel"
      BY <2>1, <2>2 DEF ChildOK
    <2>3. CASE child[r] = "live" /\ closing # "closed" /\ call[r] # "undo" /\ consumer[r] # "cancel"
      <3>1. consumer[r] = "drain"
        BY <2>1, <2>3 DEF ChildOK, DrainOK
      <3>2. entry[r].status = "running"
        BY <2>1, <2>3, <3>1 DEF DrainOK
      <3> QED BY <2>3, <3>2 DEF IsTerminal, Terminal
    <2> QED BY <2>2, <2>3
  <1> QED BY <1>1, ExecInvariance, PTL

(* hasActiveRuns() of an open service sees every live agent that a session *)
(* answers for.  One whose session gave up stopping it ("loose") it does   *)
(* not see.                                                                *)
THEOREM ActiveSeenHolds == Spec => []ActiveSeen
  <1>1. XInv => ActiveSeen
    <2> SUFFICES ASSUME XInv, closing = "open", NEW r \in Run, child[r] = "live"
                 PROVE  HasActiveRuns
      BY DEF ActiveSeen
    <2>1. /\ ChildOK(r) /\ DrainOK(r)
          /\ consumer[r] \in {"none", "drain", "cancel", "release", "ended"}
      BY DEF XInv, RunOK, ServiceType
    <2>2. CASE call[r] \in {"client", "undo"}
      BY <2>2 DEF HasActiveRuns, Pending
    <2>3. CASE call[r] = "returned"
      <3>1. consumer[r] \in {"drain", "cancel"}
        BY <2>1, <2>3 DEF ChildOK, DrainOK
      <3> QED BY <2>1, <3>1 DEF DrainOK, HasActiveRuns
    <2> QED BY <2>1, <2>2, <2>3 DEF ChildOK
  <1> QED BY <1>1, ExecInvariance, PTL

(* At most one run with a desktop operation has a live agent that a        *)
(* session answers for (not counting one whose session gave up stopping    *)
(* it), and whoever has the lane still has a start() or a drain loop that  *)
(* gives it back.                                                          *)
THEOREM OneDesktopHolds == Spec => []OneDesktop
  <1>1. XInv => OneDesktop
    <2> SUFFICES ASSUME XInv PROVE OneDesktop
      OBVIOUS
    <2> DEFINE D == {r \in Run : Preregistered(r) /\ child[r] = "live"}
    <2>1. ASSUME NEW r \in Run
          PROVE  /\ StartOK(r) /\ ChildOK(r) /\ DrainOK(r)
                 /\ consumer[r] \in {"none", "drain", "cancel", "release", "ended"}
                 /\ call[r] \in Pending \cup {"none", "returned", "rejected"}
      BY DEF XInv, RunOK, ServiceType
    <2>2. ASSUME NEW r \in D PROVE r = lane.owner
      <3>1. phase[r] = "held"
        <4>1. CASE call[r] \in {"client", "undo"}
          BY <2>1, <4>1 DEF StartOK
        <4>2. CASE call[r] = "returned"
          <5>1. consumer[r] \in {"drain", "cancel"}
            BY <2>1, <4>2 DEF ChildOK, DrainOK
          <5> QED BY <2>1, <5>1 DEF DrainOK
        <4> QED BY <2>1, <4>1, <4>2 DEF ChildOK
      <3>2. r \in LP!Holders
        BY <3>1 DEF LP!Holders
      <3> QED BY <3>2 DEF XInv, LP!LInv, LP!RestOK
    <2>3. D \subseteq {lane.owner}
      BY <2>2
    <2>4. Cardinality(D) <= 1
      <3>1. IsFiniteSet({lane.owner}) /\ Cardinality({lane.owner}) = 1
        BY FS_Singleton
      <3> QED BY <2>3, <3>1, FS_Subset
    <2>5. ASSUME NEW r \in Run, phase[r] = "held"
          PROVE  \/ call[r] \in {"lane", "client", "undo", "catch"}
                 \/ consumer[r] \in {"drain", "cancel", "release"}
      BY <2>1, <2>5 DEF StartOK, DrainOK, Pending
    <2> QED BY <2>4, <2>5 DEF OneDesktop
  <1> QED BY <1>1, ExecInvariance, PTL

(* An iterator yields every event once and in order, ends only when none   *)
(* is left, and fails only if its events are gone.                         *)
THEOREM ReaderCompleteHolds == Spec => []ReaderComplete
  <1>1. XInv => ReaderComplete
    <2> SUFFICES ASSUME XInv, NEW r \in Run
                 PROVE  /\ reader[r].got = reader[r].cursor
                        /\ reader[r].pc = "done" => reader[r].cursor = replay[r].next - 1
                                                      \/ r \in toClose
                        /\ reader[r].pc = "threw" =>
                             reader[r].cursor + 1 < Oldest(replay[r]) \/ (IsTerminal(r) /\ r \notin runs)
      BY DEF ReaderComplete
    <2>1. SeenOK(r, reader[r]) /\ reader[r].cursor \in Nat /\ replay[r].next \in Nat
      BY DEF XInv, ReadersOK, ReadOK, ServiceType, ReaderType
    <2>2. reader[r].cursor + 1 = replay[r].next => reader[r].cursor = replay[r].next - 1
      BY <2>1
    <2> QED BY <2>1, <2>2 DEF SeenOK
  <1> QED BY <1>1, ExecInvariance, PTL

\* No step changes the status of a run that is over.
LEMMA TerminalStep ==
    ASSUME XInv, [Next]_vars, NEW s \in Run, IsTerminal(s)
    PROVE  entry'[s].status = entry[s].status
  <1>0. ServiceType /\ RetOK /\ entry \in [Run -> EntryType] /\ toClose \subseteq Run
    BY DEF XInv, ServiceType
  <1>1. CASE UNCHANGED entry
    BY <1>1
  <1>2. ASSUME NEW r \in Run, StartPlain(r) \/ StartQueued(r) \/ Started(r)
        PROVE  entry'[s].status = entry[s].status
    <2>1. r # s
      BY <1>2 DEF StartPlain, StartQueued, Started, XInv, RunOK, StartOK, IsTerminal, Terminal
    <2> QED BY <1>0, <1>2, <2>1 DEF StartPlain, StartQueued, Started, Bind
  <1>3. ASSUME NEW rs \in SUBSET Run, Settle(rs, entry) PROVE entry'[s].status = entry[s].status
    BY <1>0, <1>3, SettleIs DEF EntryKept
  <1>4. ASSUME NEW r \in Run, Cancel(r) PROVE entry'[s].status = entry[s].status
    <2> DEFINE es == Requested({r})
    <2>1. /\ es \in [Run -> EntryType]
          /\ \A q \in Run : /\ es[q].status = entry[q].status
                             /\ es[q].session = entry[q].session
                             /\ es[q].request = entry[q].request
      BY <1>0, RequestedIs
    <2> HIDE DEF es
    <2>2. Settle({r}, es) \/ entry' = es
      BY <1>4 DEF Cancel, CancelQueued, CancelSession, es
    <2>3. {r} \in SUBSET Run
      OBVIOUS
    <2> QED BY <1>0, <2>1, <2>2, <2>3, SettleIs DEF EntryKept
  <1>5. CASE Close
    BY <1>0, <1>5, RequestedIs DEF Close
  <1>6. CASE CloseSettles
    BY <1>0, <1>3, <1>6 DEF CloseSettles
  <1>7. ASSUME NEW r \in Run, Finalized(r) \/ StreamEnds(r) \/ StreamCancelled(r)
        PROVE  entry'[s].status = entry[s].status
    <2>1. {r} \in SUBSET Run
      OBVIOUS
    <2>2. Settle({r}, entry) \/ UNCHANGED entry
      BY <1>7 DEF Finalized, StreamEnds, StreamCancelled, Drained
    <2> QED BY <1>1, <1>3, <2>1, <2>2
  <1>8. CASE CloseCancelled \/ ShutLane \/ UNCHANGED vars
    BY <1>1, <1>8 DEF CloseCancelled, ShutLane, vars, runVars
  <1>9. ASSUME NEW r \in Run,
               \/ Spawn(r) \/ Die(r) \/ TerminationFails(r) \/ StreamFails(r) \/ ReleaseRun(r)
               \/ \E kind \in {"output", "done", "failed", "internal"}, size \in Sizes : Record(r, kind, size)
        PROVE  UNCHANGED entry
    BY <1>9 DEF Spawn, Die, TerminationFails, StreamFails, ReleaseRun, Record, runVars
  <1>10. ASSUME NEW r \in Run,
                \/ ResolveFails(r) \/ AcquireLane(r) \/ LaneAnswers(r) \/ ClientFails(r)
                \/ StartedLate(r) \/ Undone(r) \/ Catch(r)
         PROVE  UNCHANGED entry
    BY <1>10 DEF ResolveFails, AcquireLane, LaneAnswers, ClientFails, StartedLate, Undone, Catch, Goto
  <1>11. ASSUME NEW r \in Run, Read(r) \/ Yield(r) \/ Resume(r) PROVE UNCHANGED entry
    BY <1>11 DEF Read, Yield, Resume, runVars
  <1>12. ASSUME NEW r \in Run, StartStep(r) \/ DrainStep(r) \/ ReadStep(r)
         PROVE  entry'[s].status = entry[s].status
    BY <1>1, <1>2, <1>7, <1>9, <1>10, <1>11, <1>12 DEF StartStep, DrainStep, ReadStep
  <1> QED BY <1>1, <1>2, <1>4, <1>5, <1>6, <1>8, <1>9, <1>12 DEF Next

(* A terminal run never changes its status: a late frame, a second         *)
(* settlement or a start that resolves after a cancel leaves it alone.     *)
THEOREM TerminalFinalHolds == Spec => TerminalFinal
  <1>1. XInv /\ [Next]_vars
          => [\A r \in Run : IsTerminal(r) => entry'[r].status = entry[r].status]_vars
    BY TerminalStep
  <1> QED BY <1>1, ExecInvariance, PTL DEF Spec, TerminalFinal
===============================================================================
