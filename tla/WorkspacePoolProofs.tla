------------------------- MODULE WorkspacePoolProofs -------------------------
(***************************************************************************)
(* The workspace pool implements the leases its callers rely on, for every *)
(* number of leases, keys, sizes, limits and identifiers.                  *)
(***************************************************************************)
EXTENDS WorkspacePool, TLAPS, FiniteSetTheorems

LeaseRecord == [requests : Seq(Request), segments : Seq(Entry)]
PendingEntry == [entry : Entry, reused : BOOLEAN]

Typed ==
  /\ idle \subseteq Entry /\ IsFiniteSet(idle)
  /\ clock \in Nat /\ nextId \in Nat
  /\ lease \in [Lease -> LeaseRecord \cup {NoLease}]
  /\ requests \in Seq(Request) /\ pending \in Seq(PendingEntry)
  /\ returning \in Seq(Entry)

\* What the operation that holds the mutex has established.
Locked ==
  /\ phase # "acquire" => pending = <<>>
  /\ phase # "trim" => returning = <<>>
  /\ phase = "acquire" => /\ caller \in Lease /\ lease[caller] = NoLease
                          /\ Len(pending) <= Len(requests)

\* Every segment taken so far serves its request.
Serving ==
  \A i \in DOMAIN pending :
    /\ pending[i].entry.key = requests[i].key
    /\ pending[i].entry.capacity >= requests[i].bytes

ReusedAt == {i \in DOMAIN pending : pending[i].reused}
Leased(l) == lease[l].segments

\* Every identifier in the pool has been issued.
Issued ==
  /\ \A e \in idle : e.id < nextId
  /\ \A i \in ReusedAt : pending[i].entry.id < nextId
  /\ \A i \in DOMAIN returning : returning[i].id < nextId
  /\ \A l \in Live : \A i \in DOMAIN Leased(l) : Leased(l)[i].id < nextId

\* No identifier is at two places ...
Distinct ==
  /\ \A e, f \in idle : e.id = f.id => e = f
  /\ \A i, j \in ReusedAt : pending[i].entry.id = pending[j].entry.id => i = j
  /\ \A i, j \in DOMAIN returning : returning[i].id = returning[j].id => i = j
  /\ \A l, m \in Live : \A i \in DOMAIN Leased(l), j \in DOMAIN Leased(m) :
       Leased(l)[i].id = Leased(m)[j].id => l = m /\ i = j

\* ... nor at places of different kinds.
Apart ==
  /\ \A e \in idle : \A i \in ReusedAt : e.id # pending[i].entry.id
  /\ \A e \in idle : \A i \in DOMAIN returning : e.id # returning[i].id
  /\ \A l \in Live : \A i \in DOMAIN Leased(l) :
       /\ \A e \in idle : e.id # Leased(l)[i].id
       /\ \A j \in ReusedAt : pending[j].entry.id # Leased(l)[i].id
       /\ \A j \in DOMAIN returning : returning[j].id # Leased(l)[i].id

IInv == Typed /\ Locked /\ Serving /\ Issued /\ Distinct /\ Apart

\* Initially the pool is empty.
LEMMA InitInv == Init => IInv
<1> SUFFICES ASSUME Init PROVE IInv
  OBVIOUS
<1>1. Typed
  BY FS_EmptySet DEF Init, Typed
<1>2. Locked /\ Serving /\ Issued /\ Distinct /\ Apart
  BY DEF Init, Locked, Serving, Issued, Distinct, Apart, ReusedAt, Live, Leased
<1> QED BY <1>1, <1>2 DEF IInv

\* Acquire only takes the mutex.
LEMMA AcquireInv ==
  ASSUME IInv, NEW l \in Lease, NEW reqs \in Seq(Request), Acquire(l, reqs)
  PROVE  IInv'
<1> USE DEF Acquire, IInv, counters
<1>1. Typed'
  BY DEF Typed
<1>2. Locked'
  BY DEF Locked, Typed
<1>3. Serving'
  BY DEF Serving
<1>4. ReusedAt' = {} /\ Live' = Live
  BY DEF ReusedAt, Live
<1>5. Issued' /\ Distinct' /\ Apart'
  BY <1>4 DEF Issued, Distinct, Apart, Leased
<1> QED BY <1>1, <1>2, <1>3, <1>5

\* The next request is one of the requests.
LEMMA WantedIsRequest ==
  ASSUME IInv, Unserved
  PROVE  /\ Len(pending) + 1 \in DOMAIN requests
         /\ Wanted = requests[Len(pending) + 1] /\ Wanted \in Request
BY DEF IInv, Typed, Locked, Unserved, Wanted

\* A step that appends p to pending and leaves leases and counters alone.
LEMMA AppendPending ==
  ASSUME Typed, NEW p \in PendingEntry, pending' = Append(pending, p)
  PROVE  /\ pending' \in Seq(PendingEntry) /\ Len(pending') = Len(pending) + 1
         /\ DOMAIN pending = 1 .. Len(pending)
         /\ DOMAIN pending' = 1 .. Len(pending) + 1
         /\ \A i \in DOMAIN pending : i \in DOMAIN pending' /\ pending'[i] = pending[i]
         /\ pending'[Len(pending) + 1] = p
BY DEF Typed

\* Reuse moves the best fit from the idle set to the acquisition.
LEMMA ReuseInv == ASSUME IInv, Reuse PROVE IInv'
<1>1. PICK e \in idle : /\ BestFit(e) /\ idle' = idle \ {e}
                        /\ pending' = Append(pending, [entry |-> e, reused |-> TRUE])
  BY DEF Reuse
<1> DEFINE p == [entry |-> e, reused |-> TRUE]
           n == Len(pending) + 1
<1>2. /\ UNCHANGED <<lease, returning, nextId, clock, requests, phase, caller>>
      /\ phase = "acquire" /\ Unserved
  BY DEF Reuse, Unserved
<1>3. p \in PendingEntry /\ p.reused = TRUE /\ p.entry = e
  BY <1>1 DEF IInv, Typed, PendingEntry
<1>4. /\ pending' \in Seq(PendingEntry) /\ Len(pending') = n
      /\ DOMAIN pending = 1 .. Len(pending) /\ Len(pending) \in Nat
      /\ DOMAIN pending' = 1 .. n
      /\ \A i \in DOMAIN pending : i \in DOMAIN pending' /\ pending'[i] = pending[i]
      /\ pending'[n] = p
  BY <1>1, <1>3, AppendPending DEF IInv, Typed
<1>5. e.key = requests[n].key /\ e.capacity >= requests[n].bytes /\ n \in DOMAIN requests
  BY <1>1, <1>2, WantedIsRequest DEF BestFit, Fitting
<1> HIDE DEF p, n
<1>6. Typed'
  BY <1>1, <1>2, <1>4, FS_RemoveElement DEF IInv, Typed
<1>7. Locked' 
  <2>1. Len(pending') <= Len(requests')
    BY <1>2, <1>4, <1>5 DEF IInv, Typed, n
  <2> QED BY <1>2, <2>1 DEF IInv, Locked
<1>8. Serving'
  BY <1>2, <1>3, <1>4, <1>5 DEF IInv, Serving, n
<1>9. Live' = Live /\ \A l \in Live : Leased(l)' = Leased(l)
  BY <1>2 DEF Live, Leased
<1>10. /\ ReusedAt' = ReusedAt \cup {n}
       /\ \A i \in ReusedAt : i \in DOMAIN pending /\ pending'[i] = pending[i] /\ i # n
  BY <1>3, <1>4 DEF ReusedAt, n
<1>11. Issued'
  BY <1>1, <1>2, <1>3, <1>4, <1>9, <1>10 DEF IInv, Issued
<1>12. Distinct'
  BY <1>1, <1>2, <1>3, <1>4, <1>9, <1>10 DEF IInv, Distinct, Apart
<1>13. Apart'
  BY <1>1, <1>2, <1>3, <1>4, <1>9, <1>10 DEF IInv, Distinct, Apart
<1> QED BY <1>6, <1>7, <1>8, <1>11, <1>12, <1>13 DEF IInv

\* The image of a finite set under a function is finite.
LEMMA FiniteImage ==
  ASSUME NEW S, IsFiniteSet(S), NEW f, DOMAIN f = S, f = [x \in S |-> f[x]]
  PROVE  IsFiniteSet({f[x] : x \in S})
<1> DEFINE T == {f[x] : x \in S}
<1>1. f \in Surjection(S, T)
  BY DEF Surjection
<1> QED BY <1>1, FS_Surjection

LEMMA ReusedFinite ==
  ASSUME Typed
  PROVE  /\ Reused = {pending[i].entry : i \in ReusedAt}
         /\ Reused \subseteq Entry /\ IsFiniteSet(Reused)
<1>1. Reused = {pending[i].entry : i \in ReusedAt}
  BY DEF Reused, ReusedAt
<1>2. Reused \subseteq Entry
  <2>1. \A i \in DOMAIN pending : pending[i] \in PendingEntry
    BY DEF Typed
  <2>2. \A i \in DOMAIN pending : pending[i].entry \in Entry
    BY <2>1 DEF PendingEntry
  <2> QED BY <1>1, <2>2 DEF ReusedAt
<1>3. IsFiniteSet(ReusedAt)
  <2>1. ReusedAt \in SUBSET (1 .. Len(pending)) /\ Len(pending) \in Nat
    BY DEF Typed, ReusedAt
  <2>2. IsFiniteSet(1 .. Len(pending))
    BY <2>1, FS_Interval
  <2> QED BY <2>1, <2>2, FS_Subset
<1>4. IsFiniteSet(Reused)
  <2> DEFINE f == [i \in ReusedAt |-> pending[i].entry]
  <2>1. IsFiniteSet({f[i] : i \in ReusedAt})
    BY <1>3, FiniteImage
  <2>2. {f[i] : i \in ReusedAt} = Reused
    BY <1>1
  <2> QED BY <2>1, <2>2
<1> QED BY <1>1, <1>2, <1>4

\* Rollback puts the reused segments back where they came from.
LEMMA RollbackInv == ASSUME IInv, phase = "acquire", Rollback PROVE IInv'
<1>1. /\ idle' = idle \cup Reused /\ pending' = <<>> /\ requests' = <<>>
      /\ phase' = "unlocked"
      /\ UNCHANGED <<lease, returning, nextId, clock>>
  BY DEF Rollback
<1>2. Reused = {pending[i].entry : i \in ReusedAt} /\ Reused \subseteq Entry
  BY ReusedFinite DEF IInv
<1>3. Typed'
  <2>1. IsFiniteSet(idle \cup Reused)
    BY ReusedFinite, FS_Union DEF IInv, Typed
  <2> QED BY <1>1, <1>2, <2>1 DEF IInv, Typed
<1>4. Locked'
  BY <1>1 DEF IInv, Locked
<1>5. Serving'
  BY <1>1 DEF Serving
<1>6. ReusedAt' = {} /\ Live' = Live /\ \A l \in Live : Leased(l)' = Leased(l)
  BY <1>1 DEF ReusedAt, Live, Leased
<1>7. Issued'
  BY <1>1, <1>2, <1>6 DEF IInv, Issued
<1>8. Distinct'
  BY <1>1, <1>2, <1>6 DEF IInv, Distinct, Apart
<1>9. Apart'
  BY <1>1, <1>2, <1>6 DEF IInv, Apart, Locked
<1> QED BY <1>3, <1>4, <1>5, <1>7, <1>8, <1>9 DEF IInv

\* Allocate adds a segment that has no identifier yet.
LEMMA AllocateInv == ASSUME IInv, NEW capacity \in Bytes, Allocate(capacity) PROVE IInv'
<1> DEFINE e == [id |-> 0, key |-> Wanted.key, capacity |-> capacity, last_used |-> 0]
           p == [entry |-> e, reused |-> FALSE]
           n == Len(pending) + 1
<1>1. /\ pending' = Append(pending, p)
      /\ UNCHANGED <<idle, lease, returning, nextId, clock, requests, phase, caller>>
      /\ phase = "acquire" /\ Unserved /\ capacity >= Wanted.bytes
  BY DEF Allocate, counters, Misses, Unserved
<1>2. n \in DOMAIN requests /\ Wanted = requests[n] /\ Wanted \in Request
  BY <1>1, WantedIsRequest
<1>3. p \in PendingEntry /\ p.reused = FALSE /\ p.entry.key = requests[n].key
      /\ p.entry.capacity >= requests[n].bytes
  BY <1>1, <1>2 DEF PendingEntry, Entry, Request
<1> HIDE DEF p
<1>4. /\ pending' \in Seq(PendingEntry) /\ Len(pending') = n
      /\ DOMAIN pending = 1 .. Len(pending) /\ Len(pending) \in Nat
      /\ DOMAIN pending' = 1 .. n
      /\ \A i \in DOMAIN pending : i \in DOMAIN pending' /\ pending'[i] = pending[i]
      /\ pending'[n] = p
  BY <1>1, <1>3, AppendPending DEF IInv, Typed
<1>5. Typed'
  BY <1>1, <1>4 DEF IInv, Typed
<1>6. Locked'
  <2>1. Len(pending') <= Len(requests')
    BY <1>1, <1>2, <1>4 DEF IInv, Typed
  <2> QED BY <1>1, <2>1 DEF IInv, Locked
<1>7. Serving'
  BY <1>1, <1>3, <1>4 DEF IInv, Serving
<1>8. /\ Live' = Live /\ \A l \in Live : Leased(l)' = Leased(l)
      /\ UNCHANGED <<idle, returning, nextId>>
      /\ ReusedAt' = ReusedAt
      /\ \A i \in ReusedAt : pending'[i] = pending[i]
  BY <1>1, <1>3, <1>4 DEF Live, Leased, ReusedAt
<1>9. Issued'
  BY <1>8 DEF IInv, Issued
<1>10. Distinct'
  BY <1>8 DEF IInv, Distinct
<1>11. Apart'
  BY <1>8 DEF IInv, Apart
<1> QED BY <1>5, <1>6, <1>7, <1>9, <1>10, <1>11 DEF IInv

\* A smaller idle set.
LEMMA ShrinkInv ==
  ASSUME IInv, idle' \subseteq idle, phase' \in {phase, "unlocked"},
         phase' = "unlocked" => pending = <<>> /\ returning = <<>>,
         UNCHANGED <<lease, returning, nextId, clock, requests, pending, caller>>
  PROVE  IInv'
<1>1. Typed'
  BY FS_Subset DEF IInv, Typed
<1>2. Locked'
  BY DEF IInv, Locked
<1>3. Serving'
  BY DEF IInv, Serving
<1>4. ReusedAt' = ReusedAt /\ Live' = Live /\ \A l \in Live : Leased(l)' = Leased(l)
  BY DEF ReusedAt, Live, Leased
<1>5. Issued' /\ Distinct' /\ Apart'
  BY <1>4 DEF IInv, Issued, Distinct, Apart
<1> QED BY <1>1, <1>2, <1>3, <1>5 DEF IInv

\* Another operation takes the mutex.
LEMMA RelockInv ==
  ASSUME IInv, phase = "unlocked", phase' = "trim", idle' = idle,
         UNCHANGED <<lease, returning, nextId, clock, requests, pending, caller>>
  PROVE  IInv'
<1>1. Typed'
  BY DEF IInv, Typed
<1>2. Locked' /\ Serving'
  BY DEF IInv, Locked, Serving
<1>3. ReusedAt' = ReusedAt /\ Live' = Live /\ \A l \in Live : Leased(l)' = Leased(l)
  BY DEF ReusedAt, Live, Leased
<1>4. Issued' /\ Distinct' /\ Apart'
  BY <1>3 DEF IInv, Issued, Distinct, Apart
<1> QED BY <1>1, <1>2, <1>4 DEF IInv

\* A live lease holds a sequence of segments.
LEMMA LeasedSegments ==
  ASSUME Typed, NEW l \in Live
  PROVE  /\ lease[l] \in LeaseRecord /\ Leased(l) \in Seq(Entry)
         /\ \A i \in DOMAIN Leased(l) : Leased(l)[i] \in Entry
<1>1. lease[l] \in LeaseRecord
  BY DEF Typed, Live
<1>2. Leased(l) \in Seq(Entry)
  BY <1>1 DEF LeaseRecord, Leased
<1> QED BY <1>1, <1>2

\* The segments of a dropped lease are on their way to the idle set.
LEMMA DropInv == ASSUME IInv, NEW l \in Lease, Drop(l) PROVE IInv'
<1>1. /\ phase = "unlocked" /\ lease[l] # NoLease
      /\ returning' = Leased(l) /\ lease' = [lease EXCEPT ![l] = NoLease]
      /\ phase' = "trim"
      /\ UNCHANGED <<idle, clock, nextId, caller, requests, pending>>
  BY DEF Drop, Leased, acquiring
<1>2. l \in Live /\ pending = <<>> /\ returning = <<>> /\ ReusedAt = {}
  BY <1>1 DEF Live, IInv, Locked, ReusedAt
<1>3. Live' = Live \ {l} /\ \A m \in Live' : Leased(m)' = Leased(m)
  BY <1>1 DEF Live, Leased, IInv, Typed
<1>4. Typed'
  <2>1. returning' \in Seq(Entry)
    BY <1>1, <1>2, LeasedSegments DEF IInv
  <2>2. lease' \in [Lease -> LeaseRecord \cup {NoLease}]
    BY <1>1 DEF IInv, Typed
  <2> QED BY <1>1, <2>1, <2>2 DEF IInv, Typed
<1>5. Locked'
  BY <1>1, <1>2 DEF Locked
<1>6. Serving'
  BY <1>1 DEF IInv, Serving
<1>7. ReusedAt' = {}
  BY <1>1, <1>2 DEF ReusedAt
<1>8. UNCHANGED <<idle, nextId>> /\ returning' = Leased(l)
  BY <1>1
<1>9. Issued'
  BY <1>2, <1>3, <1>7, <1>8 DEF IInv, Issued
<1>10. Distinct'
  BY <1>2, <1>3, <1>7, <1>8 DEF IInv, Distinct
<1>11. Apart'
  BY <1>2, <1>3, <1>7, <1>8 DEF IInv, Apart, Distinct
<1> QED BY <1>4, <1>5, <1>6, <1>9, <1>10, <1>11 DEF IInv

\* The compaction of the clock changes nothing but ticks.
LEMMA Stamp ==
  ASSUME Typed
  PROVE  /\ Ticked \subseteq Entry /\ IsFiniteSet(Ticked) /\ NextTick \in Nat
         /\ \A e \in Ticked : \E f \in idle : e.id = f.id /\ Segment(e) = Segment(f)
         /\ \A f \in idle : \E e \in Ticked : e.id = f.id /\ Segment(e) = Segment(f)
         /\ (\A e, f \in idle : e.id = f.id => e = f)
              => \A e, f \in Ticked : e.id = f.id => e = f
<1>1. CASE clock + 1 <= MaxU64
  BY <1>1 DEF Typed, Ticked, NextTick
<1>2. CASE ~ (clock + 1 <= MaxU64)
  <2> DEFINE T == [e \in idle |-> [e EXCEPT !.last_used = Rank(e)]]
  <2>1. \A e \in idle : Rank(e) \in Nat
    <3> SUFFICES ASSUME NEW e \in idle PROVE Rank(e) \in Nat
      OBVIOUS
    <3>1. {f \in idle : Older(f, e)} \in SUBSET idle
      OBVIOUS
    <3>2. IsFiniteSet({f \in idle : Older(f, e)})
      BY <3>1, FS_Subset DEF Typed
    <3> QED BY <3>2, FS_CardinalityType DEF Rank
  <2>2. \A e \in idle : /\ T[e] \in Entry /\ T[e].id = e.id
                        /\ T[e].key = e.key /\ T[e].capacity = e.capacity
    BY <2>1 DEF Typed, Entry
  <2>3. Ticked = {T[e] : e \in idle}
    BY <1>2 DEF Ticked
  <2>4. IsFiniteSet(Ticked)
    <3>1. IsFiniteSet(idle)
      BY DEF Typed
    <3>2. DOMAIN T = idle /\ T = [e \in idle |-> T[e]]
      OBVIOUS
    <3> HIDE DEF T
    <3> QED BY <2>3, <3>1, <3>2, FiniteImage
  <2> HIDE DEF T
  <2>5. NextTick \in Nat
    BY <1>2, FS_CardinalityType DEF NextTick, Typed
  <2>6. \A e \in idle : Segment(T[e]) = Segment(e)
    BY <2>2 DEF Segment
  <2> QED BY <2>2, <2>3, <2>4, <2>5, <2>6
<1> QED BY <1>1, <1>2

\* A returned segment joins the idle set with the newest tick.
LEMMA ReturnSegmentInv == ASSUME IInv, ReturnSegment PROVE IInv'
<1> DEFINE h == [Head(returning) EXCEPT !.last_used = NextTick]
<1>1. /\ phase = "trim" /\ returning # <<>> /\ clock' = NextTick
      /\ idle' = Ticked \cup {h} /\ returning' = Tail(returning)
      /\ UNCHANGED <<lease, nextId, caller, requests, pending, phase>>
  BY DEF ReturnSegment, acquiring
<1>2. NextTick \in Nat
  BY Stamp DEF IInv
<1>3. /\ returning \in Seq(Entry) /\ 1 \in DOMAIN returning
      /\ Head(returning) = returning[1] /\ returning[1] \in Entry
      /\ Tail(returning) \in Seq(Entry)
      /\ \A i \in DOMAIN Tail(returning) :
           i + 1 \in DOMAIN returning /\ i + 1 # 1 /\ Tail(returning)[i] = returning[i + 1]
      /\ \A i, j \in DOMAIN Tail(returning) : i + 1 = j + 1 => i = j
  BY <1>1 DEF IInv, Typed
<1>4. h \in Entry /\ h.id = returning[1].id
  BY <1>2, <1>3 DEF Entry
<1> HIDE DEF h
<1>5. ReusedAt' = {} /\ ReusedAt = {} /\ pending = <<>>
  BY <1>1 DEF IInv, Locked, ReusedAt
<1>6. Typed'
  <2>1. Ticked \subseteq Entry /\ IsFiniteSet(Ticked)
    BY Stamp DEF IInv
  <2>2. IsFiniteSet(Ticked \cup {h})
    BY <2>1, FS_AddElement
  <2> QED BY <1>1, <1>2, <1>3, <1>4, <2>1, <2>2 DEF IInv, Typed
<1>7. Locked'
  BY <1>1 DEF IInv, Locked
<1>8. Serving'
  BY <1>1 DEF IInv, Serving
<1>9. /\ Live' = Live /\ \A l \in Live : Leased(l)' = Leased(l)
      /\ nextId' = nextId
      /\ idle' = Ticked \cup {h} /\ returning' = Tail(returning)
  BY <1>1 DEF Live, Leased
<1>10. /\ \A e \in Ticked : \E f \in idle : e.id = f.id
       /\ \A e, f \in Ticked : e.id = f.id => e = f
  BY Stamp DEF IInv, Distinct
<1>11. Issued'
  BY <1>3, <1>4, <1>5, <1>9, <1>10 DEF IInv, Issued
<1>12. Distinct'
  BY <1>3, <1>4, <1>5, <1>9, <1>10 DEF IInv, Distinct, Apart
<1>13. Apart'
  BY <1>3, <1>4, <1>5, <1>9, <1>10 DEF IInv, Distinct, Apart
<1> QED BY <1>6, <1>7, <1>8, <1>11, <1>12, <1>13 DEF IInv

\* A subset of a finite set that misses an element is smaller.
LEMMA SmallerSubset ==
  ASSUME NEW S, NEW T, NEW x \in T, IsFiniteSet(T), S \subseteq T \ {x}
  PROVE  /\ Cardinality(S) \in Nat /\ Cardinality(T) \in Nat
         /\ Cardinality(S) < Cardinality(T)
<1>1. IsFiniteSet(T \ {x}) /\ Cardinality(T \ {x}) = Cardinality(T) - 1
  BY FS_RemoveElement
<1>2. Cardinality(S) <= Cardinality(T \ {x}) /\ IsFiniteSet(S)
  BY <1>1, FS_Subset
<1>3. Cardinality(S) \in Nat /\ Cardinality(T) \in Nat
  BY <1>2, FS_CardinalityType
<1> QED BY <1>1, <1>2, <1>3

Below(i) == {j \in Fresh : j < i}

\* The numbers of the fresh segments below a position count upwards.
LEMMA CountBelow ==
  ASSUME Typed
  PROVE  /\ Cardinality(Fresh) \in Nat
         /\ \A i \in DOMAIN pending : Cardinality(Below(i)) \in Nat
         /\ \A i \in Fresh : Cardinality(Below(i)) < Cardinality(Fresh)
         /\ \A i, k \in Fresh : i < k => Cardinality(Below(i)) < Cardinality(Below(k))
<1>1. Fresh \in SUBSET (1 .. Len(pending)) /\ Len(pending) \in Nat
  BY DEF Typed, Fresh
<1>2. IsFiniteSet(Fresh) /\ Cardinality(Fresh) \in Nat /\ Fresh \subseteq Nat
  <2>1. IsFiniteSet(1 .. Len(pending))
    BY <1>1, FS_Interval
  <2>2. IsFiniteSet(Fresh)
    BY <1>1, <2>1, FS_Subset
  <2> QED BY <1>1, <2>2, FS_CardinalityType
<1>3. \A i : IsFiniteSet(Below(i)) /\ Cardinality(Below(i)) \in Nat
  BY <1>2, FS_Subset, FS_CardinalityType DEF Below
<1>4. \A i \in Fresh : Cardinality(Below(i)) < Cardinality(Fresh)
  <2> TAKE i \in Fresh
  <2>1. Below(i) \subseteq Fresh \ {i}
    BY <1>1 DEF Below
  <2> QED BY <1>2, <2>1, SmallerSubset
<1>5. \A i, k \in Fresh : i < k => Cardinality(Below(i)) < Cardinality(Below(k))
  <2> TAKE i, k \in Fresh
  <2> HAVE i < k
  <2>1. ~ (i < i) /\ \A j \in Fresh : j < i => j < k
    BY <1>2
  <2>2. Below(i) \subseteq Below(k) \ {i} /\ i \in Below(k)
    BY <1>2, <2>1 DEF Below
  <2> QED BY <1>3, <2>2, SmallerSubset
<1> QED BY <1>2, <1>3, <1>4, <1>5

\* The segments of a granted lease: reused ones keep their identifiers and
\* fresh ones get new ones.
LEMMA Numbering ==
  ASSUME IInv
  PROVE  /\ \A i \in DOMAIN pending :
              /\ Numbered(i) \in Entry
              /\ Numbered(i).key = pending[i].entry.key
              /\ Numbered(i).capacity = pending[i].entry.capacity
              /\ i \in ReusedAt => Numbered(i) = pending[i].entry
              /\ i \notin ReusedAt => /\ Numbered(i).id >= nextId
                                      /\ Numbered(i).id < nextId + Cardinality(Fresh)
         /\ \A i, j \in DOMAIN pending : Numbered(i).id = Numbered(j).id => i = j
         /\ Cardinality(Fresh) \in Nat
<1>1. /\ \A i \in DOMAIN pending : pending[i].entry \in Entry
      /\ DOMAIN pending = 1 .. Len(pending) /\ Len(pending) \in Nat
  <2>1. \A i \in DOMAIN pending : pending[i] \in PendingEntry
    BY DEF IInv, Typed
  <2> QED BY <2>1 DEF PendingEntry, IInv, Typed
<1>2. nextId \in Nat /\ Typed
  BY DEF IInv, Typed
<1>3. Fresh = DOMAIN pending \ ReusedAt /\ ReusedAt \subseteq DOMAIN pending
  BY DEF Fresh, ReusedAt
<1>4. \A i \in ReusedAt : Numbered(i) = pending[i].entry
  BY DEF ReusedAt, Numbered
<1>5. \A i \in Fresh : Numbered(i) = [pending[i].entry EXCEPT !.id = nextId + Cardinality(Below(i))]
  BY DEF Fresh, Numbered, Below
<1>6. \A i \in Fresh : /\ Cardinality(Below(i)) \in Nat
                       /\ Cardinality(Below(i)) < Cardinality(Fresh)
                       /\ Cardinality(Fresh) \in Nat
  BY <1>2, <1>3, CountBelow
<1>7. \A i \in Fresh : /\ Numbered(i) \in Entry
                       /\ Numbered(i).id = nextId + Cardinality(Below(i))
                       /\ Numbered(i).key = pending[i].entry.key
                       /\ Numbered(i).capacity = pending[i].entry.capacity
  BY <1>1, <1>2, <1>3, <1>5, <1>6 DEF Entry
<1>8. \A i \in DOMAIN pending :
        /\ Numbered(i) \in Entry
        /\ Numbered(i).key = pending[i].entry.key
        /\ Numbered(i).capacity = pending[i].entry.capacity
        /\ i \in ReusedAt => Numbered(i) = pending[i].entry
        /\ i \notin ReusedAt => /\ Numbered(i).id >= nextId
                                /\ Numbered(i).id < nextId + Cardinality(Fresh)
  <2> TAKE i \in DOMAIN pending
  <2>1. CASE i \in ReusedAt
    BY <1>1, <1>4, <2>1
  <2>2. CASE i \in Fresh
    <3>1. i \notin ReusedAt
      BY <1>3, <2>2
    <3>2. /\ Numbered(i).id >= nextId
          /\ Numbered(i).id < nextId + Cardinality(Fresh)
      BY <1>2, <1>6, <1>7, <2>2
    <3> QED BY <1>7, <2>2, <3>1, <3>2
  <2> QED BY <1>3, <2>1, <2>2
<1>9. \A i, j \in DOMAIN pending : Numbered(i).id = Numbered(j).id => i = j
  <2> TAKE i, j \in DOMAIN pending
  <2> HAVE Numbered(i).id = Numbered(j).id
  <2>1. CASE i \in ReusedAt /\ j \in ReusedAt
    BY <1>4, <2>1 DEF IInv, Distinct
  <2>2. CASE i \in Fresh /\ j \in Fresh
    <3>1. Cardinality(Below(i)) = Cardinality(Below(j))
      BY <1>2, <1>6, <1>7, <2>2
    <3>2. ~ (i < j) /\ ~ (j < i)
      BY <1>2, <1>6, <2>2, <3>1, CountBelow
    <3> QED BY <1>1, <3>2
  <2>3. \A k \in ReusedAt : Numbered(k).id < nextId /\ Numbered(k).id \in Nat
    BY <1>1, <1>3, <1>4 DEF IInv, Issued, Entry
  <2>4. \A k \in Fresh : Numbered(k).id >= nextId
    BY <1>3, <1>8
  <2> QED BY <1>2, <1>3, <2>1, <2>2, <2>3, <2>4
<1> QED BY <1>2, <1>8, <1>9, CountBelow

\* What a grant hands to the caller.
LEMMA Granted ==
  ASSUME IInv, Grant, NEW c \in Lease, c = caller
  PROVE  /\ phase = "acquire" /\ lease[c] = NoLease
         /\ Len(pending) = Len(requests) /\ DOMAIN pending = DOMAIN requests
         /\ lease' = [lease EXCEPT ![c] = [requests |-> requests, segments |-> Leased(c)']]
         /\ lease'[c] \in LeaseRecord /\ lease'[c] # NoLease
         /\ lease'[c].requests = requests
         /\ DOMAIN Leased(c)' = DOMAIN pending
         /\ \A i \in DOMAIN pending : Leased(c)'[i] = Numbered(i)
         /\ Live' = Live \cup {c} /\ c \notin Live
         /\ \A l \in Live : lease'[l] = lease[l] /\ Leased(l)' = Leased(l)
         /\ nextId' = nextId + Cardinality(Fresh)
         /\ pending' = <<>> /\ requests' = <<>> /\ returning = <<>> /\ phase' = "unlocked"
         /\ UNCHANGED <<idle, clock, returning>>
<1> DEFINE segs == [i \in DOMAIN pending |-> Numbered(i)]
           record == [requests |-> requests, segments |-> segs]
<1>1. /\ phase = "acquire" /\ Len(pending) = Len(requests)
      /\ nextId' = nextId + Cardinality(Fresh)
      /\ lease' = [lease EXCEPT ![c] = record]
      /\ pending' = <<>> /\ requests' = <<>> /\ phase' = "unlocked"
      /\ UNCHANGED <<idle, clock, returning>>
  BY DEF Grant, Served
<1>2. /\ lease[c] = NoLease /\ returning = <<>>
      /\ pending \in Seq(PendingEntry) /\ requests \in Seq(Request)
      /\ lease \in [Lease -> LeaseRecord \cup {NoLease}]
  BY <1>1 DEF IInv, Typed, Locked
<1>3. segs \in Seq(Entry)
  <2>1. DOMAIN pending = 1 .. Len(pending) /\ Len(pending) \in Nat
    BY <1>2
  <2>2. \A i \in DOMAIN pending : Numbered(i) \in Entry
    BY Numbering
  <2> QED BY <2>1, <2>2
<1>4. record \in LeaseRecord
  BY <1>2, <1>3 DEF LeaseRecord
<1>5. record # NoLease
  BY <1>4, NoLeaseConstant DEF LeaseRecord
<1>6. record.segments = segs /\ record.requests = requests
  OBVIOUS
<1>7. /\ DOMAIN segs = DOMAIN pending
      /\ \A i \in DOMAIN pending : segs[i] = Numbered(i)
      /\ DOMAIN pending = DOMAIN requests
  BY <1>1, <1>2
<1> HIDE DEF record, segs
<1>8. lease'[c] = record /\ \A l \in Lease \ {c} : lease'[l] = lease[l]
  BY <1>1, <1>2
<1>9. Leased(c)' = segs
  BY <1>1, <1>6, <1>8 DEF Leased
<1>10. Live' = Live \cup {c} /\ c \notin Live
  BY <1>2, <1>5, <1>8 DEF Live
<1>11. \A l \in Live : lease'[l] = lease[l] /\ Leased(l)' = Leased(l)
  BY <1>8, <1>10 DEF Live, Leased
<1>12. lease' = [lease EXCEPT ![c] = [requests |-> requests, segments |-> Leased(c)']]
  BY <1>1, <1>9 DEF record
<1> QED BY <1>1, <1>2, <1>4, <1>5, <1>6, <1>7, <1>8, <1>9, <1>10, <1>11, <1>12

LEMMA GrantInv ==
  ASSUME IInv, Grant, NEW c \in Lease, c = caller
  PROVE  IInv'
<1>1. Typed'
  <2>1. lease' \in [Lease -> LeaseRecord \cup {NoLease}]
    <3>1. lease \in [Lease -> LeaseRecord \cup {NoLease}]
      BY DEF IInv, Typed
    <3>2. \A l \in Lease : l # c => lease'[l] = lease[l]
      BY <3>1, Granted
    <3>3. DOMAIN lease' = Lease
      BY <3>1, Granted
    <3>4. lease'[c] \in LeaseRecord
      BY Granted
    <3>5. \A l \in Lease : lease'[l] \in LeaseRecord \cup {NoLease}
      BY <3>1, <3>2, <3>4
    <3>6. lease' = [l \in Lease |-> lease'[l]]
      BY <3>1, Granted
    <3> QED BY <3>5, <3>6
  <2>2. nextId' \in Nat
    BY Granted, Numbering DEF IInv, Typed
  <2> QED BY <2>1, <2>2, Granted DEF IInv, Typed
<1>2. Locked' /\ Serving' /\ ReusedAt' = {}
  BY Granted DEF Locked, Serving, ReusedAt
<1>3. \A l \in Live' : l \in Live \/ l = c
  BY Granted
<1>4. nextId' >= nextId /\ nextId' \in Nat /\ nextId \in Nat
  BY Granted, Numbering DEF IInv, Typed
\* Reused identifiers were issued before, fresh ones are new.
<1>5. \A i \in DOMAIN pending :
        /\ Numbered(i).id < nextId'
        /\ \A e \in idle : e.id # Numbered(i).id
        /\ \A l \in Live : \A j \in DOMAIN Leased(l) : Leased(l)[j].id # Numbered(i).id
  <2> TAKE i \in DOMAIN pending
  <2>1. CASE i \in ReusedAt
    <3>1. Numbered(i) = pending[i].entry /\ Numbered(i).id < nextId
      BY <2>1, Numbering DEF IInv, Issued
    <3>2. Numbered(i).id \in Nat
      BY Numbering DEF Entry
    <3> QED BY <1>4, <2>1, <3>1, <3>2 DEF IInv, Apart
  <2>2. CASE i \notin ReusedAt
    <3>1. Numbered(i).id >= nextId /\ Numbered(i).id < nextId' /\ Numbered(i).id \in Nat
      BY <2>2, Numbering, Granted DEF Entry
    <3>2. \A e \in idle : e.id \in Nat /\ e.id < nextId
      BY DEF IInv, Issued, Typed, Entry
    <3>3. \A l \in Live : \A j \in DOMAIN Leased(l) :
             Leased(l)[j].id \in Nat /\ Leased(l)[j].id < nextId
      BY LeasedSegments DEF IInv, Issued, Entry
    <3> QED BY <1>4, <3>1, <3>2, <3>3
  <2> QED BY <2>1, <2>2
<1>6. Issued'
  <2>1. \A e \in idle : e.id < nextId'
    BY <1>4 DEF IInv, Issued, Typed, Entry
  <2>2. \A l \in Live : \A j \in DOMAIN Leased(l) : Leased(l)[j].id < nextId'
    BY <1>4, LeasedSegments DEF IInv, Issued, Entry
  <2> QED BY <1>2, <1>3, <1>5, <2>1, <2>2, Granted DEF Issued
<1>7. Distinct'
  <2>1. \A i, j \in DOMAIN pending : Numbered(i).id = Numbered(j).id => i = j
    BY Numbering
  <2>2. \A l, m \in Live' : \A i \in DOMAIN Leased(l)', j \in DOMAIN Leased(m)' :
          Leased(l)'[i].id = Leased(m)'[j].id => l = m /\ i = j
    <3> TAKE l, m \in Live'
    <3> TAKE i \in DOMAIN Leased(l)', j \in DOMAIN Leased(m)'
    <3>1. CASE l \in Live /\ m \in Live
      BY <3>1, Granted DEF IInv, Distinct
    <3>2. CASE l = c /\ m = c
      BY <2>1, <3>2, Granted
    <3>3. CASE l = c /\ m \in Live
      BY <1>5, <3>3, Granted
    <3>4. CASE l \in Live /\ m = c
      BY <1>5, <3>4, Granted
    <3> QED BY <1>3, <3>1, <3>2, <3>3, <3>4
  <2> QED BY <1>2, <2>2, Granted DEF IInv, Distinct
<1>8. Apart'
  BY <1>2, <1>3, <1>5, Granted DEF IInv, Apart
<1> QED BY <1>1, <1>2, <1>6, <1>7, <1>8 DEF IInv

LEMMA BoundedSequences == BoundedSeq(Request, MaxRequests) \subseteq Seq(Request)
<1> SUFFICES ASSUME NEW s \in BoundedSeq(Request, MaxRequests) PROVE s \in Seq(Request)
  OBVIOUS
<1>1. PICK m \in 0 .. MaxRequests : s \in [1 .. m -> Request]
  BY DEF BoundedSeq, SeqOf
<1> QED BY <1>1, WorkspacePoolConstants

LEMMA NextInv == IInv /\ [Next]_vars => IInv'
<1> SUFFICES ASSUME IInv, [Next]_vars PROVE IInv'
  OBVIOUS
<1> USE DEF counters, acquiring
<1>1. CASE UNCHANGED vars
  <2>1. UNCHANGED <<idle, lease, returning, nextId, clock, requests, pending, caller, phase>>
    BY <1>1 DEF vars
  <2>2. phase = "unlocked" => pending = <<>> /\ returning = <<>>
    BY DEF IInv, Locked
  <2> QED BY <2>1, <2>2, ShrinkInv
<1>2. ASSUME NEW l \in Lease, NEW reqs \in BoundedSeq(Request, MaxRequests), Acquire(l, reqs)
      PROVE  IInv'
  BY <1>2, BoundedSequences, AcquireInv
<1>3. ASSUME NEW l \in Lease, Drop(l) PROVE IInv'
  BY <1>3, DropInv
<1>4. ASSUME NEW limit \in IdleLimit, SetMaxIdleBytes(limit) PROVE IInv'
  <2>1. /\ phase = "unlocked" /\ phase' = "trim" /\ idle' = idle
        /\ UNCHANGED <<lease, returning, nextId, clock, requests, pending, caller>>
    BY <1>4 DEF SetMaxIdleBytes
  <2> QED BY <2>1, RelockInv
<1>5. CASE Reuse
  BY <1>5, ReuseInv
<1>6. ASSUME NEW capacity \in Bytes, Allocate(capacity) PROVE IInv'
  BY <1>6, AllocateInv
<1>7. ASSUME NEW capacity \in Bytes, AllocateShort(capacity) PROVE IInv'
  BY <1>7, RollbackInv DEF AllocateShort, Misses, Unserved
<1>8. CASE EvictAllIdle
  <2>1. /\ phase = "acquire" /\ phase' = phase /\ idle' = {}
        /\ UNCHANGED <<lease, returning, nextId, clock, requests, pending, caller>>
    BY <1>8 DEF EvictAllIdle, Misses, Unserved
  <2> QED BY <2>1, ShrinkInv
<1>9. CASE AllocationFails \/ RefuseOverflow
  BY <1>9, RollbackInv DEF AllocationFails, RefuseOverflow, Misses, Unserved, Served
<1>10. CASE Grant
  <2>1. caller \in Lease
    BY <1>10 DEF Grant, Served, IInv, Locked
  <2> QED BY <1>10, <2>1, GrantInv
<1>11. CASE ReturnSegment
  BY <1>11, ReturnSegmentInv
<1>12. CASE EvictOldest
  <2>1. /\ phase = "trim" /\ phase' = phase /\ idle' \subseteq idle
        /\ UNCHANGED <<lease, returning, nextId, clock, requests, pending, caller>>
    BY <1>12 DEF EvictOldest
  <2> QED BY <2>1, ShrinkInv
<1>13. CASE Trimmed
  <2>1. /\ phase = "trim" /\ phase' = "unlocked" /\ idle' = idle /\ returning = <<>>
        /\ UNCHANGED <<lease, returning, nextId, clock, requests, pending, caller>>
    BY <1>13 DEF Trimmed
  <2>2. pending = <<>>
    BY <2>1 DEF IInv, Locked
  <2> QED BY <2>1, <2>2, ShrinkInv
<1> QED BY <1>1, <1>2, <1>3, <1>4, <1>5, <1>6, <1>7, <1>8, <1>9, <1>10, <1>11, <1>12, <1>13
        DEF Next, Serve, Trim

\* Spec keeps the invariant.
LEMMA Inductive == Spec => []IInv
BY InitInv, NextInv, PTL DEF Spec

-----------------------------------------------------------------------------
(* The refinement.                                                         *)

\* The idle set and the leases of the abstract pool.
Kept == {Segment(e) : e \in Retained \cup {returning[i] : i \in DOMAIN returning}}
Held == [l \in Lease |-> SegmentsOf(l)]

LEMMA Mapped ==
  /\ Leases!vars = <<Kept, Held, nextId>>
  /\ Leases!vars' = <<Kept', Held', nextId'>>
BY DEF Leases!vars, Kept, Held

\* A step that moves segments inside the pool is no step for its callers.
LEMMA Moved ==
  ASSUME UNCHANGED <<lease, nextId>>, Kept' = Kept
  PROVE  UNCHANGED Leases!vars
<1>1. Held' = Held
  BY DEF Held, SegmentsOf, Segment
<1> QED BY <1>1, Mapped

\* A step that only loses idle segments is an eviction.
LEMMA Evicted ==
  ASSUME UNCHANGED <<lease, nextId>>, Kept' \subseteq Kept
  PROVE  Leases!Next
<1>1. Held' = Held
  BY DEF Held, SegmentsOf, Segment
<1> QED BY <1>1 DEF Leases!Next, Leases!Evict, Kept, Held

\* The segment an acquisition takes is still retained.
LEMMA ReuseRetains == ASSUME IInv, Reuse PROVE Retained' = Retained
<1>1. PICK e \in idle : /\ idle' = idle \ {e}
                        /\ pending' = Append(pending, [entry |-> e, reused |-> TRUE])
  BY DEF Reuse
<1> DEFINE p == [entry |-> e, reused |-> TRUE]
           n == Len(pending) + 1
<1>2. p \in PendingEntry /\ p.reused = TRUE /\ p.entry = e
  BY <1>1 DEF IInv, Typed, PendingEntry
<1>3. /\ DOMAIN pending = 1 .. Len(pending) /\ Len(pending) \in Nat
      /\ DOMAIN pending' = 1 .. n
      /\ \A i \in DOMAIN pending : i \in DOMAIN pending' /\ pending'[i] = pending[i]
      /\ pending'[n] = p
  BY <1>1, <1>2, AppendPending DEF IInv, Typed
<1> HIDE DEF p
<1>4. Reused' = Reused \cup {e}
  <2>1. /\ ReusedAt' = ReusedAt \cup {n}
        /\ \A i \in ReusedAt : pending'[i] = pending[i]
    BY <1>2, <1>3 DEF ReusedAt
  <2>2. /\ Reused = {pending[i].entry : i \in ReusedAt}
        /\ Reused' = {pending'[i].entry : i \in ReusedAt'}
    BY DEF Reused, ReusedAt
  <2> HIDE DEF n
  <2> QED BY <1>2, <1>3, <2>1, <2>2
<1> QED BY <1>1, <1>4 DEF Retained

LEMMA ReuseMoves == ASSUME IInv, Reuse PROVE UNCHANGED Leases!vars
<1>1. UNCHANGED <<lease, returning, nextId>>
  BY DEF Reuse
<1>2. Kept' = Kept
  BY <1>1, ReuseRetains DEF Kept
<1> QED BY <1>1, <1>2, Moved

LEMMA AllocateRetains ==
  ASSUME IInv, NEW capacity \in Bytes, Allocate(capacity)
  PROVE  Retained' = Retained
<1> DEFINE e == [id |-> 0, key |-> Wanted.key, capacity |-> capacity, last_used |-> 0]
           p == [entry |-> e, reused |-> FALSE]
           n == Len(pending) + 1
<1>1. /\ pending' = Append(pending, p) /\ Unserved
      /\ UNCHANGED <<idle, lease, returning, nextId>>
  BY DEF Allocate, counters, Misses
<1>2. Wanted \in Request
  BY <1>1, WantedIsRequest
<1>3. p \in PendingEntry /\ p.reused = FALSE
  BY <1>2 DEF PendingEntry, Entry, Request
<1> HIDE DEF p
<1>4. /\ DOMAIN pending = 1 .. Len(pending) /\ Len(pending) \in Nat
      /\ DOMAIN pending' = 1 .. n
      /\ \A i \in DOMAIN pending : i \in DOMAIN pending' /\ pending'[i] = pending[i]
      /\ pending'[n] = p
  BY <1>1, <1>3, AppendPending DEF IInv, Typed
<1>5. Reused' = Reused
  <2>1. DOMAIN pending' = DOMAIN pending \cup {n}
    BY <1>4
  <2> HIDE DEF n
  <2> QED BY <1>3, <1>4, <2>1 DEF Reused
<1> QED BY <1>1, <1>5 DEF Retained

LEMMA AllocateMoves ==
  ASSUME IInv, NEW capacity \in Bytes, Allocate(capacity)
  PROVE  UNCHANGED Leases!vars
<1>1. UNCHANGED <<idle, lease, returning, nextId>>
  BY DEF Allocate, counters
<1>2. Kept' = Kept
  BY <1>1, AllocateRetains DEF Kept
<1> QED BY <1>1, <1>2, Moved

\* Nothing is reused unless an acquisition runs.
LEMMA EmptyPending == pending = <<>> => Reused = {}
BY DEF Reused

LEMMA EmptyPendingPrime == pending' = <<>> => Reused' = {}
BY DEF Reused

LEMMA RollbackRetains == ASSUME Rollback PROVE Retained' = Retained
BY EmptyPendingPrime DEF Rollback, Retained

LEMMA RollbackMoves == ASSUME IInv, Rollback PROVE UNCHANGED Leases!vars
<1>1. UNCHANGED <<lease, returning, nextId>>
  BY DEF Rollback
<1>2. Kept' = Kept
  BY <1>1, RollbackRetains DEF Kept
<1> QED BY <1>1, <1>2, Moved

LEMMA ReturnSegmentMoves == ASSUME IInv, ReturnSegment PROVE UNCHANGED Leases!vars
<1> DEFINE h == [Head(returning) EXCEPT !.last_used = NextTick]
<1>1. /\ phase = "trim" /\ returning # <<>>
      /\ idle' = Ticked \cup {h} /\ returning' = Tail(returning)
      /\ UNCHANGED <<lease, nextId, pending>>
  BY DEF ReturnSegment, acquiring
<1>2. NextTick \in Nat
  BY Stamp DEF IInv
<1>3. /\ 1 \in DOMAIN returning
      /\ Head(returning) = returning[1] /\ returning[1] \in Entry
      /\ \A i \in DOMAIN Tail(returning) :
           i + 1 \in DOMAIN returning /\ Tail(returning)[i] = returning[i + 1]
      /\ \A k \in DOMAIN returning : k = 1 \/ (k - 1 \in DOMAIN Tail(returning) /\ k - 1 + 1 = k)
  BY <1>1 DEF IInv, Typed
<1>4. Segment(h) = Segment(returning[1])
  BY <1>2, <1>3 DEF Entry, Segment
<1> HIDE DEF h
<1>5. Reused = {} /\ Reused' = {}
  BY <1>1, EmptyPending, EmptyPendingPrime DEF IInv, Locked
<1>6. {Segment(e) : e \in Ticked} = {Segment(e) : e \in idle}
  BY Stamp DEF IInv
<1>7. {returning[i] : i \in DOMAIN returning}
        = {Tail(returning)[i] : i \in DOMAIN Tail(returning)} \cup {returning[1]}
  BY <1>3
<1>8. Kept' = Kept
  <2>1. Kept' = {Segment(e) : e \in (Ticked \cup {h}) \cup {Tail(returning)[i] : i \in DOMAIN Tail(returning)}}
    BY <1>1, <1>5 DEF Kept, Retained, Segment
  <2>2. Kept = {Segment(e) : e \in idle \cup {returning[i] : i \in DOMAIN returning}}
    BY <1>5 DEF Kept, Retained
  <2>3. Kept' = {Segment(e) : e \in Ticked} \cup {Segment(h)}
                  \cup {Segment(e) : e \in {Tail(returning)[i] : i \in DOMAIN Tail(returning)}}
    BY <2>1
  <2>4. Kept = {Segment(e) : e \in idle} \cup {Segment(returning[1])}
                  \cup {Segment(e) : e \in {Tail(returning)[i] : i \in DOMAIN Tail(returning)}}
    BY <1>7, <2>2
  <2> QED BY <1>4, <1>6, <2>3, <2>4
<1> QED BY <1>1, <1>8, Moved

\* Leases!Grant and Leases!Return in terms of the mapped variables.
LEMMA GrantMapped ==
  ASSUME NEW l \in Lease,
         Held[l] = NoLease, Held'[l] # NoLease,
         Held' = [Held EXCEPT ![l] = Held'[l]],
         DOMAIN Held'[l].segments = DOMAIN Held'[l].requests,
         \A i \in DOMAIN Held'[l].requests :
           /\ Held'[l].segments[i].key = Held'[l].requests[i].key
           /\ Held'[l].segments[i].capacity >= Held'[l].requests[i].bytes,
         \A i \in DOMAIN Held'[l].requests :
           \/ Held'[l].segments[i] \in Kept
           \/ Held'[l].segments[i].id >= nextId /\ Held'[l].segments[i].id < nextId',
         \A i, j \in DOMAIN Held'[l].requests :
           Held'[l].segments[i].id = Held'[l].segments[j].id => i = j,
         Kept' = Kept \ {Held'[l].segments[i] : i \in DOMAIN Held'[l].requests},
         nextId' >= nextId
  PROVE  Leases!Next
BY DEF Leases!Next, Leases!Grant, Leases!Serves, Leases!New, Held, Kept

LEMMA ReturnMapped ==
  ASSUME NEW l \in Lease, Held[l] # NoLease,
         Held' = [Held EXCEPT ![l] = NoLease],
         Kept' = Kept \cup {Held[l].segments[i] : i \in DOMAIN Held[l].segments},
         nextId' = nextId
  PROVE  Leases!Next
BY DEF Leases!Next, Leases!Return, Held, Kept

\* What the caller of a live lease sees.
View(r) ==
  [requests |-> r.requests,
   segments |-> [i \in DOMAIN r.segments |-> Segment(r.segments[i])]]

LEMMA Viewed ==
  ASSUME NEW r \in LeaseRecord
  PROVE  /\ View(r) # NoLease
         /\ View(r).requests = r.requests
         /\ DOMAIN View(r).segments = DOMAIN r.segments
         /\ \A i \in DOMAIN r.segments : View(r).segments[i] = Segment(r.segments[i])
<1> DEFINE segs == [i \in DOMAIN r.segments |-> Segment(r.segments[i])]
<1>1. /\ r.segments \in Seq(Entry) /\ r.requests \in Seq(Request)
      /\ DOMAIN r.segments = 1 .. Len(r.segments) /\ Len(r.segments) \in Nat
      /\ \A i \in DOMAIN r.segments : r.segments[i] \in Entry
  BY DEF LeaseRecord
<1>2. \A e \in Entry : Segment(e) \in [id : Nat, key : Key, capacity : Bytes]
  BY DEF Entry, Segment
<1>3. segs \in Seq([id : Nat, key : Key, capacity : Bytes])
  BY <1>1, <1>2
<1> HIDE DEF segs
<1>4. View(r) = [requests |-> r.requests, segments |-> segs]
  BY DEF View, segs
<1>5. View(r) \in [requests : Seq(Request), segments : Seq([id : Nat, key : Key, capacity : Bytes])]
  BY <1>1, <1>3, <1>4
<1>6. View(r) # NoLease
  BY <1>5, NoLeaseConstant
<1>7. /\ DOMAIN segs = DOMAIN r.segments
      /\ \A i \in DOMAIN r.segments : segs[i] = Segment(r.segments[i])
  BY DEF segs
<1> QED BY <1>4, <1>6, <1>7

LEMMA Seen ==
  ASSUME Typed, NEW l \in Live
  PROVE  /\ Held[l] # NoLease
         /\ DOMAIN Held[l].segments = DOMAIN Leased(l)
         /\ \A i \in DOMAIN Leased(l) : Held[l].segments[i] = Segment(Leased(l)[i])
<1>1. Held[l] = View(lease[l])
  BY DEF Live, Held, SegmentsOf, View
<1>2. lease[l] \in LeaseRecord
  BY LeasedSegments
<1> QED BY <1>1, <1>2, Viewed DEF Leased

LEMMA GrantLeases ==
  ASSUME IInv, Grant, NEW c \in Lease, c = caller
  PROVE  Leases!Next
<1>1. c \in Live' /\ Held[c] = NoLease
  BY Granted DEF Held, SegmentsOf
<1>2. Typed
  BY DEF IInv
<1>3. /\ Held'[c] # NoLease
      /\ Held'[c].requests = lease'[c].requests
      /\ DOMAIN Held'[c].segments = DOMAIN Leased(c)'
      /\ \A i \in DOMAIN Leased(c)' : Held'[c].segments[i] = Segment(Leased(c)'[i])
  <2>1. Held'[c] = View(lease'[c])
    BY Granted DEF Held, SegmentsOf, View, Segment
  <2>2. lease'[c] \in LeaseRecord
    BY Granted
  <2> QED BY <2>1, <2>2, Viewed DEF Leased
<1>4. /\ Held'[c].requests = requests /\ DOMAIN requests = DOMAIN pending
      /\ DOMAIN Held'[c].segments = DOMAIN pending
      /\ \A i \in DOMAIN pending : Held'[c].segments[i] = Segment(Numbered(i))
  BY <1>3, Granted
<1>5. Held' = [Held EXCEPT ![c] = Held'[c]]
  <2>1. \A l \in Lease : l # c => lease'[l] = lease[l]
    BY Granted DEF IInv, Typed
  <2>2. \A l \in Lease : l # c => Held'[l] = Held[l]
    BY <2>1 DEF Held, SegmentsOf, Segment
  <2>3. Held = [l \in Lease |-> Held[l]] /\ Held' = [l \in Lease |-> Held'[l]]
    BY DEF Held
  <2> HIDE DEF Held
  <2> QED BY <2>2, <2>3
<1>6. \A i \in DOMAIN pending :
        /\ Segment(Numbered(i)).id = Numbered(i).id
        /\ Segment(Numbered(i)).key = requests[i].key
        /\ Segment(Numbered(i)).capacity >= requests[i].bytes
  BY Numbering DEF Segment, IInv, Serving
<1>7. Retained = idle \cup Reused /\ returning = <<>> /\ Kept = {Segment(e) : e \in idle \cup Reused}
  BY Granted DEF Kept, Retained
<1>8. /\ Reused = {pending[i].entry : i \in ReusedAt} /\ Reused \subseteq Entry
      /\ ReusedAt \subseteq DOMAIN pending
  BY <1>2, ReusedFinite DEF ReusedAt
<1>9. \A i \in DOMAIN pending :
        \/ Segment(Numbered(i)) \in Kept
        \/ Segment(Numbered(i)).id >= nextId /\ Segment(Numbered(i)).id < nextId'
  <2> TAKE i \in DOMAIN pending
  <2>1. CASE i \in ReusedAt
    BY <1>7, <1>8, <2>1, Numbering
  <2>2. CASE i \notin ReusedAt
    BY <1>6, <2>2, Numbering, Granted
  <2> QED BY <2>1, <2>2
<1>10. Kept' = {Segment(e) : e \in idle}
  BY Granted, EmptyPendingPrime DEF Kept, Retained, Segment
<1>11. Kept' = Kept \ {Segment(Numbered(i)) : i \in DOMAIN pending}
  <2>1. \A e \in idle, i \in DOMAIN pending : Segment(e) # Segment(Numbered(i))
    <3> TAKE e \in idle, i \in DOMAIN pending
    <3>1. e \in Entry /\ e.id < nextId /\ Numbered(i) \in Entry /\ nextId \in Nat
      BY Numbering DEF IInv, Typed, Issued
    <3>2. e.id # Numbered(i).id
      <4>1. CASE i \in ReusedAt
        BY <4>1, Numbering DEF IInv, Apart
      <4>2. CASE i \notin ReusedAt
        BY <3>1, <4>2, Numbering DEF Entry
      <4> QED BY <4>1, <4>2
    <3> QED BY <3>2 DEF Segment
  <2>2. \A e \in Reused : \E i \in DOMAIN pending : Segment(e) = Segment(Numbered(i))
    BY <1>8, Numbering
  <2> QED BY <1>7, <1>10, <2>1, <2>2
<1>12. nextId' >= nextId
  BY Granted, Numbering DEF IInv, Typed
<1>13. \A i, j \in DOMAIN pending : Numbered(i).id = Numbered(j).id => i = j
  BY Numbering
<1>14. Kept' = Kept \ {Held'[c].segments[i] : i \in DOMAIN Held'[c].requests}
  BY <1>4, <1>11
<1> HIDE DEF Held, Kept
<1> QED BY <1>1, <1>3, <1>4, <1>5, <1>6, <1>9, <1>12, <1>13, <1>14, GrantMapped

LEMMA DropLeases == ASSUME IInv, NEW l \in Lease, Drop(l) PROVE Leases!Next
<1>1. /\ l \in Live /\ phase = "unlocked"
      /\ returning' = Leased(l) /\ lease' = [lease EXCEPT ![l] = NoLease]
      /\ UNCHANGED <<idle, nextId, pending>>
  BY DEF Drop, Live, Leased, acquiring
<1>2. returning = <<>> /\ Reused = {} /\ Reused' = {}
  BY <1>1, EmptyPending, EmptyPendingPrime DEF IInv, Locked
<1>3. /\ Held[l] # NoLease /\ DOMAIN Held[l].segments = DOMAIN Leased(l)
      /\ \A i \in DOMAIN Leased(l) : Held[l].segments[i] = Segment(Leased(l)[i])
  BY <1>1, Seen DEF IInv
<1>4. Held' = [Held EXCEPT ![l] = NoLease]
  <2>1. lease'[l] = NoLease /\ \A m \in Lease : m # l => lease'[m] = lease[m]
    BY <1>1 DEF IInv, Typed
  <2>2. Held'[l] = NoLease /\ \A m \in Lease : m # l => Held'[m] = Held[m]
    BY <2>1 DEF Held, SegmentsOf, Segment
  <2>3. Held = [m \in Lease |-> Held[m]] /\ Held' = [m \in Lease |-> Held'[m]]
    BY DEF Held
  <2> HIDE DEF Held
  <2> QED BY <2>2, <2>3
<1>5. Kept' = Kept \cup {Held[l].segments[i] : i \in DOMAIN Held[l].segments}
  <2>1. Kept = {Segment(e) : e \in idle}
    BY <1>2 DEF Kept, Retained
  <2>2. Kept' = {Segment(e) : e \in idle \cup {Leased(l)[i] : i \in DOMAIN Leased(l)}}
    BY <1>1, <1>2 DEF Kept, Retained, Segment
  <2> QED BY <1>3, <2>1, <2>2
<1> HIDE DEF Held, Kept
<1> QED BY <1>1, <1>3, <1>4, <1>5, ReturnMapped

LEMMA LeasesNext == IInv /\ [Next]_vars => [Leases!Next]_(Leases!vars)
<1> SUFFICES ASSUME IInv, [Next]_vars PROVE [Leases!Next]_(Leases!vars)
  OBVIOUS
<1> USE DEF counters, acquiring
<1>1. CASE UNCHANGED vars
  <2>1. UNCHANGED <<lease, nextId, idle, pending, returning>>
    BY <1>1 DEF vars
  <2>2. Kept' = Kept
    BY <2>1 DEF Kept, Retained, Reused, Segment
  <2> QED BY <2>1, <2>2, Moved
<1>2. ASSUME NEW l \in Lease, NEW reqs \in BoundedSeq(Request, MaxRequests), Acquire(l, reqs)
      PROVE  UNCHANGED Leases!vars
  <2>1. /\ phase = "unlocked" /\ pending' = <<>>
        /\ UNCHANGED <<lease, nextId, idle, returning>>
    BY <1>2 DEF Acquire
  <2>2. Reused = {} /\ Reused' = {}
    BY <2>1, EmptyPending, EmptyPendingPrime DEF IInv, Locked
  <2>3. Kept' = Kept
    BY <2>1, <2>2 DEF Kept, Retained, Segment
  <2> QED BY <2>1, <2>3, Moved
<1>3. ASSUME NEW l \in Lease, Drop(l) PROVE Leases!Next
  BY <1>3, DropLeases
<1>4. ASSUME (\E limit \in IdleLimit : SetMaxIdleBytes(limit)) \/ Trimmed
      PROVE  UNCHANGED Leases!vars
  <2>1. UNCHANGED <<lease, nextId, idle, pending, returning>>
    BY <1>4 DEF SetMaxIdleBytes, Trimmed
  <2>2. Kept' = Kept
    BY <2>1 DEF Kept, Retained, Reused, Segment
  <2> QED BY <2>1, <2>2, Moved
<1>5. CASE Reuse
  BY <1>5, ReuseMoves
<1>6. ASSUME NEW capacity \in Bytes, Allocate(capacity) PROVE UNCHANGED Leases!vars
  BY <1>6, AllocateMoves
<1>7. ASSUME (\E capacity \in Bytes : AllocateShort(capacity)) \/ AllocationFails \/ RefuseOverflow
      PROVE  UNCHANGED Leases!vars
  BY <1>7, RollbackMoves DEF AllocateShort, AllocationFails, RefuseOverflow
<1>8. CASE EvictAllIdle \/ EvictOldest
  <2>1. idle' \subseteq idle /\ UNCHANGED <<lease, nextId, pending, returning>>
    BY <1>8 DEF EvictAllIdle, EvictOldest
  <2>2. Reused' = Reused
    BY <2>1 DEF Reused
  <2>3. Kept' \subseteq Kept
    BY <2>1, <2>2 DEF Kept, Retained, Segment
  <2> QED BY <2>1, <2>3, Evicted
<1>9. CASE Grant
  <2>1. caller \in Lease
    BY <1>9 DEF Grant, Served, IInv, Locked
  <2> QED BY <1>9, <2>1, GrantLeases
<1>10. CASE ReturnSegment
  BY <1>10, ReturnSegmentMoves
<1> QED BY <1>1, <1>2, <1>3, <1>4, <1>5, <1>6, <1>7, <1>8, <1>9, <1>10 DEF Next, Serve, Trim

LEMMA LeasesInit == Init => Leases!Init
<1> SUFFICES ASSUME Init PROVE Leases!Init
  OBVIOUS
<1>1. Kept = {} /\ Held = [l \in Lease |-> NoLease] /\ nextId = 0
  BY DEF Init, Kept, Held, Retained, Reused, SegmentsOf
<1> QED BY <1>1 DEF Leases!Init, Kept, Held

\* Whole leases or none, and no segment in two of them: whichever way the
\* steps of acquire, rollback, drop, eviction and clock compaction interleave
\* with the operations of other threads, the pool behaves like the leases its
\* callers rely on (workspace.rs, WorkspacePool).
THEOREM ImplementsLeases == Spec => LeaseSpec
<1>1. Spec => [][Leases!Next]_(Leases!vars)
  BY Inductive, LeasesNext, PTL DEF Spec
<1> QED BY <1>1, LeasesInit, PTL DEF Spec, LeaseSpec, Leases!Spec

-----------------------------------------------------------------------------
(* The order of eviction.                                                  *)

\* The clock is not behind any retained segment.
Ticks == \A e \in Retained : e.last_used <= clock

\* Every step but the return of a segment only loses retained segments.
LEMMA OthersRetain ==
  ASSUME IInv, [Next]_vars, ~ ReturnSegment
  PROVE  Retained' \subseteq Retained /\ clock' = clock
<1> USE DEF counters, acquiring
<1>1. ASSUME idle' \subseteq idle, pending' = pending \/ pending' = <<>>
      PROVE  Retained' \subseteq Retained
  <2>1. Reused' = Reused \/ Reused' = {}
    BY <1>1, EmptyPendingPrime DEF Reused
  <2> QED BY <1>1, <2>1 DEF Retained
<1>2. CASE UNCHANGED vars
  BY <1>1, <1>2 DEF vars
<1>3. ASSUME NEW l \in Lease, NEW reqs \in BoundedSeq(Request, MaxRequests), Acquire(l, reqs)
      PROVE  Retained' \subseteq Retained /\ clock' = clock
  <2>1. idle' = idle /\ pending' = <<>> /\ clock' = clock
    BY <1>3 DEF Acquire
  <2> QED BY <1>1, <2>1
<1>4. ASSUME NEW l \in Lease, Drop(l)
      PROVE  Retained' \subseteq Retained /\ clock' = clock
  BY <1>1, <1>4 DEF Drop
<1>5. ASSUME NEW limit \in IdleLimit, SetMaxIdleBytes(limit)
      PROVE  Retained' \subseteq Retained /\ clock' = clock
  BY <1>1, <1>5 DEF SetMaxIdleBytes
<1>6. CASE Reuse
  BY <1>6, ReuseRetains DEF Reuse
<1>7. ASSUME NEW capacity \in Bytes, Allocate(capacity)
      PROVE  Retained' \subseteq Retained /\ clock' = clock
  BY <1>7, AllocateRetains DEF Allocate
<1>8. ASSUME Rollback PROVE Retained' \subseteq Retained /\ clock' = clock
  BY <1>8, RollbackRetains DEF Rollback
<1>9. CASE EvictAllIdle \/ EvictOldest \/ Trimmed
  BY <1>1, <1>9 DEF EvictAllIdle, EvictOldest, Trimmed
<1>10. CASE Grant
  <2>1. idle' = idle /\ pending' = <<>> /\ clock' = clock
    BY <1>10 DEF Grant
  <2> QED BY <1>1, <2>1
<1> QED BY <1>2, <1>3, <1>4, <1>5, <1>6, <1>7, <1>8, <1>9, <1>10
        DEF Next, Serve, Trim, AllocateShort, AllocationFails, RefuseOverflow

\* No identifier is retained twice.
LEMMA RetainedDistinct ==
  ASSUME IInv
  PROVE  /\ \A e, f \in Retained : e.id = f.id => e = f
         /\ Retained \subseteq Entry
<1>1. Reused = {pending[i].entry : i \in ReusedAt} /\ Reused \subseteq Entry
  BY ReusedFinite DEF IInv
<1>2. \A e, f \in Reused : e.id = f.id => e = f
  BY <1>1 DEF IInv, Distinct
<1>3. \A e \in idle, f \in Reused : e.id # f.id
  BY <1>1 DEF IInv, Apart
<1> QED BY <1>1, <1>2, <1>3 DEF Retained, IInv, Distinct, Typed

\* Ranks follow the order of the segments and stay below their number.
LEMMA RankOrder ==
  ASSUME IInv
  PROVE  /\ \A e \in idle : Rank(e) \in Nat /\ Rank(e) < Cardinality(idle)
         /\ \A e, f \in idle : Older(e, f) => Rank(e) < Rank(f)
         /\ Cardinality(idle) \in Nat
<1> DEFINE Before(e) == {f \in idle : Older(f, e)}
<1>1. /\ IsFiniteSet(idle)
      /\ \A e \in idle : e.id \in Nat /\ e.last_used \in Nat
  BY DEF IInv, Typed, Entry
<1>2. \A e \in idle : ~ Older(e, e)
  BY <1>1 DEF Older, Precedes
<1>3. \A e, f, g \in idle : Older(g, e) /\ Older(e, f) => Older(g, f)
  BY <1>1 DEF Older, Precedes
<1>4. \A e \in idle : Rank(e) \in Nat /\ Rank(e) < Cardinality(idle)
  <2> TAKE e \in idle
  <2>1. Before(e) \subseteq idle \ {e}
    BY <1>2
  <2> QED BY <1>1, <2>1, SmallerSubset DEF Rank
<1>5. \A e, f \in idle : Older(e, f) => Rank(e) < Rank(f)
  <2> TAKE e, f \in idle
  <2> HAVE Older(e, f)
  <2>1. Before(e) \subseteq Before(f) \ {e} /\ e \in Before(f)
    BY <1>2, <1>3
  <2>2. IsFiniteSet(Before(f))
    BY <1>1, FS_Subset
  <2> QED BY <2>1, <2>2, SmallerSubset DEF Rank
<1> QED BY <1>1, <1>4, <1>5, FS_CardinalityType

\* The return of a segment keeps the order and makes the segment the newest,
\* with and without a compaction of the clock.
LEMMA ReturnOrder ==
  ASSUME IInv, Ticks, ReturnSegment
  PROVE  /\ Ticks'
         /\ \A e, f \in Retained, g, h \in Retained' :
              e.id = g.id /\ f.id = h.id /\ Older(e, f) => Older(g, h)
         /\ \A g, h \in Retained' :
              (\E e \in Retained : e.id = g.id) /\ (\A e \in Retained : e.id # h.id)
                => Older(g, h)
<1> DEFINE new == [Head(returning) EXCEPT !.last_used = NextTick]
<1>1. /\ phase = "trim" /\ returning # <<>> /\ clock' = NextTick
      /\ idle' = Ticked \cup {new} /\ pending' = pending
  BY DEF ReturnSegment, acquiring
<1>2. Reused = {} /\ Reused' = {} /\ Retained = idle /\ Retained' = Ticked \cup {new}
  BY <1>1, EmptyPending, EmptyPendingPrime DEF IInv, Locked, Retained
<1>3. NextTick \in Nat /\ Typed
  BY Stamp DEF IInv
<1>4. returning[1] \in Entry /\ Head(returning) = returning[1] /\ 1 \in DOMAIN returning
  BY <1>1, <1>3 DEF Typed
<1>5. new.id = returning[1].id /\ new.last_used = NextTick
  BY <1>3, <1>4 DEF Entry
<1> HIDE DEF new
<1>6. \A e \in idle : e.id # new.id
  BY <1>4, <1>5 DEF IInv, Apart
<1>7. \A e \in idle : e.id \in Nat /\ e.last_used \in Nat
  BY <1>3 DEF Typed, Entry
\* The tick of a segment that was idle before.
<1>8. \A g \in Ticked : \E e \in idle :
        /\ g.id = e.id /\ g.last_used \in Nat /\ g.last_used < NextTick
        /\ \/ clock + 1 <= MaxU64 /\ g.last_used = e.last_used
           \/ ~ (clock + 1 <= MaxU64) /\ g.last_used = Rank(e)
  <2>1. CASE clock + 1 <= MaxU64
    <3>1. Ticked = idle /\ NextTick = clock + 1 /\ clock \in Nat
      BY <1>3, <2>1 DEF Ticked, NextTick, Typed
    <3>2. \A e \in idle : e.last_used <= clock
      BY <1>2 DEF Ticks
    <3> QED BY <1>7, <2>1, <3>1, <3>2
  <2>2. CASE ~ (clock + 1 <= MaxU64)
    <3> TAKE g \in Ticked
    <3>1. PICK e \in idle : g = [e EXCEPT !.last_used = Rank(e)]
      BY <2>2 DEF Ticked
    <3>2. NextTick = Cardinality(idle)
      BY <2>2, <3>1 DEF NextTick
    <3>3. g.id = e.id /\ g.last_used = Rank(e)
      BY <1>3, <3>1 DEF Typed, Entry
    <3> QED BY <2>2, <3>2, <3>3, RankOrder
  <2> QED BY <2>1, <2>2
<1>9. \A e, f \in idle : e.id = f.id => e = f
  BY DEF IInv, Distinct
<1>10. ASSUME NEW e \in idle, NEW f \in idle, NEW g \in Ticked, NEW h \in Ticked,
              e.id = g.id, f.id = h.id, Older(e, f)
       PROVE  Older(g, h)
  <2>1. CASE clock + 1 <= MaxU64
    BY <1>8, <1>9, <1>10, <2>1 DEF Older, Precedes
  <2>2. CASE ~ (clock + 1 <= MaxU64)
    <3>1. g.last_used = Rank(e) /\ h.last_used = Rank(f)
      BY <1>8, <1>9, <1>10, <2>2
    <3>2. Rank(e) < Rank(f)
      BY <1>10, RankOrder
    <3> QED BY <3>1, <3>2 DEF Older, Precedes
  <2> QED BY <2>1, <2>2
<1>11. \A e, f \in Retained, g, h \in Retained' :
         e.id = g.id /\ f.id = h.id /\ Older(e, f) => Older(g, h)
  BY <1>2, <1>6, <1>10
<1>12. \A g, h \in Retained' :
         (\E e \in Retained : e.id = g.id) /\ (\A e \in Retained : e.id # h.id)
           => Older(g, h)
  <2>1. \A g \in Ticked : \E e \in idle : g.id = e.id
    BY <1>8
  <2>2. \A g \in Ticked : g.last_used < new.last_used
    BY <1>5, <1>8
  <2> QED BY <1>2, <1>6, <2>1, <2>2 DEF Older, Precedes
<1>13. Ticks'
  <2>1. \A g \in Ticked \cup {new} : g.last_used <= NextTick
    BY <1>3, <1>5, <1>8
  <2> QED BY <1>1, <1>2, <2>1 DEF Ticks
<1> QED BY <1>11, <1>12, <1>13

LEMMA TicksNext == IInv /\ Ticks /\ [Next]_vars => Ticks'
<1> SUFFICES ASSUME IInv, Ticks, [Next]_vars PROVE Ticks'
  OBVIOUS
<1>1. CASE ReturnSegment
  BY <1>1, ReturnOrder
<1>2. CASE ~ ReturnSegment
  BY <1>2, OthersRetain DEF Ticks
<1> QED BY <1>1, <1>2

LEMMA TicksInit == Init => Ticks
BY DEF Init, Ticks, Retained, Reused

LEMMA LruNext ==
  ASSUME IInv, Ticks, [Next]_vars
  PROVE  /\ \A e, f \in Retained, g, h \in Retained' :
              e.id = g.id /\ f.id = h.id /\ Older(e, f) => Older(g, h)
         /\ \A g, h \in Retained' :
              (\E e \in Retained : e.id = g.id) /\ (\A e \in Retained : e.id # h.id)
                => Older(g, h)
<1>1. CASE ReturnSegment
  BY <1>1, ReturnOrder
<1>2. CASE ~ ReturnSegment
  BY <1>2, OthersRetain, RetainedDistinct
<1> QED BY <1>1, <1>2

\* The oldest idle segment is evicted first, however often the 64-bit clock
\* was compacted and whichever acquisitions were rolled back in between
\* (workspace.rs, next_lru_tick and rollback).
THEOREM EvictionOrder == Spec => LruStable
<1>1. IInv /\ Ticks /\ [Next]_vars => (IInv /\ Ticks)'
  BY NextInv, TicksNext
<1>2. Init => IInv /\ Ticks
  BY InitInv, TicksInit
<1>3. Spec => [](IInv /\ Ticks)
  BY <1>1, <1>2, PTL DEF Spec
<1> QED BY <1>3, LruNext, PTL DEF Spec, LruStable

-----------------------------------------------------------------------------
(* Sums, counted by their units.                                           *)

\* A function from a finite set to the naturals.
Weights(f) == IsFiniteSet(DOMAIN f) /\ \A x \in DOMAIN f : f[x] \in Nat

LEMMA UnitsOf ==
  ASSUME NEW f
  PROVE  \A u : u \in Units(f) <=> \E x \in DOMAIN f : \E n \in 1 .. f[x] : u = <<x, n>>
<1>1. Units(f) = UNION {{x} \X (1 .. f[x]) : x \in DOMAIN f}
  BY DEF Units
<1>2. \A x, S, u : u \in {x} \X S <=> \E n \in S : u = <<x, n>>
  OBVIOUS
<1> QED BY <1>1, <1>2

LEMMA TotalNat ==
  ASSUME NEW f, Weights(f)
  PROVE  IsFiniteSet(Units(f)) /\ Total(f) \in Nat
<1> DEFINE Column(x) == {x} \X (1 .. f[x])
           columns == [x \in DOMAIN f |-> Column(x)]
           all == {columns[x] : x \in DOMAIN f}
<1>1. \A x \in DOMAIN f : IsFiniteSet(Column(x))
  <2> TAKE x \in DOMAIN f
  <2>1. IsFiniteSet(1 .. f[x])
    BY FS_Interval DEF Weights
  <2>2. IsFiniteSet({x})
    BY FS_Singleton
  <2> QED BY <2>1, <2>2, FS_Product
<1>2. IsFiniteSet(all)
  <2>1. DOMAIN columns = DOMAIN f /\ columns = [x \in DOMAIN f |-> columns[x]]
    OBVIOUS
  <2>2. IsFiniteSet(DOMAIN f)
    BY DEF Weights
  <2> HIDE DEF columns
  <2> QED BY <2>1, <2>2, FiniteImage
<1>3. \A S \in all : IsFiniteSet(S)
  BY <1>1
<1>4. Units(f) = UNION all
  BY DEF Units
<1> HIDE DEF all
<1>5. IsFiniteSet(Units(f))
  BY <1>2, <1>3, <1>4, FS_UNION
<1> QED BY <1>5, FS_CardinalityType DEF Total

\* A sum over two disjoint parts is the sum of the sums.
LEMMA TotalSplit ==
  ASSUME NEW f, NEW g, NEW h, Weights(g), Weights(h),
         DOMAIN f = DOMAIN g \cup DOMAIN h, DOMAIN g \cap DOMAIN h = {},
         \A x \in DOMAIN g : f[x] = g[x], \A x \in DOMAIN h : f[x] = h[x]
  PROVE  Weights(f) /\ Total(f) = Total(g) + Total(h)
<1>1. Units(f) = Units(g) \cup Units(h)
  BY UnitsOf
<1>2. Units(g) \cap Units(h) = {}
  BY UnitsOf
<1>3. /\ IsFiniteSet(Units(g)) /\ Total(g) \in Nat
      /\ IsFiniteSet(Units(h)) /\ Total(h) \in Nat
  BY TotalNat
<1>4. Cardinality(Units(g) \cap Units(h)) = 0
  BY <1>2, FS_EmptySet
<1>5. Cardinality(Units(f)) = Cardinality(Units(g)) + Cardinality(Units(h)) - 0
  BY <1>1, <1>3, <1>4, FS_Union
<1>6. Weights(f)
  BY FS_Union DEF Weights
<1> QED BY <1>3, <1>5, <1>6 DEF Total

\* The sum over one element is its value, over none it is zero.
LEMMA TotalOne ==
  ASSUME NEW x, NEW n \in Nat
  PROVE  Weights([y \in {x} |-> n]) /\ Total([y \in {x} |-> n]) = n
<1> DEFINE f == [y \in {x} |-> n]
           count == [i \in 1 .. n |-> <<x, i>>]
<1>1. count \in Bijection(1 .. n, Units(f))
  <2>1. Units(f) = {<<x, i>> : i \in 1 .. n}
    BY UnitsOf
  <2> QED BY <2>1 DEF Bijection, Injection, IsInjective, Surjection
<1>2. IsFiniteSet(1 .. n) /\ Cardinality(1 .. n) = n
  BY FS_Interval
<1>3. Cardinality(Units(f)) = Cardinality(1 .. n)
  BY <1>1, <1>2, FS_Bijection DEF ExistsBijection
<1>4. Weights(f)
  BY FS_Singleton DEF Weights
<1> QED BY <1>2, <1>3, <1>4 DEF Total

LEMMA TotalNone == ASSUME NEW f, DOMAIN f = {} PROVE Weights(f) /\ Total(f) = 0
<1>1. Units(f) = {}
  BY UnitsOf
<1> QED BY <1>1, FS_EmptySet DEF Total, Weights

\* Values that move to other places keep their sum.
LEMMA TotalMoved ==
  ASSUME NEW f, NEW g, NEW to, Weights(f), to \in Bijection(DOMAIN f, DOMAIN g),
         \A x \in DOMAIN f : g[to[x]] = f[x]
  PROVE  Weights(g) /\ Total(g) = Total(f)
<1> DEFINE move == [u \in Units(f) |-> <<to[u[1]], u[2]>>]
<1>1. /\ \A x \in DOMAIN f : to[x] \in DOMAIN g
      /\ \A x, y \in DOMAIN f : to[x] = to[y] => x = y
      /\ \A z \in DOMAIN g : \E x \in DOMAIN f : to[x] = z
  BY DEF Bijection, Injection, IsInjective, Surjection
<1>2. move \in Injection(Units(f), Units(g))
  <2>1. \A u \in Units(f) : move[u] \in Units(g)
    BY <1>1, UnitsOf
  <2>2. \A u, v \in Units(f) : move[u] = move[v] => u = v
    BY <1>1, UnitsOf
  <2> QED BY <2>1, <2>2 DEF Injection, IsInjective
<1>3. move \in Surjection(Units(f), Units(g))
  <2>1. \A v \in Units(g) : \E u \in Units(f) : move[u] = v
    <3> TAKE v \in Units(g)
    <3>1. PICK z \in DOMAIN g : \E n \in 1 .. g[z] : v = <<z, n>>
      BY UnitsOf
    <3>2. PICK n \in 1 .. g[z] : v = <<z, n>>
      BY <3>1
    <3>3. PICK x \in DOMAIN f : to[x] = z
      BY <1>1
    <3>4. <<x, n>> \in Units(f)
      BY <3>2, <3>3, UnitsOf
    <3> QED BY <3>2, <3>3, <3>4
  <2> QED BY <1>2, <2>1 DEF Injection, Surjection
<1>4. IsFiniteSet(Units(f))
  BY TotalNat
<1>5. Cardinality(Units(g)) = Cardinality(Units(f))
  BY <1>2, <1>3, <1>4, FS_Bijection DEF ExistsBijection, Bijection
<1>6. Weights(g)
  <2>1. IsFiniteSet(DOMAIN g)
    BY FS_Bijection DEF Weights, ExistsBijection
  <2> QED BY <1>1, <2>1 DEF Weights
<1> QED BY <1>5, <1>6 DEF Total

\* A part has at most the sum of the whole.
LEMMA TotalPart ==
  ASSUME NEW f, NEW g, Weights(g), DOMAIN f \subseteq DOMAIN g,
         \A x \in DOMAIN f : f[x] = g[x]
  PROVE  Weights(f) /\ Total(f) <= Total(g)
<1>1. Units(f) \in SUBSET Units(g)
  BY UnitsOf
<1>2. Weights(f)
  BY FS_Subset DEF Weights
<1> QED BY <1>1, <1>2, TotalNat, FS_Subset DEF Total

\* The sizes of a set and of a sequence of segments.
LEMMA SetSizes ==
  ASSUME NEW S \in SUBSET Entry, IsFiniteSet(S)
  PROVE  Weights([e \in S |-> e.capacity]) /\ Capacity(S) \in Nat
<1>1. \A e \in S : e.capacity \in Nat
  BY WorkspacePoolConstants DEF Entry
<1>2. Weights([e \in S |-> e.capacity])
  BY <1>1 DEF Weights
<1> QED BY <1>2, TotalNat DEF Capacity

LEMMA SeqSizes ==
  ASSUME NEW s \in Seq(Entry)
  PROVE  Weights([i \in DOMAIN s |-> s[i].capacity]) /\ SeqCapacity(s) \in Nat
<1>1. \A i \in DOMAIN s : s[i] \in Entry
  OBVIOUS
<1>2. \A i \in DOMAIN s : s[i].capacity \in Nat
  BY <1>1, WorkspacePoolConstants DEF Entry
<1>3. IsFiniteSet(DOMAIN s)
  <2>1. DOMAIN s = 1 .. Len(s) /\ Len(s) \in Nat
    OBVIOUS
  <2> QED BY <2>1, FS_Interval
<1>4. Weights([i \in DOMAIN s |-> s[i].capacity])
  BY <1>2, <1>3 DEF Weights
<1> QED BY <1>4, TotalNat DEF SeqCapacity

LEMMA CapacityUnion ==
  ASSUME NEW S \in SUBSET Entry, NEW T \in SUBSET Entry,
         IsFiniteSet(S), IsFiniteSet(T), S \cap T = {}
  PROVE  Capacity(S \cup T) = Capacity(S) + Capacity(T)
<1> DEFINE Sizes(R) == [e \in R |-> e.capacity]
<1>1. Weights(Sizes(S)) /\ Weights(Sizes(T))
  BY SetSizes
<1>2. Total(Sizes(S \cup T)) = Total(Sizes(S)) + Total(Sizes(T))
  <2>1. /\ DOMAIN Sizes(S \cup T) = DOMAIN Sizes(S) \cup DOMAIN Sizes(T)
        /\ DOMAIN Sizes(S) \cap DOMAIN Sizes(T) = {}
        /\ \A x \in DOMAIN Sizes(S) : Sizes(S \cup T)[x] = Sizes(S)[x]
        /\ \A x \in DOMAIN Sizes(T) : Sizes(S \cup T)[x] = Sizes(T)[x]
    OBVIOUS
  <2> HIDE DEF Sizes
  <2> QED BY <1>1, <2>1, TotalSplit
<1> QED BY <1>2 DEF Capacity

LEMMA CapacityOne ==
  ASSUME NEW e \in Entry
  PROVE  Capacity({e}) = e.capacity /\ e.capacity \in Nat
<1>1. e.capacity \in Nat
  BY WorkspacePoolConstants DEF Entry
<1>2. [x \in {e} |-> x.capacity] = [x \in {e} |-> e.capacity]
  OBVIOUS
<1> QED BY <1>1, <1>2, TotalOne DEF Capacity

LEMMA CapacityRemove ==
  ASSUME NEW S \in SUBSET Entry, IsFiniteSet(S), NEW e \in S
  PROVE  /\ Capacity(S) = Capacity(S \ {e}) + e.capacity
         /\ Capacity(S \ {e}) \in Nat /\ e.capacity \in Nat
<1>1. S = (S \ {e}) \cup {e} /\ (S \ {e}) \cap {e} = {}
  OBVIOUS
<1>2. IsFiniteSet(S \ {e}) /\ IsFiniteSet({e}) /\ e \in Entry
  BY FS_RemoveElement, FS_Singleton
<1>3. Capacity((S \ {e}) \cup {e}) = Capacity(S \ {e}) + Capacity({e})
  BY <1>1, <1>2, CapacityUnion
<1> QED BY <1>1, <1>2, <1>3, CapacityOne, SetSizes

LEMMA CapacityPart ==
  ASSUME NEW T \in SUBSET Entry, IsFiniteSet(T), NEW S \in SUBSET T
  PROVE  Capacity(S) <= Capacity(T)
<1> DEFINE Sizes(R) == [e \in R |-> e.capacity]
<1>1. Weights(Sizes(T))
  BY SetSizes
<1>2. DOMAIN Sizes(S) \subseteq DOMAIN Sizes(T) /\ \A e \in DOMAIN Sizes(S) : Sizes(S)[e] = Sizes(T)[e]
  OBVIOUS
<1>3. Total(Sizes(S)) <= Total(Sizes(T))
  <2> HIDE DEF Sizes
  <2> QED BY <1>1, <1>2, TotalPart
<1> QED BY <1>3 DEF Capacity

LEMMA CapacityNone == Capacity({}) = 0 /\ SeqCapacity(<<>>) = 0
<1>1. DOMAIN [e \in {} |-> e.capacity] = {} /\ DOMAIN [i \in DOMAIN <<>> |-> <<>>[i].capacity] = {}
  OBVIOUS
<1> QED BY <1>1, TotalNone DEF Capacity, SeqCapacity

\* A segment more at the end, or at the front.
LEMMA SeqCapacityAppend ==
  ASSUME NEW s \in Seq(Entry), NEW e \in Entry
  PROVE  SeqCapacity(Append(s, e)) = SeqCapacity(s) + e.capacity
<1> DEFINE n == Len(s) + 1
           f == [i \in DOMAIN Append(s, e) |-> Append(s, e)[i].capacity]
           g == [i \in DOMAIN s |-> s[i].capacity]
           h == [i \in {n} |-> e.capacity]
<1>1. Weights(g)
  BY SeqSizes
<1>2. Weights(h) /\ Total(h) = e.capacity
  BY CapacityOne, TotalOne
<1>3. /\ DOMAIN f = DOMAIN g \cup DOMAIN h /\ DOMAIN g \cap DOMAIN h = {}
      /\ \A i \in DOMAIN g : f[i] = g[i]
      /\ \A i \in DOMAIN h : f[i] = h[i]
  OBVIOUS
<1>4. Total(f) = Total(g) + Total(h)
  <2> HIDE DEF f, g, h
  <2> QED BY <1>1, <1>2, <1>3, TotalSplit
<1> QED BY <1>2, <1>4 DEF SeqCapacity

LEMMA SeqCapacityTail ==
  ASSUME NEW s \in Seq(Entry), s # <<>>
  PROVE  /\ SeqCapacity(s) = Head(s).capacity + SeqCapacity(Tail(s))
         /\ Head(s) \in Entry /\ Tail(s) \in Seq(Entry)
<1> DEFINE f == [i \in DOMAIN s |-> s[i].capacity]
           g == [i \in {1} |-> s[1].capacity]
           h == [i \in DOMAIN s \ {1} |-> s[i].capacity]
           t == [i \in DOMAIN Tail(s) |-> Tail(s)[i].capacity]
           shift == [i \in DOMAIN Tail(s) |-> i + 1]
<1>1. /\ Head(s) \in Entry /\ Tail(s) \in Seq(Entry) /\ Head(s) = s[1]
      /\ DOMAIN s = 1 .. Len(s) /\ Len(s) \in Nat \ {0}
      /\ DOMAIN Tail(s) = 1 .. Len(s) - 1
      /\ \A i \in 1 .. Len(s) - 1 : Tail(s)[i] = s[i + 1]
  OBVIOUS
<1>2. Weights(t)
  BY <1>1, SeqSizes
<1>3. Weights(g) /\ Total(g) = s[1].capacity
  BY <1>1, CapacityOne, TotalOne
<1>4. shift \in Bijection(DOMAIN t, DOMAIN h) /\ \A i \in DOMAIN t : h[shift[i]] = t[i]
  <2>1. \A i \in DOMAIN t : shift[i] \in DOMAIN h
    BY <1>1
  <2>2. \A j \in DOMAIN h : j - 1 \in DOMAIN t /\ shift[j - 1] = j
    BY <1>1
  <2>3. \A i, j \in DOMAIN t : shift[i] = shift[j] => i = j
    BY <1>1
  <2>4. shift \in Bijection(DOMAIN t, DOMAIN h)
    BY <2>1, <2>2, <2>3 DEF Bijection, Injection, Surjection, IsInjective
  <2> QED BY <1>1, <2>1, <2>4
<1>5. Weights(h) /\ Total(h) = Total(t)
  <2> HIDE DEF t, h, shift
  <2> QED BY <1>2, <1>4, TotalMoved
<1>6. /\ DOMAIN f = DOMAIN g \cup DOMAIN h /\ DOMAIN g \cap DOMAIN h = {}
      /\ \A i \in DOMAIN g : f[i] = g[i]
      /\ \A i \in DOMAIN h : f[i] = h[i]
  BY <1>1
<1>7. Total(f) = Total(g) + Total(h)
  <2> HIDE DEF f, g, h, t, shift
  <2> QED BY <1>3, <1>5, <1>6, TotalSplit
<1> QED BY <1>1, <1>3, <1>5, <1>7 DEF SeqCapacity

\* The places of one lease.
LEMMA PlacesOf ==
  ASSUME NEW s \in Seq(Entry), NEW l
  PROVE  /\ Weights([p \in {l} \X DOMAIN s |-> s[p[2]].capacity])
         /\ Total([p \in {l} \X DOMAIN s |-> s[p[2]].capacity]) = SeqCapacity(s)
         /\ IsFiniteSet({l} \X DOMAIN s) /\ Cardinality({l} \X DOMAIN s) = Len(s)
<1> DEFINE f == [i \in DOMAIN s |-> s[i].capacity]
           g == [p \in {l} \X DOMAIN s |-> s[p[2]].capacity]
           to == [i \in DOMAIN s |-> <<l, i>>]
<1>1. Weights(f)
  BY SeqSizes
<1>2. to \in Bijection(DOMAIN s, {l} \X DOMAIN s)
  <2>1. to \in [DOMAIN s -> {l} \X DOMAIN s]
    OBVIOUS
  <2>2. \A i, j \in DOMAIN s : to[i] = to[j] => i = j
    OBVIOUS
  <2>3. \A p \in {l} \X DOMAIN s : p[2] \in DOMAIN s /\ to[p[2]] = p
    OBVIOUS
  <2> HIDE DEF to
  <2> QED BY <2>1, <2>2, <2>3 DEF Bijection, Injection, Surjection, IsInjective
<1>3. \A i \in DOMAIN f : g[to[i]] = f[i]
  OBVIOUS
<1>4. DOMAIN f = DOMAIN s /\ DOMAIN g = {l} \X DOMAIN s
  OBVIOUS
<1>5. Weights(g) /\ Total(g) = Total(f)
  <2> HIDE DEF f, g, to
  <2> QED BY <1>1, <1>2, <1>3, <1>4, TotalMoved
<1>6. IsFiniteSet(DOMAIN s) /\ Cardinality(DOMAIN s) = Len(s)
  <2>1. DOMAIN s = 1 .. Len(s) /\ Len(s) \in Nat
    OBVIOUS
  <2>2. \A n \in Nat : IsFiniteSet(1 .. n) /\ Cardinality(1 .. n) = n
    BY FS_Interval
  <2> QED BY <2>1, <2>2
<1>7. IsFiniteSet({l} \X DOMAIN s) /\ Cardinality({l} \X DOMAIN s) = Len(s)
  BY <1>2, <1>6, FS_Bijection DEF ExistsBijection
<1> QED BY <1>5, <1>7 DEF SeqCapacity

-----------------------------------------------------------------------------
(* The counters.                                                           *)

\* The counters are the sums they stand for, and what the allocator has given
\* out, wherever it is now, was within its memory.
Ledger ==
  /\ idleBytes = Capacity(idle)
  /\ IsFiniteSet(Places)
  /\ leasedBytes = Total(PlaceCapacity) /\ leasedSegments = Cardinality(Places)
  /\ Outstanding + SeqCapacity(returning) <= Memory

LEMMA PlaceSizes ==
  ASSUME Typed, IsFiniteSet(Places)
  PROVE  /\ Weights(PlaceCapacity) /\ Total(PlaceCapacity) \in Nat
         /\ Cardinality(Places) \in Nat
<1>1. \A p \in Places : p[1] \in Live /\ p[2] \in DOMAIN Leased(p[1])
  BY DEF Places, Leased
<1>2. \A p \in Places : lease[p[1]].segments[p[2]].capacity \in Nat
  BY <1>1, LeasedSegments, WorkspacePoolConstants DEF Entry, Leased
<1>3. Weights(PlaceCapacity)
  BY <1>2 DEF Weights, PlaceCapacity
<1> QED BY <1>3, TotalNat, FS_CardinalityType

LEMMA EntriesSeq ==
  ASSUME Typed
  PROVE  /\ Entries \in Seq(Entry) /\ Len(Entries) = Len(pending)
         /\ DOMAIN Entries = DOMAIN pending /\ SeqCapacity(Entries) \in Nat
<1>1. \A i \in DOMAIN pending : pending[i].entry \in Entry
  <2>1. \A i \in DOMAIN pending : pending[i] \in PendingEntry
    BY DEF Typed
  <2> QED BY <2>1 DEF PendingEntry
<1>2. pending \in Seq(PendingEntry) /\ DOMAIN pending = 1 .. Len(pending) /\ Len(pending) \in Nat
  BY DEF Typed
<1>3. Entries \in [1 .. Len(pending) -> Entry]
  BY <1>1, <1>2 DEF Entries
<1>4. Entries \in Seq(Entry) /\ Len(Entries) = Len(pending) /\ DOMAIN Entries = DOMAIN pending
  BY <1>2, <1>3
<1> QED BY <1>4, SeqSizes

LEMMA LedgerNat ==
  ASSUME IInv, Ledger
  PROVE  /\ idleBytes \in Nat /\ leasedBytes \in Nat /\ leasedSegments \in Nat
         /\ SeqCapacity(Entries) \in Nat /\ SeqCapacity(returning) \in Nat
         /\ Memory \in Nat /\ MaxUsize \in Nat /\ Memory <= MaxUsize
<1>1. idleBytes \in Nat
  BY SetSizes DEF IInv, Typed, Ledger
<1>2. leasedBytes \in Nat /\ leasedSegments \in Nat
  BY PlaceSizes DEF IInv, Ledger
<1>3. SeqCapacity(returning) \in Nat
  BY SeqSizes DEF IInv, Typed
<1> QED BY <1>1, <1>2, <1>3, EntriesSeq, WorkspacePoolConstants DEF IInv

\* What a step leaves alone.
LEMMA SamePlaces ==
  ASSUME lease' = lease
  PROVE  Places' = Places /\ PlaceCapacity' = PlaceCapacity
BY DEF Places, PlaceCapacity, Live

LEMMA SameEntries == ASSUME pending' = pending PROVE Entries' = Entries
BY DEF Entries

LEMMA NoEntries == ASSUME pending = <<>> PROVE SeqCapacity(Entries) = 0
<1>1. Entries = <<>>
  BY DEF Entries
<1> QED BY <1>1, CapacityNone

LEMMA NoEntriesPrime == ASSUME pending' = <<>> PROVE SeqCapacity(Entries') = 0
<1>1. Entries' = <<>>
  BY DEF Entries
<1> QED BY <1>1, CapacityNone

LEMMA LedgerInit == Init => Ledger
<1> SUFFICES ASSUME Init PROVE Ledger
  OBVIOUS
<1>1. Places = {}
  BY DEF Init, Places, Live
<1>2. Cardinality(Places) = 0 /\ IsFiniteSet(Places)
  BY <1>1, FS_EmptySet
<1>3. Total(PlaceCapacity) = 0
  BY <1>1, TotalNone DEF PlaceCapacity
<1>4. Capacity(idle) = 0 /\ SeqCapacity(returning) = 0
  BY CapacityNone DEF Init
<1>5. SeqCapacity(Entries) = 0
  BY NoEntries DEF Init
<1> QED BY <1>2, <1>3, <1>4, <1>5, WorkspacePoolConstants DEF Init, Ledger, Outstanding

\* Steps that move no segment.
LEMMA LedgerSame ==
  ASSUME IInv, Ledger, SeqCapacity(Entries)' = SeqCapacity(Entries),
         UNCHANGED <<idle, idleBytes, leasedBytes, leasedSegments, lease, returning>>
  PROVE  Ledger'
BY SamePlaces DEF Ledger, Outstanding

LEMMA LedgerReuse == ASSUME IInv, Ledger, Reuse PROVE Ledger'
<1>1. PICK e \in idle : /\ idle' = idle \ {e} /\ idleBytes' = idleBytes - e.capacity
                        /\ pending' = Append(pending, [entry |-> e, reused |-> TRUE])
  BY DEF Reuse
<1>2. UNCHANGED <<lease, returning, leasedBytes, leasedSegments>>
  BY DEF Reuse
<1>3. Entries' = Append(Entries, e)
  BY <1>1 DEF Entries, IInv, Typed
<1>4. SeqCapacity(Entries') = SeqCapacity(Entries) + e.capacity
  BY <1>1, <1>3, EntriesSeq, SeqCapacityAppend DEF IInv, Typed
<1>5. Capacity(idle) = Capacity(idle \ {e}) + e.capacity /\ Capacity(idle \ {e}) \in Nat
      /\ e.capacity \in Nat
  BY <1>1, CapacityRemove DEF IInv, Typed
<1>6. idleBytes' = Capacity(idle')
  BY <1>1, <1>5 DEF Ledger
<1>7. Outstanding' = Outstanding
  <2>1. idleBytes \in Nat /\ leasedBytes \in Nat /\ SeqCapacity(Entries) \in Nat
    BY LedgerNat
  <2>2. idleBytes' = idleBytes - e.capacity /\ leasedBytes' = leasedBytes
    BY <1>1, <1>2
  <2> QED BY <1>4, <1>5, <2>1, <2>2 DEF Outstanding
<1> QED BY <1>2, <1>6, <1>7, SamePlaces DEF Ledger

LEMMA LedgerAllocate ==
  ASSUME IInv, Ledger, NEW capacity \in Bytes, Allocate(capacity)
  PROVE  Ledger'
<1> DEFINE e == [id |-> 0, key |-> Wanted.key, capacity |-> capacity, last_used |-> 0]
<1>1. /\ pending' = Append(pending, [entry |-> e, reused |-> FALSE])
      /\ UNCHANGED <<idle, idleBytes, lease, returning, leasedBytes, leasedSegments>>
      /\ Outstanding + capacity <= Memory /\ phase = "acquire" /\ Unserved
  BY DEF Allocate, counters, Misses, Unserved
<1>2. e \in Entry /\ e.capacity = capacity
  BY <1>1, WantedIsRequest DEF Entry, Request
<1>3. Entries' = Append(Entries, e)
  BY <1>1 DEF Entries, IInv, Typed
<1> HIDE DEF e
<1>4. SeqCapacity(Entries') = SeqCapacity(Entries) + capacity
  BY <1>2, <1>3, EntriesSeq, SeqCapacityAppend DEF IInv
<1>5. SeqCapacity(returning) = 0
  BY <1>1, CapacityNone DEF IInv, Locked
<1>6. Outstanding' = Outstanding + capacity /\ Outstanding \in Nat /\ capacity \in Nat
  <2>1. idleBytes \in Nat /\ leasedBytes \in Nat /\ SeqCapacity(Entries) \in Nat
    BY LedgerNat
  <2>2. idleBytes' = idleBytes /\ leasedBytes' = leasedBytes /\ capacity \in Nat
    BY <1>1, WorkspacePoolConstants
  <2> QED BY <1>4, <2>1, <2>2 DEF Outstanding
<1>7. Outstanding' + SeqCapacity(returning') <= Memory
  BY <1>1, <1>5, <1>6, WorkspacePoolConstants
<1> QED BY <1>1, <1>7, SamePlaces DEF Ledger

\* The reused segments are among those taken.
LEMMA ReusedCapacity ==
  ASSUME IInv
  PROVE  Capacity(Reused) <= SeqCapacity(Entries) /\ Capacity(Reused) \in Nat
<1> DEFINE all == [i \in DOMAIN Entries |-> Entries[i].capacity]
           part == [i \in ReusedAt |-> Entries[i].capacity]
           sizes == [e \in Reused |-> e.capacity]
           to == [i \in ReusedAt |-> Entries[i]]
<1>1. /\ Typed /\ Reused = {pending[i].entry : i \in ReusedAt}
      /\ Reused \subseteq Entry /\ IsFiniteSet(Reused)
  BY ReusedFinite DEF IInv
<1>2. Entries \in Seq(Entry) /\ DOMAIN Entries = DOMAIN pending
      /\ \A i \in DOMAIN pending : Entries[i] = pending[i].entry
  BY <1>1, EntriesSeq DEF Entries
<1>3. ReusedAt \subseteq DOMAIN Entries
  BY <1>2 DEF ReusedAt
<1>4. Weights(all)
  BY <1>2, SeqSizes
<1>5. DOMAIN part \subseteq DOMAIN all /\ \A i \in DOMAIN part : part[i] = all[i]
  BY <1>3
<1>6. Weights(part) /\ Total(part) <= Total(all)
  <2> HIDE DEF part, all
  <2> QED BY <1>4, <1>5, TotalPart
<1>7. to \in Bijection(ReusedAt, Reused)
  <2>1. to \in [ReusedAt -> Reused]
    BY <1>1, <1>2, <1>3
  <2>2. \A i, j \in ReusedAt : to[i] = to[j] => i = j
    BY <1>2, <1>3 DEF IInv, Distinct
  <2>3. \A e \in Reused : \E i \in ReusedAt : to[i] = e
    BY <1>1, <1>2, <1>3
  <2> HIDE DEF to
  <2> QED BY <2>1, <2>2, <2>3 DEF Bijection, Injection, Surjection, IsInjective
<1>8. /\ DOMAIN part = ReusedAt /\ DOMAIN sizes = Reused
      /\ \A i \in ReusedAt : sizes[to[i]] = part[i]
  BY <1>1, <1>2, <1>3
<1>9. Total(sizes) = Total(part)
  <2> HIDE DEF sizes, part, to
  <2> QED BY <1>6, <1>7, <1>8, TotalMoved
<1>10. Capacity(Reused) = Total(part) /\ SeqCapacity(Entries) = Total(all)
  BY <1>9 DEF Capacity, SeqCapacity
<1> QED BY <1>1, <1>6, <1>10, SetSizes

LEMMA LedgerRollback == ASSUME IInv, Ledger, phase = "acquire", Rollback PROVE Ledger'
<1>1. /\ idle' = idle \cup Reused /\ idleBytes' = idleBytes + Capacity(Reused)
      /\ pending' = <<>> /\ UNCHANGED <<leasedBytes, leasedSegments, lease, returning>>
  BY DEF Rollback
<1>2. /\ Reused = {pending[i].entry : i \in ReusedAt}
      /\ Reused \subseteq Entry /\ IsFiniteSet(Reused)
  BY ReusedFinite DEF IInv
<1>3. idle \cap Reused = {}
  BY <1>2 DEF IInv, Apart
<1>4. Capacity(idle \cup Reused) = Capacity(idle) + Capacity(Reused)
  BY <1>2, <1>3, CapacityUnion DEF IInv, Typed
<1>5. idleBytes' = Capacity(idle')
  BY <1>1, <1>4 DEF Ledger
<1>6. Outstanding' + SeqCapacity(returning') <= Memory
  <2>1. SeqCapacity(Entries') = 0
    BY <1>1, NoEntriesPrime
  <2>2. idleBytes \in Nat /\ leasedBytes \in Nat /\ SeqCapacity(Entries) \in Nat
        /\ SeqCapacity(returning) \in Nat /\ Memory \in Nat
    BY LedgerNat
  <2>3. Capacity(Reused) <= SeqCapacity(Entries) /\ Capacity(Reused) \in Nat
    BY ReusedCapacity
  <2>4. idleBytes + leasedBytes + SeqCapacity(Entries) + SeqCapacity(returning) <= Memory
    BY DEF Ledger, Outstanding
  <2>5. idleBytes + Capacity(Reused) + leasedBytes + 0 + SeqCapacity(returning) <= Memory
    BY <2>2, <2>3, <2>4
  <2> QED BY <1>1, <2>1, <2>5 DEF Outstanding
<1> QED BY <1>1, <1>5, <1>6, SamePlaces DEF Ledger

\* Segments go back to the allocator.
LEMMA LedgerEvict == ASSUME IInv, Ledger, EvictAllIdle \/ EvictOldest PROVE Ledger'
<1>1. /\ UNCHANGED <<pending, leasedBytes, leasedSegments, lease, returning>>
      /\ idleBytes' = Capacity(idle') /\ idleBytes' <= idleBytes /\ idleBytes' \in Nat
  <2>1. CASE EvictAllIdle
    BY <2>1, CapacityNone, LedgerNat DEF EvictAllIdle, acquiring
  <2>2. CASE EvictOldest
    <3>1. PICK e \in idle : idle' = idle \ {e} /\ idleBytes' = idleBytes - e.capacity
      BY <2>2 DEF EvictOldest
    <3>2. Capacity(idle) = Capacity(idle \ {e}) + e.capacity
          /\ Capacity(idle \ {e}) \in Nat /\ e.capacity \in Nat
      BY CapacityRemove DEF IInv, Typed
    <3>3. idleBytes = Capacity(idle)
      BY DEF Ledger
    <3>4. UNCHANGED <<pending, leasedBytes, leasedSegments, lease, returning>>
      BY <2>2 DEF EvictOldest, acquiring
    <3> QED BY <3>1, <3>2, <3>3, <3>4
  <2> QED BY <2>1, <2>2
<1>2. Outstanding' + SeqCapacity(returning') <= Memory
  <2>1. Entries' = Entries
    BY <1>1, SameEntries
  <2>2. idleBytes \in Nat /\ leasedBytes \in Nat /\ SeqCapacity(Entries) \in Nat
        /\ SeqCapacity(returning) \in Nat /\ Memory \in Nat
    BY LedgerNat
  <2>3. idleBytes + leasedBytes + SeqCapacity(Entries) + SeqCapacity(returning) <= Memory
    BY DEF Ledger, Outstanding
  <2>4. idleBytes' + leasedBytes + SeqCapacity(Entries) + SeqCapacity(returning) <= Memory
    BY <1>1, <2>2, <2>3
  <2> QED BY <1>1, <2>1, <2>4 DEF Outstanding
<1> QED BY <1>1, <1>2, SamePlaces DEF Ledger

\* The compaction of the clock keeps the sizes.
LEMMA TickedCapacity ==
  ASSUME IInv
  PROVE  Capacity(Ticked) = Capacity(idle)
<1>1. CASE clock + 1 <= MaxU64
  BY <1>1 DEF Ticked
<1>2. CASE ~ (clock + 1 <= MaxU64)
  <2> DEFINE to == [e \in idle |-> [e EXCEPT !.last_used = Rank(e)]]
             old == [e \in idle |-> e.capacity]
             new == [e \in Ticked |-> e.capacity]
  <2>1. Ticked = {to[e] : e \in idle}
    BY <1>2 DEF Ticked
  <2>2. \A e \in idle : to[e].id = e.id /\ to[e].capacity = e.capacity
    BY DEF IInv, Typed, Entry
  <2>3. to \in Bijection(DOMAIN old, DOMAIN new)
    <3>1. to \in [idle -> Ticked]
      BY <2>1
    <3>2. \A e, f \in idle : to[e] = to[f] => e = f
      <4>1. \A e, f \in idle : e.id = f.id => e = f
        BY DEF IInv, Distinct
      <4> HIDE DEF to
      <4> QED BY <2>2, <4>1
    <3>3. \A g \in Ticked : \E e \in idle : to[e] = g
      BY <2>1
    <3> HIDE DEF to
    <3> QED BY <3>1, <3>2, <3>3 DEF Bijection, Injection, Surjection, IsInjective
  <2>4. \A e \in DOMAIN old : new[to[e]] = old[e]
    BY <2>1, <2>2
  <2>5. Weights(old)
    BY SetSizes DEF IInv, Typed
  <2>6. Total(new) = Total(old)
    <3> HIDE DEF new, old, to
    <3> QED BY <2>3, <2>4, <2>5, TotalMoved
  <2> QED BY <2>6 DEF Capacity
<1> QED BY <1>1, <1>2

LEMMA LedgerReturn == ASSUME IInv, Ledger, ReturnSegment PROVE Ledger'
<1> DEFINE h == [Head(returning) EXCEPT !.last_used = NextTick]
<1>1. /\ returning # <<>> /\ idle' = Ticked \cup {h} /\ returning' = Tail(returning)
      /\ idleBytes' = idleBytes + Head(returning).capacity
      /\ UNCHANGED <<leasedBytes, leasedSegments, lease, pending>>
  BY DEF ReturnSegment, acquiring
<1>2. /\ SeqCapacity(returning) = Head(returning).capacity + SeqCapacity(Tail(returning))
      /\ Head(returning) \in Entry /\ Head(returning) = returning[1] /\ 1 \in DOMAIN returning
      /\ Tail(returning) \in Seq(Entry)
  BY <1>1, SeqCapacityTail DEF IInv, Typed
<1>3. NextTick \in Nat /\ Ticked \subseteq Entry /\ IsFiniteSet(Ticked)
      /\ \A e \in Ticked : \E f \in idle : e.id = f.id
  BY Stamp DEF IInv
<1>4. h \in Entry /\ h.id = returning[1].id /\ h.capacity = Head(returning).capacity
  BY <1>2, <1>3 DEF Entry
<1> HIDE DEF h
<1>5. Ticked \cap {h} = {}
  BY <1>2, <1>3, <1>4 DEF IInv, Apart
<1>6. Capacity(Ticked \cup {h}) = Capacity(Ticked) + Capacity({h})
  BY <1>3, <1>4, <1>5, CapacityUnion, FS_Singleton
<1>7. idleBytes' = Capacity(idle')
  BY <1>1, <1>4, <1>6, CapacityOne, TickedCapacity DEF Ledger
<1>8. Outstanding' + SeqCapacity(returning') <= Memory
  <2>1. Entries' = Entries
    BY <1>1, SameEntries
  <2>2. idleBytes \in Nat /\ leasedBytes \in Nat /\ SeqCapacity(Entries) \in Nat /\ Memory \in Nat
    BY LedgerNat
  <2>3. SeqCapacity(Tail(returning)) \in Nat /\ Head(returning).capacity \in Nat
    BY <1>2, SeqSizes, CapacityOne
  <2>4. idleBytes + leasedBytes + SeqCapacity(Entries) + SeqCapacity(returning) <= Memory
    BY DEF Ledger, Outstanding
  <2>5. (idleBytes + Head(returning).capacity) + leasedBytes + SeqCapacity(Entries)
          + SeqCapacity(Tail(returning)) <= Memory
    <3> DEFINE first == Head(returning).capacity
               rest == SeqCapacity(Tail(returning))
    <3>1. SeqCapacity(returning) = first + rest /\ first \in Nat /\ rest \in Nat
      BY <1>2, <2>3
    <3> HIDE DEF first, rest
    <3>2. (idleBytes + first) + leasedBytes + SeqCapacity(Entries) + rest <= Memory
      BY <2>2, <2>4, <3>1
    <3> QED BY <3>2 DEF first, rest
  <2> QED BY <1>1, <2>1, <2>5 DEF Outstanding
<1> QED BY <1>1, <1>7, <1>8, SamePlaces DEF Ledger

\* The places are those of the live leases.
LEMMA PlacesIn == \A p : p \in Places <=> \E l \in Live : \E i \in DOMAIN Leased(l) : p = <<l, i>>
<1>1. Places = UNION {{l} \X DOMAIN Leased(l) : l \in Live}
  BY DEF Places, Leased
<1>2. \A l, S, p : p \in {l} \X S <=> \E i \in S : p = <<l, i>>
  OBVIOUS
<1> QED BY <1>1, <1>2

LEMMA PlacesInPrime ==
  \A p : p \in Places' <=> \E l \in Live' : \E i \in DOMAIN Leased(l)' : p = <<l, i>>
<1>1. Places' = UNION {{l} \X DOMAIN Leased(l)' : l \in Live'}
  BY DEF Places, Leased
<1>2. \A l, S, p : p \in {l} \X S <=> \E i \in S : p = <<l, i>>
  OBVIOUS
<1> QED BY <1>1, <1>2

\* What the grant counts is what the lease holds.
LEMMA LedgerGrant == ASSUME IInv, Ledger, Grant, caller \in Lease PROVE Ledger'
<1>1. PICK c \in Lease : c = caller
  OBVIOUS
<1>2. PICK s : s = Leased(c)'
  OBVIOUS
<1> DEFINE P == {c} \X DOMAIN s
           f == [p \in P |-> s[p[2]].capacity]
<1>3. /\ leasedBytes' = leasedBytes + SeqCapacity(Entries)
      /\ leasedSegments' = leasedSegments + Len(pending)
      /\ UNCHANGED <<idle, idleBytes, returning>> /\ pending' = <<>>
  BY DEF Grant
<1>4. /\ DOMAIN s = DOMAIN pending /\ Live' = Live \cup {c} /\ c \notin Live
      /\ \A i \in DOMAIN pending : s[i] = Numbered(i)
      /\ \A l \in Live : lease'[l] = lease[l] /\ Leased(l)' = Leased(l)
      /\ lease'[c] \in LeaseRecord
  BY <1>1, <1>2, Granted
<1>5. s \in Seq(Entry)
  BY <1>2, <1>4 DEF LeaseRecord, Leased
<1>6. Len(s) = Len(pending)
  <2>1. DOMAIN s = 1 .. Len(s) /\ Len(s) \in Nat
    BY <1>5
  <2>2. DOMAIN pending = 1 .. Len(pending) /\ Len(pending) \in Nat
    BY DEF IInv, Typed
  <2>3. \A m, n \in Nat : 1 .. m = 1 .. n => m = n
    OBVIOUS
  <2>4. 1 .. Len(s) = 1 .. Len(pending)
    BY <1>4, <2>1, <2>2, Zenon
  <2>5. Len(s) \in Nat /\ Len(pending) \in Nat
    BY <2>1, <2>2, Zenon
  <2> QED BY <2>3, <2>4, <2>5, Zenon
<1>7. SeqCapacity(s) = SeqCapacity(Entries)
  <2>1. \A i \in DOMAIN pending : s[i].capacity = Entries[i].capacity
    BY <1>4, Numbering DEF Entries
  <2>2. DOMAIN Entries = DOMAIN pending
    BY DEF Entries
  <2>3. [i \in DOMAIN s |-> s[i].capacity] = [i \in DOMAIN Entries |-> Entries[i].capacity]
    BY <1>4, <2>1, <2>2
  <2> QED BY <2>3 DEF SeqCapacity
<1>8. /\ Weights(f) /\ Total(f) = SeqCapacity(Entries)
      /\ IsFiniteSet(P) /\ Cardinality(P) = Len(pending)
  <2>1. /\ Weights(f) /\ Total(f) = SeqCapacity(s)
        /\ IsFiniteSet(P) /\ Cardinality(P) = Len(s)
    BY <1>5, PlacesOf
  <2> HIDE DEF P, f
  <2> QED BY <1>6, <1>7, <2>1
<1>9. Places' = Places \cup P /\ Places \cap P = {}
  <2>1. \A p : p \in P <=> \E i \in DOMAIN s : p = <<c, i>>
    OBVIOUS
  <2> HIDE DEF P
  <2> QED BY <1>2, <1>4, <2>1, PlacesIn, PlacesInPrime
<1>10. /\ DOMAIN PlaceCapacity' = DOMAIN PlaceCapacity \cup DOMAIN f
       /\ DOMAIN PlaceCapacity \cap DOMAIN f = {}
       /\ \A p \in DOMAIN PlaceCapacity : PlaceCapacity'[p] = PlaceCapacity[p]
       /\ \A p \in DOMAIN f : PlaceCapacity'[p] = f[p]
  <2>1. \A p \in Places : p[1] \in Live
    BY PlacesIn
  <2>2. \A p \in Places : PlaceCapacity'[p] = PlaceCapacity[p]
    BY <1>4, <1>9, <2>1 DEF PlaceCapacity
  <2>3. \A p \in P : PlaceCapacity'[p] = f[p]
    BY <1>2, <1>9 DEF PlaceCapacity, Leased
  <2> QED BY <1>9, <2>2, <2>3 DEF PlaceCapacity
<1> HIDE DEF P, f
<1>11. Weights(PlaceCapacity)
  BY PlaceSizes DEF IInv, Ledger
<1>12. Total(PlaceCapacity') = Total(PlaceCapacity) + Total(f)
  BY <1>8, <1>10, <1>11, TotalSplit
<1>13. IsFiniteSet(Places') /\ Cardinality(Places') = Cardinality(Places) + Len(pending)
  <2>1. IsFiniteSet(Places) /\ Cardinality(Places \cap P) = 0
    BY <1>9, FS_EmptySet DEF Ledger
  <2>2. Cardinality(Places \cup P) = Cardinality(Places) + Cardinality(P) - Cardinality(Places \cap P)
        /\ IsFiniteSet(Places \cup P)
    BY <1>8, <2>1, FS_Union
  <2>3. Cardinality(Places) \in Nat /\ Len(pending) \in Nat
    BY <2>1, FS_CardinalityType DEF IInv, Typed
  <2> QED BY <1>8, <1>9, <2>1, <2>2, <2>3
<1>14. SeqCapacity(Entries') = 0
  BY <1>3, NoEntriesPrime
<1>15. Outstanding' + SeqCapacity(returning') <= Memory
  <2>1. idleBytes \in Nat /\ leasedBytes \in Nat /\ SeqCapacity(Entries) \in Nat
        /\ SeqCapacity(returning) \in Nat /\ Memory \in Nat
    BY LedgerNat
  <2>2. idleBytes + leasedBytes + SeqCapacity(Entries) + SeqCapacity(returning) <= Memory
    BY DEF Ledger, Outstanding
  <2>3. idleBytes + (leasedBytes + SeqCapacity(Entries)) + 0 + SeqCapacity(returning) <= Memory
    BY <2>1, <2>2
  <2> QED BY <1>3, <1>14, <2>3 DEF Outstanding
<1> QED BY <1>3, <1>8, <1>12, <1>13, <1>15 DEF Ledger

\* A dropped lease takes its segments off the counters.
LEMMA LedgerDrop == ASSUME IInv, Ledger, NEW l \in Lease, Drop(l) PROVE Ledger'
<1>1. PICK s : s = Leased(l)
  OBVIOUS
<1> DEFINE P == {l} \X DOMAIN s
           f == [p \in P |-> s[p[2]].capacity]
<1>2. /\ leasedBytes' = leasedBytes - SeqCapacity(s)
      /\ leasedSegments' = leasedSegments - Len(s) /\ returning' = s
      /\ lease' = [lease EXCEPT ![l] = NoLease] /\ lease[l] # NoLease
      /\ UNCHANGED <<idle, idleBytes, pending>> /\ phase = "unlocked"
  BY <1>1 DEF Drop, Leased, acquiring
<1>3. /\ l \in Live /\ Live' = Live \ {l}
      /\ \A m \in Live' : lease'[m] = lease[m] /\ Leased(m)' = Leased(m)
  BY <1>2 DEF Live, Leased, IInv, Typed
<1>4. s \in Seq(Entry)
  BY <1>1, <1>3, LeasedSegments DEF IInv
<1>5. /\ Weights(f) /\ Total(f) = SeqCapacity(s) /\ SeqCapacity(s) \in Nat
      /\ IsFiniteSet(P) /\ Cardinality(P) = Len(s) /\ Len(s) \in Nat
  <2>1. /\ Weights(f) /\ Total(f) = SeqCapacity(s)
        /\ IsFiniteSet(P) /\ Cardinality(P) = Len(s)
    BY <1>4, PlacesOf
  <2>2. SeqCapacity(s) \in Nat
    BY <1>4, SeqSizes
  <2>3. Len(s) \in Nat
    BY <1>4
  <2> HIDE DEF P, f
  <2> QED BY <2>1, <2>2, <2>3
<1>6. Places = Places' \cup P /\ Places' \cap P = {}
  <2>1. \A p : p \in P <=> \E i \in DOMAIN s : p = <<l, i>>
    OBVIOUS
  <2> HIDE DEF P
  <2> QED BY <1>1, <1>3, <2>1, PlacesIn, PlacesInPrime
<1>7. /\ DOMAIN PlaceCapacity = DOMAIN PlaceCapacity' \cup DOMAIN f
      /\ DOMAIN PlaceCapacity' \cap DOMAIN f = {}
      /\ \A p \in DOMAIN PlaceCapacity' : PlaceCapacity[p] = PlaceCapacity'[p]
      /\ \A p \in DOMAIN f : PlaceCapacity[p] = f[p]
  <2>1. \A p \in Places' : p[1] \in Live'
    BY PlacesInPrime
  <2>2. \A p \in Places' : PlaceCapacity'[p] = PlaceCapacity[p]
    BY <1>3, <1>6, <2>1 DEF PlaceCapacity
  <2>3. \A p \in P : PlaceCapacity[p] = f[p]
    BY <1>1, <1>6 DEF PlaceCapacity, Leased
  <2> QED BY <1>6, <2>2, <2>3 DEF PlaceCapacity
<1> HIDE DEF P, f
<1>8. Weights(PlaceCapacity')
  <2>1. Weights(PlaceCapacity)
    BY PlaceSizes DEF IInv, Ledger
  <2> QED BY <1>7, <2>1, TotalPart
<1>9. Total(PlaceCapacity) = Total(PlaceCapacity') + Total(f) /\ Total(PlaceCapacity') \in Nat
  BY <1>5, <1>7, <1>8, TotalSplit, TotalNat
<1>10. IsFiniteSet(Places') /\ Cardinality(Places) = Cardinality(Places') + Len(s)
       /\ Cardinality(Places') \in Nat
  <2>1. IsFiniteSet(Places') /\ Cardinality(Places' \cap P) = 0
    BY <1>6, FS_EmptySet, FS_Subset DEF Ledger
  <2>2. Cardinality(Places' \cup P) = Cardinality(Places') + Cardinality(P) - Cardinality(Places' \cap P)
    BY <1>5, <2>1, FS_Union
  <2>3. Cardinality(Places') \in Nat
    BY <2>1, FS_CardinalityType
  <2> QED BY <1>5, <1>6, <2>1, <2>2, <2>3
<1>11. leasedBytes' = Total(PlaceCapacity') /\ leasedSegments' = Cardinality(Places')
  <2>1. leasedBytes = Total(PlaceCapacity) /\ leasedSegments = Cardinality(Places)
    BY DEF Ledger
  <2> QED BY <1>2, <1>5, <1>9, <1>10, <2>1
<1>12. Outstanding' + SeqCapacity(returning') <= Memory
  <2>1. Entries' = Entries /\ SeqCapacity(returning) = 0
    BY <1>2, SameEntries, CapacityNone DEF IInv, Locked
  <2>2. idleBytes \in Nat /\ leasedBytes \in Nat /\ SeqCapacity(Entries) \in Nat /\ Memory \in Nat
    BY LedgerNat
  <2>3. idleBytes + leasedBytes + SeqCapacity(Entries) + SeqCapacity(returning) <= Memory
    BY DEF Ledger, Outstanding
  <2>4. idleBytes + (leasedBytes - SeqCapacity(s)) + SeqCapacity(Entries) + SeqCapacity(s) <= Memory
    BY <1>5, <2>1, <2>2, <2>3
  <2> QED BY <1>2, <2>1, <2>4 DEF Outstanding
<1> QED BY <1>2, <1>10, <1>11, <1>12 DEF Ledger

\* A failed allocation or an overflow only rolls back.
LEMMA LedgerNext == IInv /\ Ledger /\ [Next]_vars => Ledger'
<1> SUFFICES ASSUME IInv, Ledger, [Next]_vars PROVE Ledger'
  OBVIOUS
<1> USE DEF counters, acquiring
<1>1. CASE UNCHANGED vars
  BY <1>1, LedgerSame, SameEntries DEF vars
<1>2. ASSUME NEW l \in Lease, NEW reqs \in BoundedSeq(Request, MaxRequests), Acquire(l, reqs)
      PROVE  Ledger'
  <2>1. pending = <<>> /\ pending' = <<>>
        /\ UNCHANGED <<idle, idleBytes, leasedBytes, leasedSegments, lease, returning>>
    BY <1>2 DEF Acquire, IInv, Locked
  <2>2. Entries' = Entries
    BY <2>1, SameEntries
  <2> QED BY <2>1, <2>2, LedgerSame
<1>3. ASSUME NEW l \in Lease, Drop(l) PROVE Ledger'
  BY <1>3, LedgerDrop
<1>4. ASSUME (\E limit \in IdleLimit : SetMaxIdleBytes(limit)) \/ Trimmed PROVE Ledger'
  <2>1. UNCHANGED <<idle, idleBytes, leasedBytes, leasedSegments, lease, returning, pending>>
    BY <1>4 DEF SetMaxIdleBytes, Trimmed
  <2> QED BY <2>1, LedgerSame, SameEntries
<1>5. CASE Reuse
  BY <1>5, LedgerReuse
<1>6. ASSUME NEW capacity \in Bytes, Allocate(capacity) PROVE Ledger'
  BY <1>6, LedgerAllocate
<1>7. ASSUME (\E capacity \in Bytes : AllocateShort(capacity)) \/ AllocationFails \/ RefuseOverflow
      PROVE  Ledger'
  BY <1>7, LedgerRollback
     DEF AllocateShort, AllocationFails, RefuseOverflow, Misses, Unserved, Served
<1>8. CASE EvictAllIdle \/ EvictOldest
  BY <1>8, LedgerEvict
<1>9. CASE Grant
  BY <1>9, LedgerGrant DEF Grant, Served, IInv, Locked
<1>10. CASE ReturnSegment
  BY <1>10, LedgerReturn
<1> QED BY <1>1, <1>2, <1>3, <1>4, <1>5, <1>6, <1>7, <1>8, <1>9, <1>10 DEF Next, Serve, Trim

LEMMA LedgerAccounts == IInv /\ Ledger => Accounted
<1> SUFFICES ASSUME IInv, Ledger PROVE Accounted
  OBVIOUS
<1>1. idleBytes + leasedBytes <= MaxUsize
  <2>1. /\ idleBytes \in Nat /\ leasedBytes \in Nat
        /\ SeqCapacity(Entries) \in Nat /\ SeqCapacity(returning) \in Nat
        /\ Memory \in Nat /\ MaxUsize \in Nat /\ Memory <= MaxUsize
    BY LedgerNat
  <2>2. idleBytes + leasedBytes + SeqCapacity(Entries) + SeqCapacity(returning) <= Memory
    BY DEF Ledger, Outstanding
  <2> QED BY <2>1, <2>2
<1> QED BY <1>1 DEF Ledger, Accounted

\* The checked counters of workspace.rs are exact sums of the idle and leased
\* segments after every allocation, grant, rollback, eviction and drop, and
\* they fit their type: none of the checked subtractions and additions of
\* rollback, evict_to_limit and Drop can fail.
THEOREM AccountingExact == Spec => []Accounted
<1>1. IInv /\ Ledger /\ [Next]_vars => (IInv /\ Ledger)'
  BY NextInv, LedgerNext
<1>2. Init => IInv /\ Ledger
  BY InitInv, LedgerInit
<1> QED BY <1>1, <1>2, LedgerAccounts, PTL DEF Spec

-----------------------------------------------------------------------------
(* The limit on idle memory, and the types.                                *)

\* Between operations, and while one may still give segments back, what would
\* be idle then fits the limit.
Within == phase # "trim" => Capacity(Retained) <= maxIdleBytes

\* The parts of the type invariant that the earlier ones leave open.
Ranges ==
  /\ maxIdleBytes \in IdleLimit /\ phase \in {"unlocked", "acquire", "trim"}
  /\ caller \in Lease \cup {NoLease}
  /\ clock <= MaxU64 /\ nextId <= MaxU64

LEMMA RetainedFinite ==
  ASSUME Typed
  PROVE  Retained \in SUBSET Entry /\ IsFiniteSet(Retained) /\ Capacity(Retained) \in Nat
<1>1. Retained \in SUBSET Entry /\ IsFiniteSet(Retained)
  BY ReusedFinite, FS_Union DEF Retained, Typed
<1> QED BY <1>1, SetSizes

\* Only set_max_idle_bytes changes the limit, and it evicts afterwards.
LEMMA LimitKept ==
  ASSUME IInv, [Next]_vars, phase' # "trim"
  PROVE  /\ maxIdleBytes' = maxIdleBytes /\ ~ ReturnSegment
         /\ phase = "trim" => Trimmed
<1> USE DEF counters, acquiring
<1>1. ASSUME UNCHANGED vars PROVE maxIdleBytes' = maxIdleBytes /\ phase # "trim"
  BY <1>1 DEF vars
<1>2. ASSUME NEW l \in Lease, NEW reqs \in BoundedSeq(Request, MaxRequests), Acquire(l, reqs)
      PROVE  maxIdleBytes' = maxIdleBytes /\ phase # "trim"
  BY <1>2 DEF Acquire
<1>3. ASSUME NEW l \in Lease, Drop(l) PROVE FALSE
  BY <1>3 DEF Drop
<1>4. ASSUME \E limit \in IdleLimit : SetMaxIdleBytes(limit) PROVE FALSE
  BY <1>4 DEF SetMaxIdleBytes
<1>5. ASSUME Serve PROVE maxIdleBytes' = maxIdleBytes /\ phase # "trim"
  <2>1. phase = "acquire"
    BY <1>5 DEF Serve, Reuse, Allocate, AllocateShort, EvictAllIdle, AllocationFails,
                RefuseOverflow, Grant, Misses, Unserved, Served
  <2>2. maxIdleBytes' = maxIdleBytes
    BY <1>5 DEF Serve, Reuse, Allocate, AllocateShort, EvictAllIdle, AllocationFails,
                RefuseOverflow, Grant, Rollback
  <2> QED BY <2>1, <2>2
<1>6. ~ ReturnSegment /\ ~ EvictOldest
  BY DEF ReturnSegment, EvictOldest
<1>7. Trimmed => maxIdleBytes' = maxIdleBytes
  BY DEF Trimmed
<1> QED BY <1>1, <1>2, <1>3, <1>4, <1>5, <1>6, <1>7 DEF Next, Trim

LEMMA WithinNext == IInv /\ Ledger /\ Ranges /\ Within /\ [Next]_vars => Within'
<1> SUFFICES ASSUME IInv, Ledger, Ranges, Within, [Next]_vars, phase' # "trim"
             PROVE  Capacity(Retained)' <= maxIdleBytes'
  BY DEF Within
<1>1. maxIdleBytes' = maxIdleBytes /\ ~ ReturnSegment /\ (phase = "trim" => Trimmed)
  BY LimitKept
<1>2. Retained' \subseteq Retained
  BY <1>1, OthersRetain
<1>3. Capacity(Retained') <= Capacity(Retained)
  BY <1>2, RetainedFinite, CapacityPart DEF IInv
<1>4. /\ Capacity(Retained) \in Nat /\ maxIdleBytes \in Nat
      /\ Capacity(Retained') \in Nat
  <2>1. Retained \in SUBSET Entry /\ IsFiniteSet(Retained) /\ Capacity(Retained) \in Nat
    BY RetainedFinite DEF IInv
  <2>2. Retained' \in SUBSET Entry /\ IsFiniteSet(Retained')
    BY <1>2, <2>1, FS_Subset
  <2>3. Capacity(Retained') \in Nat
    BY <2>2, SetSizes
  <2>4. maxIdleBytes \in Nat
    BY WorkspacePoolConstants DEF Ranges
  <2> QED BY <2>1, <2>3, <2>4
<1>5. Capacity(Retained) <= maxIdleBytes
  <2>1. CASE phase # "trim"
    BY <2>1 DEF Within
  <2>2. CASE phase = "trim"
    <3>1. Retained = idle /\ idleBytes = Capacity(idle)
      BY <2>2, EmptyPending DEF Retained, IInv, Locked, Ledger
    <3>2. ~ OverLimit
      BY <1>1, <2>2 DEF Trimmed
    <3>3. CASE idle = {}
      BY <1>4, <3>1, <3>3, CapacityNone
    <3>4. CASE idle # {}
      BY <1>4, <3>1, <3>2, <3>4 DEF OverLimit
    <3> QED BY <3>3, <3>4
  <2> QED BY <2>1, <2>2
<1> QED BY <1>1, <1>3, <1>4, <1>5

\* There are no more idle segments than identifiers.
LEMMA IdleFew == ASSUME IInv PROVE Cardinality(idle) \in Nat /\ Cardinality(idle) <= nextId
<1> DEFINE name == [e \in idle |-> e.id]
           names == 0 .. nextId - 1
<1>1. nextId \in Nat /\ IsFiniteSet(idle)
  BY DEF IInv, Typed
<1>2. IsFiniteSet(names) /\ Cardinality(names) = nextId
  BY <1>1, FS_Interval
<1>3. name \in Injection(idle, names)
  <2>1. \A e \in idle : e.id \in names
    BY <1>1 DEF IInv, Typed, Issued, Entry
  <2>2. \A e, f \in idle : e.id = f.id => e = f
    BY DEF IInv, Distinct
  <2> QED BY <2>1, <2>2 DEF Injection, IsInjective
<1> HIDE DEF name, names
<1> QED BY <1>1, <1>2, <1>3, FS_Injection, FS_CardinalityType

LEMMA RangesNext == IInv /\ Ranges /\ [Next]_vars => Ranges'
<1> SUFFICES ASSUME IInv, Ranges, [Next]_vars PROVE Ranges'
  OBVIOUS
<1> USE DEF counters, acquiring
<1>1. CASE UNCHANGED vars
  BY <1>1 DEF vars, Ranges
<1>2. ASSUME NEW l \in Lease, NEW reqs \in BoundedSeq(Request, MaxRequests), Acquire(l, reqs)
      PROVE  Ranges'
  BY <1>2 DEF Acquire, Ranges
<1>3. ASSUME NEW l \in Lease, Drop(l) PROVE Ranges'
  BY <1>3 DEF Drop, Ranges
<1>4. ASSUME (\E limit \in IdleLimit : SetMaxIdleBytes(limit)) \/ Trimmed \/ EvictOldest
      PROVE  Ranges'
  BY <1>4 DEF SetMaxIdleBytes, Trimmed, EvictOldest, Ranges
<1>5. CASE Reuse \/ EvictAllIdle
  BY <1>5 DEF Reuse, EvictAllIdle, Ranges
<1>6. ASSUME NEW capacity \in Bytes, Allocate(capacity) PROVE Ranges'
  BY <1>6 DEF Allocate, Ranges
<1>7. ASSUME Rollback PROVE Ranges'
  BY <1>7 DEF Rollback, Ranges
<1>8. CASE Grant
  BY <1>8 DEF Grant, Representable, Ranges
<1>9. CASE ReturnSegment
  <2>1. NextTick <= MaxU64
    <3>1. MaxU64 \in Nat \ {0} /\ clock \in Nat /\ nextId \in Nat
      BY WorkspacePoolConstants DEF IInv, Typed
    <3>2. CASE clock + 1 <= MaxU64
      BY <3>2 DEF NextTick
    <3>3. CASE ~ (clock + 1 <= MaxU64) /\ idle = {}
      BY <3>1, <3>3 DEF NextTick
    <3>4. CASE ~ (clock + 1 <= MaxU64) /\ idle # {}
      <4>1. NextTick = Cardinality(idle) /\ nextId <= MaxU64
        BY <3>4 DEF NextTick, Ranges
      <4> QED BY <3>1, <4>1, IdleFew
    <3> QED BY <3>2, <3>3, <3>4
  <2> QED BY <1>9, <2>1 DEF ReturnSegment, Ranges
<1> QED BY <1>1, <1>2, <1>3, <1>4, <1>5, <1>6, <1>7, <1>8, <1>9
        DEF Next, Serve, Trim, AllocateShort, AllocationFails, RefuseOverflow

Sound == IInv /\ Ledger /\ Ranges /\ Within

LEMMA SoundInit == Init => Sound
<1> SUFFICES ASSUME Init PROVE Sound
  OBVIOUS
<1>1. Ranges
  BY WorkspacePoolConstants DEF Init, Ranges
<1>2. Retained = {}
  BY DEF Init, Retained, Reused
<1>3. Within
  BY <1>1, <1>2, CapacityNone, WorkspacePoolConstants DEF Within, Ranges
<1> QED BY <1>1, <1>3, InitInv, LedgerInit DEF Sound

LEMMA SoundAlways == Spec => []Sound
<1>1. Sound /\ [Next]_vars => Sound'
  BY NextInv, LedgerNext, WithinNext, RangesNext DEF Sound
<1> QED BY <1>1, SoundInit, PTL DEF Spec

\* No operation leaves the pool with more idle memory than
\* set_max_idle_bytes allows, although a failed acquisition gives its segments
\* back without an eviction (workspace.rs, rollback and evict_to_limit).
THEOREM IdleLimitKept == Spec => []IdleCapped
<1>1. Sound => IdleCapped
  <2> SUFFICES ASSUME Sound, phase = "unlocked" PROVE idleBytes <= maxIdleBytes
    BY DEF IdleCapped
  <2>1. Retained = idle
    BY EmptyPending DEF Sound, Retained, IInv, Locked
  <2> QED BY <2>1 DEF Sound, Within, Ledger
<1> QED BY <1>1, SoundAlways, PTL

\* The state of the pool keeps its types: the counters are natural numbers
\* and neither the clock nor the identifiers pass u64::MAX, whatever
\* next_lru_tick compacts (workspace.rs, WorkspacePoolState).
THEOREM TypeCorrect == Spec => []TypeOK
<1>1. Sound => TypeOK
  <2> SUFFICES ASSUME Sound PROVE TypeOK
    OBVIOUS
  <2>1. idleBytes \in Nat /\ leasedSegments \in Nat /\ leasedBytes \in Nat
    BY LedgerNat DEF Sound
  <2>2. clock \in 0 .. MaxU64 /\ nextId \in 0 .. MaxU64
    BY WorkspacePoolConstants DEF Sound, Ranges, IInv, Typed
  <2>3. \A l \in Lease : lease[l] # NoLease =>
          lease[l].requests \in Seq(Request) /\ lease[l].segments \in Seq(Entry)
    BY DEF Sound, IInv, Typed, LeaseRecord
  <2>4. idle \subseteq Entry /\ requests \in Seq(Request) /\ returning \in Seq(Entry)
        /\ pending \in Seq([entry : Entry, reused : BOOLEAN])
    BY DEF Sound, IInv, Typed, PendingEntry
  <2> QED BY <2>1, <2>2, <2>3, <2>4 DEF TypeOK, Sound, Ranges
<1> QED BY <1>1, SoundAlways, PTL
=============================================================================
