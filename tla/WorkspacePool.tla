---------------------------- MODULE WorkspacePool ----------------------------
(***************************************************************************)
(* The pool of transient workspaces shared by concurrent program           *)
(* executions (crates/runtime/src/workspace.rs).                           *)
(*                                                                         *)
(* One mutex protects the pool: phase says which operation holds it, and   *)
(* the steps of that operation are the calls to the allocator, to          *)
(* next_lru_tick and to evict_to_limit it makes.  The order of the idle    *)
(* vector decides nothing (min_by_key compares ids last), so idle is a     *)
(* set.  The u64 counters overflow at MaxU64, the usize sums at MaxUsize.  *)
(***************************************************************************)
EXTENDS Integers, Sequences, FiniteSets, SequencesExt

CONSTANTS
  Lease,        \* WorkspaceLease objects (names are reused after the drop)
  NoLease,
  Key,          \* device or memory space of a request
  Bytes,        \* sizes of requests and allocations
  IdleLimit,    \* values given to set_max_idle_bytes
  Memory,       \* bytes the allocator can have outstanding
  MaxUsize,     \* usize::MAX
  MaxU64,       \* u64::MAX
  MaxRequests   \* bound: requests of one acquisition

ASSUME WorkspacePoolConstants ==
  /\ Bytes \subseteq Nat /\ IdleLimit \subseteq Nat /\ IdleLimit # {}
  /\ Memory \in Nat /\ MaxUsize \in Nat /\ MaxU64 \in Nat \ {0} /\ MaxRequests \in Nat
  /\ Memory <= MaxUsize             \* segments live in one address space

VARIABLES
  idle,           \* IdleEntry: [id, key, capacity, last_used]
  idleBytes,
  leasedSegments,
  leasedBytes,
  maxIdleBytes,
  clock,
  nextId,
  lease,          \* [requests, segments] of each live lease
  phase,          \* "unlocked", or the operation that holds the mutex
  caller,         \* lease being acquired
  requests,       \* its requests
  pending,        \* PendingEntry: [entry, reused]
  returning       \* segments of a dropped lease, not yet idle

counters == <<idleBytes, leasedSegments, leasedBytes, maxIdleBytes, clock, nextId>>
acquiring == <<caller, requests, pending>>
vars == <<idle, counters, lease, phase, acquiring, returning>>

Request == [key : Key, bytes : Bytes]
Entry == [id : Nat, key : Key, capacity : Bytes, last_used : Nat]

\* NoLease stands for the None of an Option: it is no lease.
ASSUME NoLeaseConstant ==
  /\ NoLease \notin Lease
  /\ NoLease \notin [requests : Seq(Request), segments : Seq(Entry)]
  /\ NoLease \notin [requests : Seq(Request),
                     segments : Seq([id : Nat, key : Key, capacity : Bytes])]

\* The sum of the values of a function: its units, counted one by one.
Units(f) == UNION {{x} \X (1 .. f[x]) : x \in DOMAIN f}
Total(f) == Cardinality(Units(f))

Capacity(entries) == Total([e \in entries |-> e.capacity])
SeqCapacity(s) == Total([i \in DOMAIN s |-> s[i].capacity])
TotalBytes(reqs) == Total([i \in DOMAIN reqs |-> reqs[i].bytes])

Init ==
  /\ idle = {} /\ idleBytes = 0
  /\ leasedSegments = 0 /\ leasedBytes = 0
  /\ maxIdleBytes \in IdleLimit
  /\ clock = 0 /\ nextId = 0
  /\ lease = [l \in Lease |-> NoLease]
  /\ phase = "unlocked"
  /\ caller = NoLease /\ requests = <<>> /\ pending = <<>>
  /\ returning = <<>>

Entries == [i \in DOMAIN pending |-> pending[i].entry]
Reused == {pending[i].entry : i \in {j \in DOMAIN pending : pending[j].reused}}
Fresh == {i \in DOMAIN pending : ~ pending[i].reused}

-----------------------------------------------------------------------------
(* acquire                                                                 *)

\* A set of requests whose sum overflows is refused before the lock.
Acquire(l, reqs) ==
  /\ phase = "unlocked" /\ lease[l] = NoLease
  /\ TotalBytes(reqs) <= MaxUsize
  /\ phase' = "acquire"
  /\ caller' = l /\ requests' = reqs /\ pending' = <<>>
  /\ UNCHANGED <<idle, counters, lease, returning>>

Wanted == requests[Len(pending) + 1]
Unserved == phase = "acquire" /\ Len(pending) < Len(requests)

Fitting == {e \in idle : e.key = Wanted.key /\ e.capacity >= Wanted.bytes}

\* min_by_key with the identifier as the second key.
Precedes(x, y, i, j) == x < y \/ (x = y /\ i < j)

BestFit(e) ==
  /\ e \in Fitting
  /\ \A f \in Fitting : f = e \/ Precedes(e.capacity, f.capacity, e.id, f.id)

Reuse ==
  /\ Unserved
  /\ \E e \in idle :
       /\ BestFit(e)
       /\ idle' = idle \ {e}
       /\ idleBytes' = idleBytes - e.capacity
       /\ pending' = Append(pending, [entry |-> e, reused |-> TRUE])
  /\ UNCHANGED <<leasedSegments, leasedBytes, maxIdleBytes, clock, nextId,
                 lease, phase, caller, requests, returning>>

\* Plausible bug: rollback forgets that the segments are counted again.
RollbackUncounted ==
  /\ idle' = idle \cup Reused
  /\ phase' = "unlocked"
  /\ caller' = NoLease /\ requests' = <<>> /\ pending' = <<>>
  /\ UNCHANGED <<counters, lease, returning>>

\* rollback: reused segments return to the idle list, fresh ones are freed.
Rollback ==
  /\ idle' = idle \cup Reused
  /\ idleBytes' = idleBytes + Capacity(Reused)
  /\ phase' = "unlocked"
  /\ caller' = NoLease /\ requests' = <<>> /\ pending' = <<>>
  /\ UNCHANGED <<leasedSegments, leasedBytes, maxIdleBytes, clock, nextId,
                 lease, returning>>

Misses == Unserved /\ Fitting = {}

Outstanding == idleBytes + leasedBytes + SeqCapacity(Entries)

\* The allocator may return any capacity it has memory for.
Allocate(capacity) ==
  /\ Misses
  /\ Outstanding + capacity <= Memory
  /\ capacity >= Wanted.bytes
  /\ pending' = Append(pending,
       [entry |-> [id |-> 0, key |-> Wanted.key, capacity |-> capacity, last_used |-> 0],
        reused |-> FALSE])
  /\ UNCHANGED <<idle, counters, lease, phase, caller, requests, returning>>

\* InsufficientCapacity
AllocateShort(capacity) ==
  /\ Misses
  /\ Outstanding + capacity <= Memory
  /\ capacity < Wanted.bytes
  /\ Rollback

\* Plausible bug: the retry evicts nothing.
EvictNothing == Misses /\ idle # {} /\ UNCHANGED vars

\* The allocator failed: everything idle is evicted before the one retry.
EvictAllIdle ==
  /\ Misses /\ idle # {}
  /\ idle' = {} /\ idleBytes' = 0
  /\ UNCHANGED <<leasedSegments, leasedBytes, maxIdleBytes, clock, nextId,
                 lease, phase, acquiring, returning>>

AllocationFails == Misses /\ idle = {} /\ Rollback

Representable ==
  /\ leasedBytes + SeqCapacity(Entries) <= MaxUsize
  /\ leasedSegments + Len(pending) <= MaxUsize
  /\ nextId + Cardinality(Fresh) <= MaxU64

Served == phase = "acquire" /\ Len(pending) = Len(requests)

\* ByteSizeOverflow or IdentifierOverflow
RefuseOverflow == Served /\ ~ Representable /\ Rollback

\* Plausible bug: every fresh segment receives the same identifier.
NumberedAlike(i) ==
  IF pending[i].reused THEN pending[i].entry
  ELSE [pending[i].entry EXCEPT !.id = nextId]

\* Fresh segments receive consecutive identifiers in request order.
Numbered(i) ==
  IF pending[i].reused THEN pending[i].entry
  ELSE [pending[i].entry EXCEPT !.id = nextId + Cardinality({j \in Fresh : j < i})]

Grant ==
  /\ Served /\ Representable
  /\ nextId' = nextId + Cardinality(Fresh)
  /\ leasedBytes' = leasedBytes + SeqCapacity(Entries)
  /\ leasedSegments' = leasedSegments + Len(pending)
  /\ lease' = [lease EXCEPT ![caller] =
       [requests |-> requests, segments |-> [i \in DOMAIN pending |-> Numbered(i)]]]
  /\ phase' = "unlocked"
  /\ caller' = NoLease /\ requests' = <<>> /\ pending' = <<>>
  /\ UNCHANGED <<idle, idleBytes, maxIdleBytes, clock, returning>>

-----------------------------------------------------------------------------
(* Drop of a lease, set_max_idle_bytes                                     *)

Drop(l) ==
  /\ phase = "unlocked" /\ lease[l] # NoLease
  /\ leasedBytes' = leasedBytes - SeqCapacity(lease[l].segments)
  /\ leasedSegments' = leasedSegments - Len(lease[l].segments)
  /\ returning' = lease[l].segments
  /\ lease' = [lease EXCEPT ![l] = NoLease]
  /\ phase' = "trim"
  /\ UNCHANGED <<idle, idleBytes, maxIdleBytes, clock, nextId, acquiring>>

Older(e, f) == Precedes(e.last_used, f.last_used, e.id, f.id)

\* Plausible bugs: compaction ranks by identifier; the clock is not checked.
RankById(e) == Cardinality({f \in idle : f.id < e.id})
NextTickUnchecked == clock + 1

\* next_lru_tick: the clock advances, or its ticks are compacted to 0 .. n-1.
Rank(e) == Cardinality({f \in idle : Older(f, e)})
Ticked == IF clock + 1 <= MaxU64 THEN idle ELSE {[e EXCEPT !.last_used = Rank(e)] : e \in idle}
NextTick ==
  IF clock + 1 <= MaxU64 THEN clock + 1
  ELSE IF idle = {} THEN 1 ELSE Cardinality(idle)

ReturnSegment ==
  /\ phase = "trim" /\ returning # <<>>
  /\ clock' = NextTick
  /\ idle' = Ticked \cup {[Head(returning) EXCEPT !.last_used = NextTick]}
  /\ idleBytes' = idleBytes + Head(returning).capacity
  /\ returning' = Tail(returning)
  /\ UNCHANGED <<leasedSegments, leasedBytes, maxIdleBytes, nextId, lease, phase, acquiring>>

\* Plausible bug: a smaller limit evicts nothing before the next drop.
SetLimitOnly(limit) ==
  /\ phase = "unlocked"
  /\ maxIdleBytes' = limit
  /\ UNCHANGED <<idle, idleBytes, leasedSegments, leasedBytes, clock, nextId,
                 lease, phase, acquiring, returning>>

SetMaxIdleBytes(limit) ==
  /\ phase = "unlocked"
  /\ maxIdleBytes' = limit
  /\ phase' = "trim"
  /\ UNCHANGED <<idle, idleBytes, leasedSegments, leasedBytes, clock, nextId,
                 lease, acquiring, returning>>

\* evict_to_limit
OverLimit == idleBytes > maxIdleBytes /\ idle # {}

EvictOldest ==
  /\ phase = "trim" /\ returning = <<>> /\ OverLimit
  /\ \E e \in idle :
       /\ \A f \in idle : f = e \/ Older(e, f)
       /\ idle' = idle \ {e}
       /\ idleBytes' = idleBytes - e.capacity
  /\ UNCHANGED <<leasedSegments, leasedBytes, maxIdleBytes, clock, nextId,
                 lease, phase, acquiring, returning>>

Trimmed ==
  /\ phase = "trim" /\ returning = <<>> /\ ~ OverLimit
  /\ phase' = "unlocked"
  /\ UNCHANGED <<idle, counters, lease, acquiring, returning>>

-----------------------------------------------------------------------------
Serve ==
  \/ Reuse
  \/ \E capacity \in Bytes : Allocate(capacity) \/ AllocateShort(capacity)
  \/ EvictAllIdle \/ AllocationFails
  \/ RefuseOverflow \/ Grant
Trim == ReturnSegment \/ EvictOldest \/ Trimmed

Next ==
  \/ \E l \in Lease :
       (\E reqs \in BoundedSeq(Request, MaxRequests) : Acquire(l, reqs)) \/ Drop(l)
  \/ \E limit \in IdleLimit : SetMaxIdleBytes(limit)
  \/ Serve \/ Trim

Spec == Init /\ [][Next]_vars

\* The thread that holds the mutex runs.
FairSpec == Spec /\ WF_vars(Serve) /\ WF_vars(Trim)

-----------------------------------------------------------------------------
(* Properties                                                              *)

TypeOK ==
  /\ idle \subseteq Entry
  /\ idleBytes \in Nat /\ leasedSegments \in Nat /\ leasedBytes \in Nat
  /\ maxIdleBytes \in IdleLimit
  /\ clock \in 0 .. MaxU64 /\ nextId \in 0 .. MaxU64
  /\ \A l \in Lease : lease[l] # NoLease =>
       /\ lease[l].requests \in Seq(Request)
       /\ lease[l].segments \in Seq(Entry)
  /\ phase \in {"unlocked", "acquire", "trim"}
  /\ caller \in Lease \cup {NoLease}
  /\ requests \in Seq(Request)
  /\ pending \in Seq([entry : Entry, reused : BOOLEAN])
  /\ returning \in Seq(Entry)

Live == {l \in Lease : lease[l] # NoLease}

\* The segments of the live leases, by lease and position.
Places == UNION {{l} \X DOMAIN lease[l].segments : l \in Live}
PlaceCapacity == [p \in Places |-> lease[p[1]].segments[p[2]].capacity]

\* The checked counters are exact whichever way an acquisition ended and never
\* leave their type, so the accounting panics of rollback, evict_to_limit and
\* Drop cannot happen.
Accounted ==
  /\ idleBytes = Capacity(idle)
  /\ leasedBytes = Total(PlaceCapacity)
  /\ leasedSegments = Cardinality(Places)
  /\ idleBytes + leasedBytes <= MaxUsize

\* An operation leaves no more idle memory than the limit, also when it gives
\* back the segments a failed acquisition had taken.
IdleCapped == phase = "unlocked" => idleBytes <= maxIdleBytes

\* The retained segments, with those a running acquisition may give back.
Retained == idle \cup Reused

\* Eviction order is the order of the last returns, and it survives the
\* compaction of the ticks and the return of a rolled back segment.
LruStable ==
  [][ /\ \A e, f \in Retained, g, h \in Retained' :
           e.id = g.id /\ f.id = h.id /\ Older(e, f) => Older(g, h)
      /\ \A g, h \in Retained' :
           (\E e \in Retained : e.id = g.id) /\ (\A e \in Retained : e.id # h.id)
             => Older(g, h) ]_vars

\* Acquisition is atomic: between the grant and the drop of a lease the pool's
\* callers see only whole leases of segments that serve their requests.
Segment(e) == [id |-> e.id, key |-> e.key, capacity |-> e.capacity]
SegmentsOf(l) ==
  IF lease[l] = NoLease THEN NoLease
  ELSE [requests |-> lease[l].requests,
        segments |-> [i \in DOMAIN lease[l].segments |-> Segment(lease[l].segments[i])]]
Leases == INSTANCE WorkspaceLeases WITH
  idle <- {Segment(e) : e \in Retained \cup {returning[i] : i \in DOMAIN returning}},
  leased <- [l \in Lease |-> SegmentsOf(l)],
  issued <- nextId
LeaseSpec == Leases!Spec

\* Every operation on the pool ends: an acquisition retries once and eviction
\* terminates.
Completes == phase # "unlocked" ~> phase = "unlocked"
=============================================================================
