------------------------ MODULE DecisionEngineProofs ------------------------
(***************************************************************************)
(* The decision engine's prefix cache: leases, timers, slots and the Map   *)
(* of entries, for every number of questions, prefixes, slots and entries. *)
(***************************************************************************)
EXTENDS DecisionEngine, TLAPS, FiniteSetTheorems, SequenceTheorems, WellFoundedInduction

Stages == {"open", "draining", "stopping", "disposing", "closed"}
Places == {"idle", "waiting", "acquiring", "evicting", "awaiting",
           "reading", "releasing", "disposing"}

\* The order of the Map plays no part; Listed below is about it.
Typed ==
  /\ stage \in Stages
  /\ state \in [Keys -> {"absent", "loading", "ready", "failed"}]
  /\ leases \in [Keys -> Nat]
  /\ timer \in [Keys -> {"none", "sleeping", "due"}]
  /\ pc \in [Questions -> Places]
  /\ key \in [Questions -> Keys \cup {NoKey}]

Named == \A q \in Questions : pc[q] # "idle" => key[q] \in Keys

\* Whoever disposes of an entry holds the mutex.
Locked ==
  /\ \A q \in Questions : pc[q] \in {"evicting", "disposing"} => mutex = q
  /\ mutex = Free => victim = NoKey
  /\ mutex = Closer => stage = "disposing"

\* Nothing creates an entry while a question makes room for it.
Awaited == \A q \in Questions : pc[q] = "evicting" => ~ Cached(key[q])

\* A prefix is cached as long as somebody holds it.
Pinned ==
  \A q \in Holding :
    /\ Cached(key[q])
    /\ pc[q] = "reading" => state[key[q]] = "ready"

\* Nobody leases the entry that is disposed of, and its timer has gone.
VictimIdle == victim \in Keys => leases[victim] = 0 /\ timer[victim] = "none"

\* Timers run for idle, ready entries only.
TimersIdle == \A k \in Keys : timer[k] # "none" => leases[k] = 0 /\ state[k] = "ready"

\* All idle entries but the one that is disposed of have a timer.
IdleExpires ==
  stage = "open" =>
    \A k \in Keys : Cached(k) /\ k # victim =>
      IF leases[k] = 0 THEN state[k] = "ready" /\ timer[k] # "none"
                      ELSE timer[k] = "none"

HeldExact == held = {k \in Keys : state[k] \in {"loading", "ready"}}

\* Once the finalizer is past the calls there are no questions and no timers.
Quiet ==
  stage \in {"stopping", "disposing", "closed"} =>
    /\ \A q \in Questions : pc[q] = "idle"
    /\ \A k \in Keys : timer[k] = "none"

IInv ==
  /\ Typed /\ Named /\ Locked /\ Awaited /\ Pinned /\ VictimIdle
  /\ TimersIdle /\ IdleExpires /\ HeldExact /\ Quiet /\ LeasesExact

-----------------------------------------------------------------------------
(* Counting leases.                                                        *)

LEMMA LeasingFinite == \A k : IsFiniteSet(Leasing(k))
<1> TAKE k
<1>1. Leasing(k) \in SUBSET Questions
  BY DEF Leasing, Holding
<1> QED BY <1>1, FS_Subset, DecisionEngineConstants

\* Questions that neither begin nor cease to hold a prefix.
LEMMA SameLeasing ==
  ASSUME LeasesExact, Holding' = Holding, \A q \in Holding : key'[q] = key[q]
  PROVE  \A k \in Keys : Cardinality(Leasing(k))' = leases[k]
<1> TAKE k \in Keys
<1>1. Leasing(k)' = Leasing(k)
  BY DEF Leasing
<1> QED BY <1>1 DEF LeasesExact

\* A question begins to hold its prefix.
LEMMA Joins ==
  ASSUME Typed, LeasesExact, NEW q \in Questions, q \notin Holding, Goto(q, "awaiting")
  PROVE  /\ Holding' = Holding \cup {q}
         /\ \A k \in Keys : Cardinality(Leasing(k))' =
              IF k = key[q] THEN leases[k] + 1 ELSE leases[k]
<1>1. Holding' = Holding \cup {q} /\ key' = key
  BY DEF Holding, Goto, Typed
<1>2. ASSUME NEW k \in Keys
      PROVE  Cardinality(Leasing(k))' = IF k = key[q] THEN leases[k] + 1 ELSE leases[k]
  <2>1. CASE k = key[q]
    <3>1. Leasing(k)' = Leasing(k) \cup {q} /\ q \notin Leasing(k)
      BY <1>1, <2>1 DEF Leasing
    <3> QED BY <2>1, <3>1, LeasingFinite, FS_AddElement DEF LeasesExact
  <2>2. CASE k # key[q]
    <3>1. Leasing(k)' = Leasing(k)
      BY <1>1, <2>2 DEF Leasing
    <3> QED BY <2>2, <3>1 DEF LeasesExact
  <2> QED BY <2>1, <2>2
<1> QED BY <1>1, <1>2

\* A question gives its prefix back, to leave or to dispose of it.
LEMMA Parts ==
  ASSUME Typed, Named, LeasesExact, NEW q \in Holding,
         Holding' = Holding \ {q}, \A r \in Holding : r # q => key'[r] = key[r]
  PROVE  /\ key[q] \in Keys /\ leases[key[q]] >= 1
         /\ \A k \in Keys : Cardinality(Leasing(k))' =
              IF k = key[q] THEN leases[k] - 1 ELSE leases[k]
<1>1. key[q] \in Keys /\ q \in Leasing(key[q])
  BY DEF Holding, Named, Leasing
<1>2. leases[key[q]] >= 1
  <2>1. Cardinality(Leasing(key[q])) # 0
    BY <1>1, LeasingFinite, FS_EmptySet
  <2> QED BY <1>1, <2>1 DEF LeasesExact, Typed
<1>3. ASSUME NEW k \in Keys
      PROVE  Cardinality(Leasing(k))' = IF k = key[q] THEN leases[k] - 1 ELSE leases[k]
  <2>1. CASE k = key[q]
    <3>1. Leasing(k)' = Leasing(k) \ {q}
      BY <2>1 DEF Leasing
    <3> QED BY <1>1, <2>1, <3>1, LeasingFinite, FS_RemoveElement DEF LeasesExact
  <2>2. CASE k # key[q]
    <3>1. Leasing(k)' = Leasing(k)
      BY <2>2 DEF Leasing
    <3> QED BY <2>2, <3>1 DEF LeasesExact
  <2> QED BY <2>1, <2>2
<1> QED BY <1>1, <1>2, <1>3

\* A prefix somebody holds has a lease, and is not the one disposed of.
LEMMA HeldIsLeased ==
  ASSUME IInv, NEW q \in Holding
  PROVE  /\ q \in Questions /\ key[q] \in Keys /\ leases[key[q]] # 0
         /\ key[q] # victim /\ timer[key[q]] = "none"
<1>1. q \in Questions /\ key[q] \in Keys /\ q \in Leasing(key[q])
  BY DEF IInv, Holding, Named, Leasing
<1>2. Cardinality(Leasing(key[q])) # 0
  BY <1>1, LeasingFinite, FS_EmptySet
<1>3. leases[key[q]] # 0
  BY <1>1, <1>2 DEF IInv, LeasesExact
<1> QED BY <1>1, <1>3 DEF IInv, VictimIdle, TimersIdle

LEMMA InitInv == Init => IInv
<1> SUFFICES ASSUME Init PROVE IInv
  OBVIOUS
<1>1. Holding = {} /\ \A k \in Keys : Leasing(k) = {}
  BY DEF Init, Holding, Leasing
<1>2. LeasesExact
  BY <1>1, FS_EmptySet DEF Init, LeasesExact
<1>3. Typed
  BY DEF Init, Typed, Stages, Places
<1>4. Named /\ Locked /\ Awaited /\ Quiet
  BY DecisionEngineConstants DEF Init, Named, Locked, Awaited, Quiet
<1>5. Pinned /\ VictimIdle /\ TimersIdle /\ IdleExpires /\ HeldExact
  BY <1>1 DEF Init, Pinned, VictimIdle, TimersIdle, IdleExpires, HeldExact, Cached
<1> QED BY <1>2, <1>3, <1>4, <1>5 DEF IInv

-----------------------------------------------------------------------------
(* Steps of questions that leave the cache alone.                          *)

LEMMA QuestionMoves ==
  ASSUME IInv, NEW q \in Questions, NEW where \in Places,
         UNCHANGED <<stage, mutex, victim, state, leases, timer, held>>,
         pc' = [pc EXCEPT ![q] = where],
         key' \in [Questions -> Keys \cup {NoKey}],
         \A r \in Questions : r # q => key'[r] = key[r],
         where # "idle" => key'[q] \in Keys /\ stage \in {"open", "draining"},
         where \notin {"evicting", "disposing"},
         q \in Holding <=> where \in {"awaiting", "reading", "releasing"},
         q \in Holding => key'[q] = key[q],
         where = "reading" => state[key'[q]] = "ready"
  PROVE  IInv'
<1>1. pc'[q] = where /\ \A r \in Questions : r # q => pc'[r] = pc[r]
  BY DEF IInv, Typed
<1>2. Holding' = Holding /\ \A r \in Holding : key'[r] = key[r]
  BY <1>1 DEF Holding
<1>3. LeasesExact'
  BY <1>2, SameLeasing DEF IInv, LeasesExact
<1>4. Typed'
  BY DEF IInv, Typed
<1>5. Named'
  BY <1>1 DEF IInv, Named
<1>6. Locked'
  BY <1>1 DEF IInv, Locked
<1>7. Awaited'
  BY <1>1 DEF IInv, Awaited, Cached
<1>8. Pinned'
  BY <1>1, <1>2 DEF IInv, Pinned, Cached, Holding
<1>9. VictimIdle' /\ TimersIdle' /\ IdleExpires' /\ HeldExact'
  BY DEF IInv, VictimIdle, TimersIdle, IdleExpires, HeldExact, Cached
<1>10. Quiet'
  BY <1>1 DEF IInv, Quiet, Typed, Stages
<1> QED BY <1>3, <1>4, <1>5, <1>6, <1>7, <1>8, <1>9, <1>10 DEF IInv

\* Questions run only until the finalizer has drained them.
LEMMA Running ==
  ASSUME IInv, NEW q \in Questions, pc[q] # "idle"
  PROVE  stage \in {"open", "draining"} /\ key[q] \in Keys
BY DEF IInv, Quiet, Typed, Stages, Named

LEMMA AskInv == ASSUME IInv, NEW q \in Questions, NEW k \in Keys, Ask(q, k) PROVE IInv'
<1>1. /\ UNCHANGED <<stage, mutex, victim, state, leases, timer, held>>
      /\ stage = "open" /\ pc[q] = "idle"
      /\ pc' = [pc EXCEPT ![q] = "waiting"] /\ key' = [key EXCEPT ![q] = k]
  BY DEF Ask, entryVars
<1>2. /\ key' \in [Questions -> Keys \cup {NoKey}] /\ key'[q] = k
      /\ \A r \in Questions : r # q => key'[r] = key[r]
  BY <1>1 DEF IInv, Typed
<1>3. q \notin Holding /\ "waiting" \in Places
  BY <1>1 DEF Holding, Places
<1> QED BY <1>1, <1>2, <1>3, QuestionMoves

\* A question leaves without holding anything.
LEMMA LeaveInv ==
  ASSUME IInv, NEW q \in Questions, Leave(q), q \notin Holding,
         UNCHANGED <<stage, mutex, victim, state, leases, timer, held>>
  PROVE  IInv'
<1>1. pc' = [pc EXCEPT ![q] = "idle"] /\ key' = [key EXCEPT ![q] = NoKey]
  BY DEF Leave
<1>2. /\ key' \in [Questions -> Keys \cup {NoKey}]
      /\ \A r \in Questions : r # q => key'[r] = key[r]
  BY <1>1 DEF IInv, Typed
<1>3. "idle" \in Places
  BY DEF Places
<1> QED BY <1>1, <1>2, <1>3, QuestionMoves

\* A question goes on without touching the cache.
LEMMA GotoInv ==
  ASSUME IInv, NEW q \in Questions, NEW where \in Places, Goto(q, where),
         UNCHANGED <<stage, mutex, victim, state, leases, timer, held>>,
         pc[q] # "idle", where \notin {"idle", "evicting", "disposing"},
         q \in Holding <=> where \in {"awaiting", "reading", "releasing"},
         where = "reading" => state[key[q]] = "ready"
  PROVE  IInv'
<1>1. pc' = [pc EXCEPT ![q] = where] /\ key' = key
  BY DEF Goto
<1>2. key \in [Questions -> Keys \cup {NoKey}]
  BY DEF IInv, Typed
<1>3. key[q] \in Keys /\ stage \in {"open", "draining"}
  BY Running
<1> QED BY <1>1, <1>2, <1>3, QuestionMoves

LEMMA InterruptInv == ASSUME IInv, NEW q \in Questions, Interrupt(q) PROVE IInv'
<1>1. UNCHANGED <<stage, mutex, victim, state, leases, timer, held>> /\ pc[q] # "idle"
  BY DEF Interrupt, entryVars
<1>2. CASE pc[q] = "waiting"
  <2>1. Leave(q) /\ q \notin Holding
    BY <1>2 DEF Interrupt, Holding
  <2> QED BY <1>1, <2>1, LeaveInv
<1>3. CASE pc[q] # "waiting"
  <2>1. UNCHANGED <<pc, key>>
    BY <1>3 DEF Interrupt
  <2>2. Holding' = Holding
    BY <2>1 DEF Holding
  <2>3. LeasesExact'
    BY <1>1, <2>1, <2>2, SameLeasing DEF IInv, LeasesExact
  <2>4. /\ Typed' /\ Named' /\ Locked' /\ Awaited' /\ Pinned' /\ VictimIdle'
        /\ TimersIdle' /\ IdleExpires' /\ HeldExact' /\ Quiet'
    BY <1>1, <2>1, <2>2 DEF IInv, Typed, Named, Locked, Awaited, Pinned, VictimIdle,
       TimersIdle, IdleExpires, HeldExact, Quiet, Cached
  <2> QED BY <2>3, <2>4 DEF IInv
<1> QED BY <1>2, <1>3

LEMMA PassInv ==
  ASSUME IInv, NEW q \in Questions,
         Enter(q) \/ AcquireClosed(q) \/ Read(q) \/ GiveUp(q) \/ ReadEnd(q)
  PROVE  IInv'
<1> USE DEF entryVars
<1>1. CASE Enter(q)
  BY <1>1, GotoInv DEF Enter, Holding, Places
<1>2. CASE AcquireClosed(q)
  BY <1>2, LeaveInv DEF AcquireClosed, Locks, Holding
<1>3. CASE Read(q)
  BY <1>3, GotoInv DEF Read, Holding, Places
<1>4. CASE GiveUp(q)
  BY <1>4, GotoInv DEF GiveUp, Holding, Places
<1>5. CASE ReadEnd(q)
  BY <1>5, GotoInv DEF ReadEnd, Holding, Places
<1> QED BY <1>1, <1>2, <1>3, <1>4, <1>5

-----------------------------------------------------------------------------
(* Acquisition.                                                            *)

LEMMA HitInv == ASSUME IInv, NEW q \in Questions, Hit(q) PROVE IInv'
<1>1. /\ mutex = Free /\ pc[q] = "acquiring" /\ stage = "open" /\ Cached(key[q])
      /\ timer' = [timer EXCEPT ![key[q]] = "none"]
      /\ leases' = [leases EXCEPT ![key[q]] = @ + 1]
      /\ Goto(q, "awaiting")
      /\ UNCHANGED <<stage, mutex, victim, state, held>>
  BY DEF Hit, Locks
<1>2. pc' = [pc EXCEPT ![q] = "awaiting"] /\ key' = key
  BY <1>1 DEF Goto
<1>3. key[q] \in Keys /\ q \notin Holding /\ victim = NoKey
  BY <1>1, Running DEF Holding, IInv, Locked
<1>4. /\ Holding' = Holding \cup {q}
      /\ \A k \in Keys : Cardinality(Leasing(k))' =
           IF k = key[q] THEN leases[k] + 1 ELSE leases[k]
  BY <1>1, <1>3, Joins DEF IInv
<1>5. /\ leases' \in [Keys -> Nat] /\ timer' \in [Keys -> {"none", "sleeping", "due"}]
      /\ leases'[key[q]] = leases[key[q]] + 1 /\ leases[key[q]] \in Nat
      /\ timer'[key[q]] = "none"
      /\ \A k \in Keys : k # key[q] => leases'[k] = leases[k] /\ timer'[k] = timer[k]
  BY <1>1, <1>3 DEF IInv, Typed
<1>6. LeasesExact'
  BY <1>4, <1>5 DEF LeasesExact
<1>7. pc' \in [Questions -> Places] /\ pc'[q] = "awaiting"
      /\ \A r \in Questions : r # q => pc'[r] = pc[r]
  BY <1>2 DEF IInv, Typed, Places
<1>8. Typed' /\ Named'
  BY <1>1, <1>2, <1>3, <1>5, <1>7 DEF IInv, Typed, Named
<1>9. Locked' /\ Awaited' /\ Quiet'
  BY <1>1, <1>2, <1>7 DEF IInv, Locked, Awaited, Cached, Quiet
<1>10. Pinned'
  BY <1>1, <1>2, <1>4, <1>7 DEF IInv, Pinned, Cached, Holding
<1>11. VictimIdle' /\ HeldExact'
  BY <1>1, <1>3, DecisionEngineConstants DEF IInv, VictimIdle, HeldExact
<1>12. TimersIdle' /\ IdleExpires'
  BY <1>1, <1>3, <1>5 DEF IInv, TimersIdle, IdleExpires, Cached
<1> QED BY <1>6, <1>8, <1>9, <1>10, <1>11, <1>12 DEF IInv

\* A new entry has one lease, the first.
LEMMA Created ==
  ASSUME IInv, NEW q \in Questions, pc[q] \in {"acquiring", "evicting"}, ~ Cached(key[q]),
         Goto(q, "awaiting")
  PROVE  /\ key[q] \in Keys /\ q \notin Holding /\ stage \in {"open", "draining"}
         /\ leases[key[q]] = 0 /\ timer[key[q]] = "none"
         /\ pc' \in [Questions -> Places] /\ pc'[q] = "awaiting" /\ key' = key
         /\ \A r \in Questions : r # q => pc'[r] = pc[r]
         /\ Holding' = Holding \cup {q}
         /\ \A k \in Keys : Cardinality(Leasing(k))' =
              IF k = key[q] THEN 1 ELSE leases[k]
<1>1. /\ key[q] \in Keys /\ q \notin Holding /\ stage \in {"open", "draining"}
  BY Running DEF Holding
<1>2. Leasing(key[q]) = {}
  BY DEF Leasing, IInv, Pinned
<1>3. leases[key[q]] = 0
  BY <1>1, <1>2, FS_EmptySet DEF IInv, LeasesExact
<1>4. timer[key[q]] = "none"
  BY <1>1 DEF IInv, TimersIdle, Cached
<1>5. /\ Holding' = Holding \cup {q}
      /\ \A k \in Keys : Cardinality(Leasing(k))' =
           IF k = key[q] THEN leases[k] + 1 ELSE leases[k]
  BY <1>1, Joins DEF IInv
<1>6. /\ pc' \in [Questions -> Places] /\ pc'[q] = "awaiting" /\ key' = key
      /\ \A r \in Questions : r # q => pc'[r] = pc[r]
  BY DEF Goto, IInv, Typed, Places
<1>7. \A k \in Keys : Cardinality(Leasing(k))' = IF k = key[q] THEN 1 ELSE leases[k]
  BY <1>3, <1>5
<1> QED BY <1>1, <1>3, <1>4, <1>5, <1>6, <1>7

LEMMA MissInv == ASSUME IInv, NEW q \in Questions, Miss(q) PROVE IInv'
<1>1. /\ mutex = Free /\ pc[q] = "acquiring" /\ stage = "open" /\ ~ Cached(key[q])
      /\ state' = [state EXCEPT ![key[q]] = "loading"]
      /\ leases' = [leases EXCEPT ![key[q]] = 1]
      /\ held' = held \cup {key[q]}
      /\ Goto(q, "awaiting")
      /\ UNCHANGED <<stage, mutex, victim, timer>>
  BY DEF Miss, Locks, Create
<1>2. /\ key[q] \in Keys /\ q \notin Holding
      /\ leases[key[q]] = 0 /\ timer[key[q]] = "none"
      /\ pc' \in [Questions -> Places] /\ pc'[q] = "awaiting" /\ key' = key
      /\ \A r \in Questions : r # q => pc'[r] = pc[r]
      /\ Holding' = Holding \cup {q}
      /\ \A k \in Keys : Cardinality(Leasing(k))' = IF k = key[q] THEN 1 ELSE leases[k]
  BY <1>1, Created
<1>3. /\ leases' \in [Keys -> Nat] /\ leases'[key[q]] = 1
      /\ state' \in [Keys -> {"absent", "loading", "ready", "failed"}]
      /\ state'[key[q]] = "loading"
      /\ \A k \in Keys : k # key[q] => leases'[k] = leases[k] /\ state'[k] = state[k]
  BY <1>1, <1>2 DEF IInv, Typed
<1>4. LeasesExact'
  BY <1>2, <1>3 DEF LeasesExact
<1>5. Typed' /\ Named'
  BY <1>1, <1>2, <1>3 DEF IInv, Typed, Named
<1>6. Locked' /\ Quiet'
  BY <1>1, <1>2 DEF IInv, Locked, Quiet
<1>7. Awaited'
  <2>1. \A r \in Questions : pc'[r] # "evicting"
    BY <1>1, <1>2, DecisionEngineConstants DEF IInv, Locked
  <2> QED BY <2>1 DEF Awaited
<1>8. Pinned'
  <2>1. \A r \in Holding : key[r] # key[q]
    BY <1>1 DEF IInv, Pinned
  <2> QED BY <1>1, <1>2, <1>3, <2>1 DEF IInv, Pinned, Cached, Holding, Named
<1>9. VictimIdle'
  BY <1>1, DecisionEngineConstants DEF IInv, Locked, VictimIdle
<1>10. TimersIdle' /\ IdleExpires'
  BY <1>1, <1>2, <1>3 DEF IInv, TimersIdle, IdleExpires, Cached
<1>11. HeldExact'
  BY <1>1, <1>2, <1>3 DEF IInv, HeldExact
<1> QED BY <1>4, <1>5, <1>6, <1>7, <1>8, <1>9, <1>10, <1>11 DEF IInv

LEMMA MissFullInv == ASSUME IInv, NEW q \in Questions, MissFull(q) PROVE IInv'
<1>1. /\ mutex = Free /\ pc[q] = "acquiring" /\ stage = "open" /\ ~ Cached(key[q])
      /\ mutex' = q /\ Goto(q, "evicting")
      /\ UNCHANGED <<stage, state, leases, held>>
  BY DEF MissFull, Locks
<1>2. PICK k \in Keys : /\ leases[k] = 0 /\ victim' = k
                        /\ timer' = [timer EXCEPT ![k] = "none"]
  BY DEF MissFull, Oldest
<1>3. pc' = [pc EXCEPT ![q] = "evicting"] /\ key' = key
  BY <1>1 DEF Goto
<1>4. /\ pc' \in [Questions -> Places] /\ pc'[q] = "evicting"
      /\ \A r \in Questions : r # q => pc'[r] = pc[r]
  BY <1>3 DEF IInv, Typed, Places
<1>5. Holding' = Holding
  BY <1>1, <1>4 DEF Holding
<1>6. LeasesExact'
  BY <1>1, <1>3, <1>5, SameLeasing DEF IInv, LeasesExact
<1>7. /\ timer' \in [Keys -> {"none", "sleeping", "due"}] /\ timer'[k] = "none"
      /\ \A j \in Keys : j # k => timer'[j] = timer[j]
  BY <1>2 DEF IInv, Typed
<1>8. Typed' /\ Named'
  BY <1>1, <1>3, <1>4, <1>7 DEF IInv, Typed, Named
<1>9. Locked' /\ Quiet'
  BY <1>1, <1>4, DecisionEngineConstants DEF IInv, Locked, Quiet
<1>10. Awaited' /\ Pinned'
  BY <1>1, <1>3, <1>4, <1>5 DEF IInv, Awaited, Pinned, Cached, Holding
<1>11. VictimIdle' /\ TimersIdle' /\ HeldExact'
  BY <1>1, <1>2, <1>7 DEF IInv, VictimIdle, TimersIdle, HeldExact
<1>12. IdleExpires'
  <2>1. victim = NoKey /\ NoKey \notin Keys
    BY <1>1, DecisionEngineConstants DEF IInv, Locked
  <2> QED BY <1>1, <1>2, <1>7, <2>1 DEF IInv, IdleExpires, Cached
<1> QED BY <1>6, <1>8, <1>9, <1>10, <1>11, <1>12 DEF IInv

LEMMA EvictEndInv == ASSUME IInv, NEW q \in Questions, EvictEnd(q) PROVE IInv'
<1>1. /\ mutex = q /\ pc[q] = "evicting"
      /\ state' = [state EXCEPT ![victim] = "absent", ![key[q]] = "loading"]
      /\ leases' = [leases EXCEPT ![key[q]] = 1]
      /\ held' = (held \ {victim}) \cup {key[q]}
      /\ mutex' = Free /\ victim' = NoKey
      /\ Goto(q, "awaiting")
      /\ UNCHANGED <<stage, timer>>
  BY DEF EvictEnd
<1>2. ~ Cached(key[q])
  BY <1>1 DEF IInv, Awaited
<1>3. /\ key[q] \in Keys /\ q \notin Holding
      /\ leases[key[q]] = 0 /\ timer[key[q]] = "none" /\ stage \in {"open", "draining"}
      /\ pc' \in [Questions -> Places] /\ pc'[q] = "awaiting" /\ key' = key
      /\ \A r \in Questions : r # q => pc'[r] = pc[r]
      /\ Holding' = Holding \cup {q}
      /\ \A k \in Keys : Cardinality(Leasing(k))' = IF k = key[q] THEN 1 ELSE leases[k]
  BY <1>1, <1>2, Created
<1>4. /\ leases' \in [Keys -> Nat] /\ leases'[key[q]] = 1
      /\ \A k \in Keys : k # key[q] => leases'[k] = leases[k]
  BY <1>1, <1>3 DEF IInv, Typed
<1>5. /\ state' \in [Keys -> {"absent", "loading", "ready", "failed"}]
      /\ state'[key[q]] = "loading"
      /\ victim \in Keys /\ victim # key[q] => state'[victim] = "absent"
      /\ \A k \in Keys : k # key[q] /\ k # victim => state'[k] = state[k]
  BY <1>1, <1>3 DEF IInv, Typed
<1>6. LeasesExact'
  BY <1>3, <1>4 DEF LeasesExact
<1>7. Typed' /\ Named'
  BY <1>1, <1>3, <1>4, <1>5 DEF IInv, Typed, Named
<1>8. Locked' /\ Quiet'
  BY <1>1, <1>3, DecisionEngineConstants DEF IInv, Locked, Quiet
<1>9. Awaited'
  <2>1. \A r \in Questions : pc'[r] # "evicting"
    BY <1>1, <1>3 DEF IInv, Locked
  <2> QED BY <2>1 DEF Awaited
<1>10. Pinned'
  <2>1. \A r \in Holding : r # q /\ key[r] \in Keys /\ key[r] # key[q] /\ key[r] # victim
    BY <1>2, <1>3, HeldIsLeased DEF IInv, Pinned
  <2>2. \A r \in Holding : state'[key[r]] = state[key[r]] /\ pc'[r] = pc[r]
    BY <1>3, <1>5, <2>1 DEF Holding
  <2> QED BY <1>3, <1>5, <2>2 DEF IInv, Pinned, Cached
<1>11. VictimIdle'
  BY <1>1, DecisionEngineConstants DEF VictimIdle
<1>12. TimersIdle' /\ IdleExpires'
  BY <1>1, <1>3, <1>4, <1>5 DEF IInv, TimersIdle, IdleExpires, Cached, VictimIdle
<1>13. HeldExact'
  BY <1>1, <1>3, <1>5 DEF IInv, HeldExact
<1> QED BY <1>6, <1>7, <1>8, <1>9, <1>10, <1>11, <1>12, <1>13 DEF IInv

-----------------------------------------------------------------------------
(* Disposal.                                                               *)

\* The entry that is disposed of has no lease, so nobody misses it.
LEMMA DeleteInv ==
  ASSUME IInv, Delete, stage' = stage, mutex' \in {Free, mutex}, Holding' = Holding,
         Typed', Named', Quiet', key' = key \/ \A q \in Holding : key'[q] = key[q],
         \A q \in Holding : pc'[q] = pc[q],
         \A q \in Questions : pc'[q] \in {"evicting", "disposing"} =>
           mutex' = q /\ pc'[q] = pc[q] /\ key'[q] = key[q],
         mutex' = Closer => stage = "disposing"
  PROVE  IInv'
<1>1. /\ state' = [state EXCEPT ![victim] = "absent"]
      /\ held' = held \ {victim} /\ victim' = NoKey
      /\ UNCHANGED <<leases, timer>>
  BY DEF Delete
<1>2. \A k \in Keys : /\ k = victim => state'[k] = "absent"
                      /\ k # victim => state'[k] = state[k]
  BY <1>1 DEF IInv, Typed
<1>3. \A q \in Holding : key'[q] = key[q]
  OBVIOUS
<1>4. LeasesExact'
  BY <1>1, <1>3, SameLeasing DEF IInv, LeasesExact
<1>5. Locked'
  BY <1>1, DecisionEngineConstants DEF Locked
<1>6. Awaited'
  BY <1>2 DEF IInv, Awaited, Cached, Named
<1>7. Pinned'
  <2>1. \A q \in Holding : key[q] \in Keys /\ key[q] # victim
    BY HeldIsLeased
  <2> QED BY <1>2, <1>3, <2>1 DEF IInv, Pinned, Cached
<1>8. VictimIdle'
  BY <1>1, DecisionEngineConstants DEF VictimIdle
<1>9. TimersIdle' /\ IdleExpires'
  BY <1>1, <1>2 DEF IInv, TimersIdle, IdleExpires, VictimIdle, Cached
<1>10. HeldExact'
  BY <1>1, <1>2 DEF IInv, HeldExact
<1> QED BY <1>4, <1>5, <1>6, <1>7, <1>8, <1>9, <1>10 DEF IInv

LEMMA DeleteTyped == ASSUME Typed, Delete, stage' = stage, UNCHANGED <<pc, key>> PROVE Typed'
<1>1. state' \in [Keys -> {"absent", "loading", "ready", "failed"}]
  BY DEF Typed, Delete
<1> QED BY <1>1 DEF Typed, Delete

LEMMA DisposeEndInv == ASSUME IInv, NEW q \in Questions, DisposeEnd(q) PROVE IInv'
<1>1. /\ mutex = q /\ pc[q] = "disposing" /\ mutex' = Free /\ stage' = stage
      /\ Delete /\ Leave(q)
  BY DEF DisposeEnd
<1>2. pc' = [pc EXCEPT ![q] = "idle"] /\ key' = [key EXCEPT ![q] = NoKey]
  BY <1>1 DEF Leave
<1>3. /\ pc' \in [Questions -> Places] /\ pc'[q] = "idle"
      /\ key' \in [Questions -> Keys \cup {NoKey}]
      /\ \A r \in Questions : r # q => pc'[r] = pc[r] /\ key'[r] = key[r]
  BY <1>2 DEF IInv, Typed, Places
<1>4. Typed'
  <2>1. state' \in [Keys -> {"absent", "loading", "ready", "failed"}]
    BY <1>1 DEF IInv, Typed, Delete
  <2> QED BY <1>1, <1>3, <2>1 DEF IInv, Typed, Delete
<1>5. Named' /\ Quiet'
  BY <1>1, <1>3 DEF IInv, Named, Quiet, Delete
<1>6. q \notin Holding /\ Holding' = Holding
  BY <1>1, <1>3 DEF Holding
<1>7. \A r \in Questions : pc'[r] \notin {"evicting", "disposing"}
  BY <1>1, <1>3 DEF IInv, Locked
<1>8. \A r \in Holding : key'[r] = key[r] /\ pc'[r] = pc[r]
  BY <1>3, <1>6 DEF Holding
<1> QED BY <1>1, <1>4, <1>5, <1>6, <1>7, <1>8, DecisionEngineConstants, DeleteInv

LEMMA BackgroundEndInv ==
  ASSUME IInv, Delete, UNCHANGED <<stage, pc, key>>,
         (mutex \in Keys /\ mutex' = Free) \/ (mutex = Closer /\ mutex' = mutex)
  PROVE  IInv'
<1>1. Typed'
  BY DeleteTyped DEF IInv
<1>2. Named' /\ Quiet' /\ Holding' = Holding
  BY DEF IInv, Named, Quiet, Delete, Holding
<1>3. \A q \in Questions : pc'[q] \notin {"evicting", "disposing"}
  BY DecisionEngineConstants DEF IInv, Locked
<1>4. mutex' = Closer => stage = "disposing"
  BY DecisionEngineConstants DEF IInv, Locked
<1> QED BY <1>1, <1>2, <1>3, <1>4, DeleteInv

-----------------------------------------------------------------------------
(* Release.                                                                *)

\* What a release makes of the questions and the count.
After(q) ==
  /\ key[q] \in Keys /\ q \in Holding /\ victim = NoKey
  /\ LeasesExact' /\ leases' \in [Keys -> Nat]
  /\ leases'[key[q]] = leases[key[q]] - 1 /\ leases[key[q]] \in Nat
  /\ leases[key[q]] # 0 /\ timer[key[q]] = "none" /\ Cached(key[q])
  /\ \A k \in Keys : k # key[q] => leases'[k] = leases[k]
  /\ pc' \in [Questions -> Places] /\ key' \in [Questions -> Keys \cup {NoKey}]
  /\ pc'[q] = "idle" \/ (pc'[q] = "disposing" /\ key'[q] = key[q])
  /\ \A r \in Questions : r # q => pc'[r] = pc[r] /\ key'[r] = key[r]
  /\ Holding' = Holding \ {q}
  /\ \A r \in Questions : pc[r] \notin {"evicting", "disposing"}
  /\ stage \in {"open", "draining"}

LEMMA Released ==
  ASSUME IInv, NEW q \in Questions, pc[q] = "releasing", mutex = Free,
         Unlease(key[q]), Leave(q) \/ Goto(q, "disposing")
  PROVE  After(q)
<1>1. /\ key[q] \in Keys /\ q \in Holding /\ stage \in {"open", "draining"}
      /\ leases[key[q]] # 0 /\ timer[key[q]] = "none" /\ Cached(key[q])
  BY Running, HeldIsLeased DEF Holding, IInv, Pinned
<1>2. victim = NoKey /\ \A r \in Questions : pc[r] \notin {"evicting", "disposing"}
  BY DecisionEngineConstants DEF IInv, Locked
<1>3. /\ pc' \in [Questions -> Places] /\ key' \in [Questions -> Keys \cup {NoKey}]
      /\ pc'[q] = "idle" \/ (pc'[q] = "disposing" /\ key'[q] = key[q])
      /\ \A r \in Questions : r # q => pc'[r] = pc[r] /\ key'[r] = key[r]
  <2>1. CASE Leave(q)
    BY <2>1 DEF IInv, Typed, Leave, Places
  <2>2. CASE Goto(q, "disposing")
    BY <2>2 DEF IInv, Typed, Goto, Places
  <2> QED BY <2>1, <2>2
<1>4. Holding' = Holding \ {q}
  BY <1>3 DEF Holding
<1>5. /\ key[q] \in Keys /\ leases[key[q]] >= 1
      /\ \A k \in Keys : Cardinality(Leasing(k))' =
           IF k = key[q] THEN leases[k] - 1 ELSE leases[k]
  BY <1>1, <1>3, <1>4, Parts DEF IInv, Holding
<1>6. /\ leases' \in [Keys -> Nat] /\ leases'[key[q]] = leases[key[q]] - 1
      /\ leases[key[q]] \in Nat
      /\ \A k \in Keys : k # key[q] => leases'[k] = leases[k]
  BY <1>5 DEF IInv, Typed, Unlease
<1>7. LeasesExact'
  BY <1>5, <1>6 DEF LeasesExact
<1> QED BY <1>1, <1>2, <1>3, <1>4, <1>6, <1>7 DEF After

LEMMA ReleaseOnlyInv == ASSUME IInv, NEW q \in Questions, ReleaseOnly(q) PROVE IInv'
<1>1. /\ mutex = Free /\ pc[q] = "releasing"
      /\ leases[key[q]] # 1 \/ stage # "open"
      /\ Unlease(key[q]) /\ Leave(q)
      /\ UNCHANGED <<stage, mutex, victim, state, timer, held>>
  BY DEF ReleaseOnly
<1>a. After(q)
  BY <1>1, Released
<1>b. pc'[q] = "idle"
  BY <1>1 DEF Leave, IInv, Typed
<1> USE DEF IInv, After
<1>2. Typed' /\ LeasesExact'
  BY <1>1, <1>a DEF Typed
<1>3. Named'
  BY <1>1, <1>a DEF Named
<1>4. Locked' /\ Awaited'
  BY <1>1, <1>a, <1>b DEF Locked, Awaited
<1>5. Pinned'
  BY <1>1, <1>a DEF Pinned, Cached, Holding
<1>6. VictimIdle' /\ HeldExact'
  BY <1>1, <1>a, DecisionEngineConstants DEF VictimIdle, HeldExact
<1>7. TimersIdle'
  BY <1>1, <1>a DEF TimersIdle
<1>8. IdleExpires'
  BY <1>1, <1>a DEF IdleExpires, Cached
<1>9. Quiet'
  BY <1>1, <1>a DEF Quiet
<1> QED BY <1>2, <1>3, <1>4, <1>5, <1>6, <1>7, <1>8, <1>9

LEMMA ReleaseAbandonedInv ==
  ASSUME IInv, NEW q \in Questions, ReleaseAbandoned(q) PROVE IInv'
<1>1. /\ mutex = Free /\ pc[q] = "releasing" /\ leases[key[q]] = 1
      /\ Unlease(key[q]) /\ Goto(q, "disposing")
      /\ mutex' = q /\ victim' = key[q]
      /\ UNCHANGED <<stage, state, timer, held>>
  BY DEF ReleaseAbandoned, LastLease
<1>a. After(q)
  BY <1>1, Released
<1> USE DEF IInv, After
<1>2. Typed' /\ LeasesExact'
  BY <1>1, <1>a DEF Typed
<1>3. Named'
  BY <1>1, <1>a DEF Named
<1>4. Locked' /\ Awaited'
  BY <1>1, <1>a, DecisionEngineConstants DEF Locked, Awaited
<1>5. Pinned'
  BY <1>1, <1>a DEF Pinned, Cached, Holding
<1>6. VictimIdle' /\ HeldExact'
  BY <1>1, <1>a DEF VictimIdle, HeldExact
<1>7. TimersIdle'
  BY <1>1, <1>a DEF TimersIdle
<1>8. IdleExpires'
  BY <1>1, <1>a, DecisionEngineConstants DEF IdleExpires, Cached
<1>9. Quiet'
  BY <1>1, <1>a DEF Quiet
<1> QED BY <1>2, <1>3, <1>4, <1>5, <1>6, <1>7, <1>8, <1>9

LEMMA ReleaseIdleInv == ASSUME IInv, NEW q \in Questions, ReleaseIdle(q) PROVE IInv'
<1>1. /\ mutex = Free /\ pc[q] = "releasing" /\ leases[key[q]] = 1
      /\ stage = "open" /\ state[key[q]] = "ready"
      /\ timer' = [timer EXCEPT ![key[q]] = "sleeping"]
      /\ Unlease(key[q]) /\ Leave(q)
      /\ UNCHANGED <<stage, mutex, victim, state, held>>
  BY DEF ReleaseIdle, LastLease
<1>a. After(q)
  BY <1>1, Released
<1>b. pc'[q] = "idle"
  BY <1>1 DEF Leave, IInv, Typed
<1> USE DEF IInv, After
<1>2. /\ timer' \in [Keys -> {"none", "sleeping", "due"}] /\ timer'[key[q]] = "sleeping"
      /\ \A k \in Keys : k # key[q] => timer'[k] = timer[k]
  BY <1>1, <1>a DEF Typed
<1>3. Typed' /\ LeasesExact'
  BY <1>1, <1>2, <1>a DEF Typed
<1>4. Named'
  BY <1>1, <1>a DEF Named
<1>5. Locked' /\ Awaited'
  BY <1>1, <1>a, <1>b DEF Locked, Awaited
<1>6. Pinned'
  BY <1>1, <1>a DEF Pinned, Cached, Holding
<1>7. VictimIdle' /\ HeldExact'
  BY <1>1, <1>a, DecisionEngineConstants DEF VictimIdle, HeldExact
<1>8. TimersIdle'
  BY <1>1, <1>2, <1>a DEF TimersIdle
<1>9. IdleExpires'
  BY <1>1, <1>2, <1>a DEF IdleExpires, Cached
<1>10. Quiet'
  BY <1>1, <1>a DEF Quiet
<1> QED BY <1>3, <1>4, <1>5, <1>6, <1>7, <1>8, <1>9, <1>10

-----------------------------------------------------------------------------
(* Workers and timers.                                                     *)

\* A prefill ends: its entry is leased, or about to be disposed of.
LEMMA PrefillInv ==
  ASSUME IInv, NEW k \in Keys, Prefilled(k) \/ PrefillFails(k)
  PROVE  IInv'
<1>1. /\ state[k] = "loading"
      /\ UNCHANGED <<stage, mutex, victim, leases, timer, pc, key>>
      /\ \/ state' = [state EXCEPT ![k] = "ready"] /\ held' = held
         \/ state' = [state EXCEPT ![k] = "failed"] /\ held' = held \ {k}
  BY DEF Prefilled, PrefillFails, questionVars
<1>2. /\ state' \in [Keys -> {"absent", "loading", "ready", "failed"}]
      /\ \A j \in Keys : j # k => state'[j] = state[j]
      /\ \/ state'[k] = "ready" /\ held' = held
         \/ state'[k] = "failed" /\ held' = held \ {k}
  BY <1>1 DEF IInv, Typed
<1>3. Holding' = Holding /\ \A q \in Holding : key'[q] = key[q]
  BY <1>1 DEF Holding
<1>4. LeasesExact'
  BY <1>1, <1>3, SameLeasing DEF IInv, LeasesExact
<1>5. Typed' /\ Named' /\ Locked' /\ Quiet'
  BY <1>1, <1>2 DEF IInv, Typed, Named, Locked, Quiet
<1>6. Awaited'
  BY <1>1, <1>2 DEF IInv, Awaited, Named, Cached
<1>7. Pinned'
  <2>1. \A q \in Holding : key[q] \in Keys /\ (pc[q] = "reading" => key[q] # k)
    BY <1>1 DEF IInv, Pinned, Named, Holding
  <2> QED BY <1>1, <1>2, <1>3, <2>1 DEF IInv, Pinned, Cached
<1>8. VictimIdle' /\ TimersIdle' /\ HeldExact'
  BY <1>1, <1>2 DEF IInv, VictimIdle, TimersIdle, HeldExact
<1>9. IdleExpires'
  BY <1>1, <1>2 DEF IInv, IdleExpires, Cached
<1> QED BY <1>4, <1>5, <1>6, <1>7, <1>8, <1>9 DEF IInv

LEMMA TimerDueInv == ASSUME IInv, NEW k \in Keys, TimerDue(k) PROVE IInv'
<1>1. /\ timer[k] = "sleeping" /\ timer' = [timer EXCEPT ![k] = "due"]
      /\ UNCHANGED <<stage, mutex, victim, state, leases, held, pc, key>>
  BY DEF TimerDue, questionVars
<1>2. /\ timer' \in [Keys -> {"none", "sleeping", "due"}]
      /\ timer'[k] = "due" /\ \A j \in Keys : j # k => timer'[j] = timer[j]
  BY <1>1 DEF IInv, Typed
<1>3. Holding' = Holding /\ \A q \in Holding : key'[q] = key[q]
  BY <1>1 DEF Holding
<1>4. LeasesExact'
  BY <1>1, <1>3, SameLeasing DEF IInv, LeasesExact
<1>5. Typed' /\ Named' /\ Locked' /\ Awaited' /\ HeldExact'
  BY <1>1, <1>2 DEF IInv, Typed, Named, Locked, Awaited, HeldExact, Cached
<1>6. Pinned'
  BY <1>1, <1>3 DEF IInv, Pinned, Cached
<1>7. VictimIdle' /\ TimersIdle'
  BY <1>1, <1>2 DEF IInv, VictimIdle, TimersIdle
<1>8. IdleExpires'
  BY <1>1, <1>2 DEF IInv, IdleExpires, Cached
<1>9. Quiet'
  BY <1>1, <1>2 DEF IInv, Quiet
<1> QED BY <1>4, <1>5, <1>6, <1>7, <1>8, <1>9 DEF IInv

\* A timer that has the mutex is still the timer of an idle entry.
LEMMA ExpireInv == ASSUME IInv, NEW k \in Keys, Expire(k) PROVE IInv'
<1>1. /\ timer[k] = "due" /\ mutex = Free /\ timer' = [timer EXCEPT ![k] = "none"]
      /\ mutex' = k /\ victim' = k
      /\ UNCHANGED <<stage, state, leases, held, pc, key>>
  BY DEF Expire, questionVars
<1>2. /\ timer' \in [Keys -> {"none", "sleeping", "due"}]
      /\ timer'[k] = "none" /\ \A j \in Keys : j # k => timer'[j] = timer[j]
  BY <1>1 DEF IInv, Typed
<1>3. Holding' = Holding /\ \A q \in Holding : key'[q] = key[q]
  BY <1>1 DEF Holding
<1>4. LeasesExact'
  BY <1>1, <1>3, SameLeasing DEF IInv, LeasesExact
<1>5. Typed' /\ Named' /\ Awaited' /\ HeldExact'
  BY <1>1, <1>2 DEF IInv, Typed, Named, Awaited, HeldExact, Cached
<1>6. Locked'
  BY <1>1, DecisionEngineConstants DEF IInv, Locked
<1>7. Pinned'
  BY <1>1, <1>3 DEF IInv, Pinned, Cached
<1>8. VictimIdle' /\ TimersIdle'
  BY <1>1, <1>2 DEF IInv, VictimIdle, TimersIdle
<1>9. IdleExpires'
  <2>1. victim \notin Keys
    BY <1>1, DecisionEngineConstants DEF IInv, Locked
  <2> QED BY <1>1, <1>2, <2>1 DEF IInv, IdleExpires, Cached
<1>10. Quiet'
  BY <1>1, <1>2 DEF IInv, Quiet
<1> QED BY <1>4, <1>5, <1>6, <1>7, <1>8, <1>9, <1>10 DEF IInv

LEMMA ExpireEndInv == ASSUME IInv, NEW k \in Keys, ExpireEnd(k) PROVE IInv'
<1>1. Delete /\ UNCHANGED <<stage, pc, key>> /\ mutex \in Keys /\ mutex' = Free
  BY DEF ExpireEnd, questionVars
<1> QED BY <1>1, BackgroundEndInv

-----------------------------------------------------------------------------
(* The finalizer.                                                          *)

\* Questions that wait for a slot are interrupted at once; they hold nothing.
LEMMA CloseInv == ASSUME IInv, Close PROVE IInv'
<1>1. /\ stage = "open" /\ stage' = "draining"
      /\ pc' = [q \in Questions |-> IF pc[q] = "waiting" THEN "idle" ELSE pc[q]]
      /\ key' = [q \in Questions |-> IF pc[q] = "waiting" THEN NoKey ELSE key[q]]
      /\ UNCHANGED <<mutex, victim, state, leases, timer, held>>
  BY DEF Close, entryVars
<1>2. /\ pc' \in [Questions -> Places] /\ key' \in [Questions -> Keys \cup {NoKey}]
      /\ \A q \in Questions : \/ pc[q] = "waiting" /\ pc'[q] = "idle"
                              \/ pc'[q] = pc[q] /\ key'[q] = key[q]
  BY <1>1 DEF IInv, Typed, Places
<1>3. Holding' = Holding
  BY <1>2 DEF Holding
<1>4. \A q \in Holding : key'[q] = key[q] /\ pc'[q] = pc[q]
  BY <1>2 DEF Holding
<1>5. LeasesExact'
  BY <1>1, <1>3, <1>4, SameLeasing DEF IInv, LeasesExact
<1>6. Typed' /\ Named'
  BY <1>1, <1>2 DEF IInv, Typed, Named, Stages
<1>7. Locked' /\ Awaited'
  BY <1>1, <1>2 DEF IInv, Locked, Awaited, Cached
<1>8. Pinned'
  BY <1>1, <1>3, <1>4 DEF IInv, Pinned, Cached
<1>9. VictimIdle' /\ TimersIdle' /\ IdleExpires' /\ HeldExact' /\ Quiet'
  BY <1>1 DEF IInv, VictimIdle, TimersIdle, IdleExpires, HeldExact, Quiet
<1> QED BY <1>5, <1>6, <1>7, <1>8, <1>9 DEF IInv

LEMMA DrainedInv == ASSUME IInv, Drained PROVE IInv'
<1>1. /\ stage = "draining" /\ stage' = "stopping" /\ \A q \in Questions : pc[q] = "idle"
      /\ timer' = [k \in Keys |-> "none"]
      /\ UNCHANGED <<mutex, victim, state, leases, held, pc, key>>
  BY DEF Drained, questionVars
<1>2. Holding' = Holding /\ \A q \in Holding : key'[q] = key[q]
  BY <1>1 DEF Holding
<1>3. LeasesExact'
  BY <1>1, <1>2, SameLeasing DEF IInv, LeasesExact
<1>4. Typed' /\ Named' /\ Locked' /\ Awaited' /\ HeldExact'
  BY <1>1 DEF IInv, Typed, Stages, Named, Locked, Awaited, HeldExact, Cached
<1>5. Pinned'
  BY <1>1, <1>2 DEF IInv, Pinned, Cached
<1>6. VictimIdle' /\ TimersIdle' /\ IdleExpires' /\ Quiet'
  BY <1>1 DEF IInv, VictimIdle, TimersIdle, IdleExpires, Quiet
<1> QED BY <1>3, <1>4, <1>5, <1>6 DEF IInv

\* The finalizer takes the mutex before, and gives it back after, it disposes.
LEMMA CloserInv ==
  ASSUME IInv, stage \in {"stopping", "disposing"}, stage' \in {"disposing", "closed"},
         mutex' \in {Closer, Free}, (mutex' = Closer) <=> (stage' = "disposing"),
         UNCHANGED <<state, leases, timer, held, pc, key>>,
         victim' # NoKey => mutex' = Closer
  PROVE  IInv'
<1>1. /\ \A q \in Questions : pc[q] = "idle"
      /\ \A k \in Keys : timer[k] = "none"
  BY DEF IInv, Quiet
<1>2. Holding = {} /\ Holding' = Holding
  BY <1>1 DEF Holding
<1>3. \A k \in Keys : leases[k] = 0
  <2> TAKE k \in Keys
  <2>1. Leasing(k) = {}
    BY <1>2 DEF Leasing
  <2> QED BY <2>1, FS_EmptySet DEF IInv, LeasesExact
<1>4. LeasesExact'
  BY <1>2, SameLeasing DEF IInv, LeasesExact
<1>5. Typed' /\ Named' /\ Awaited' /\ HeldExact' /\ Quiet'
  BY <1>1 DEF IInv, Typed, Stages, Named, Awaited, HeldExact, Quiet, Cached
<1>6. Locked'
  BY <1>1, DecisionEngineConstants DEF Locked
<1>7. Pinned' /\ VictimIdle' /\ TimersIdle' /\ IdleExpires'
  BY <1>1, <1>2, <1>3 DEF Pinned, VictimIdle, TimersIdle, IdleExpires
<1> QED BY <1>4, <1>5, <1>6, <1>7 DEF IInv

LEMMA FinalizeInv == ASSUME IInv, Finalize PROVE IInv'
<1> USE DEF entryVars, questionVars
<1>1. CASE Drained
  BY <1>1, DrainedInv
<1>2. CASE Stopped
  <2>1. victim = NoKey
    BY <1>2 DEF Stopped, IInv, Locked
  <2> QED BY <1>2, <2>1, CloserInv DEF Stopped
<1>3. CASE CloseEntry
  <2>1. /\ mutex = Closer /\ stage = "disposing"
        /\ UNCHANGED <<stage, mutex, state, leases, timer, held, pc, key>>
    BY <1>3 DEF CloseEntry, IInv, Locked
  <2> QED BY <2>1, CloserInv, DecisionEngineConstants
<1>4. CASE CloseEntryEnd
  <2>1. Delete /\ UNCHANGED <<stage, mutex, pc, key>> /\ mutex = Closer
    BY <1>4 DEF CloseEntryEnd
  <2> QED BY <2>1, BackgroundEndInv
<1>5. CASE Closed
  <2>1. stage = "disposing" /\ victim = NoKey
    BY <1>5 DEF Closed, IInv, Locked
  <2> QED BY <1>5, <2>1, CloserInv, DecisionEngineConstants DEF Closed
<1> QED BY <1>1, <1>2, <1>3, <1>4, <1>5 DEF Finalize

-----------------------------------------------------------------------------
LEMMA RunInv == ASSUME IInv, NEW q \in Questions, Run(q) PROVE IInv'
<1>1. CASE Enter(q) \/ AcquireClosed(q) \/ Read(q) \/ GiveUp(q) \/ ReadEnd(q)
  BY <1>1, PassInv
<1>2. CASE Hit(q) \/ Miss(q) \/ MissFull(q) \/ EvictEnd(q)
  BY <1>2, HitInv, MissInv, MissFullInv, EvictEndInv
<1>3. CASE ReleaseOnly(q) \/ ReleaseAbandoned(q) \/ ReleaseIdle(q) \/ DisposeEnd(q)
  BY <1>3, ReleaseOnlyInv, ReleaseAbandonedInv, ReleaseIdleInv, DisposeEndInv
<1> QED BY <1>1, <1>2, <1>3 DEF Run

LEMMA BackgroundInv == ASSUME IInv, NEW k \in Keys, Background(k) PROVE IInv'
BY PrefillInv, TimerDueInv, ExpireInv, ExpireEndInv DEF Background

LEMMA NextInv == IInv /\ [Next]_vars => IInv'
<1> SUFFICES ASSUME IInv, [Next]_vars PROVE IInv'
  OBVIOUS
<1>1. CASE \E q \in Questions : (\E k \in Keys : Ask(q, k)) \/ Interrupt(q)
  BY <1>1, AskInv, InterruptInv
<1>2. CASE Close
  BY <1>2, CloseInv
<1>3. CASE Progress
  BY <1>3, RunInv, BackgroundInv, FinalizeInv DEF Progress
<1>4. CASE UNCHANGED vars
  <2>1. UNCHANGED <<stage, mutex, victim, state, leases, timer, held, pc, key>>
    BY <1>4 DEF vars, entryVars, questionVars
  <2>2. Holding' = Holding /\ \A q \in Holding : key'[q] = key[q]
    BY <2>1 DEF Holding
  <2>3. LeasesExact'
    BY <2>1, <2>2, SameLeasing DEF IInv, LeasesExact
  <2>4. /\ Typed' /\ Named' /\ Locked' /\ Awaited' /\ Pinned' /\ VictimIdle'
        /\ TimersIdle' /\ IdleExpires' /\ HeldExact' /\ Quiet'
    BY <2>1, <2>2 DEF IInv, Typed, Named, Locked, Awaited, Pinned, VictimIdle,
       TimersIdle, IdleExpires, HeldExact, Quiet, Cached
  <2> QED BY <2>3, <2>4 DEF IInv
<1> QED BY <1>1, <1>2, <1>3, <1>4 DEF Next

THEOREM Inductive == Spec => []IInv
<1> QED BY InitInv, NextInv, PTL DEF Spec

-----------------------------------------------------------------------------
\* The lease count of every entry of acquire and release is the number of
\* questions that still have to give it back: hits, failed prefills,
\* interruptions and the finalizer lose none and give none back twice.
THEOREM LeasesMatch == Spec => []LeasesExact
<1>1. IInv => LeasesExact
  BY DEF IInv
<1> QED BY <1>1, Inductive, PTL

\* dispose never reaches the prefix of a question that awaits, reads or
\* releases it, and a question reads from a ready prefix with its resources.
THEOREM InUseKept == Spec => []InUse
<1>1. IInv => InUse
  <2> SUFFICES ASSUME IInv, NEW q \in Holding
               PROVE  /\ Cached(key[q]) /\ key[q] # victim
                      /\ pc[q] = "reading" => state[key[q]] = "ready" /\ key[q] \in held
    BY DEF InUse
  <2>1. key[q] \in Keys /\ key[q] # victim
    BY HeldIsLeased
  <2>2. Cached(key[q]) /\ (pc[q] = "reading" => state[key[q]] = "ready")
    BY DEF IInv, Pinned
  <2> QED BY <2>1, <2>2 DEF IInv, HeldExact
<1> QED BY <1>1, Inductive, PTL

\* Whenever nobody holds the mutex of an open engine, an entry without leases
\* is ready and its expiry timer runs; a leased entry has none.
THEOREM IdleTimedHolds == Spec => []IdleTimed
<1>1. IInv => IdleTimed
  <2>1. NoKey \notin Keys
    BY DecisionEngineConstants
  <2> QED BY <2>1 DEF IInv, Locked, IdleExpires, IdleTimed
<1> QED BY <1>1, Inductive, PTL

-----------------------------------------------------------------------------
(* The entries of the Map.                                                 *)

Ready == {k \in Keys : state[k] = "ready"}

\* The Map lists each cached key once.
Listed ==
  /\ order \in Seq(Keys) /\ IsInjective(order)
  /\ ToSet(order) = {k \in Keys : Cached(k)}
  /\ Len(order) <= MaxCached
  /\ stage = "closed" => order = <<>>

\* Only a listed entry is disposed of, and by somebody who has the mutex.
Disposed ==
  /\ mutex \in Questions \cup Keys \cup {Closer, Free}
  /\ victim # NoKey => victim \in ToSet(order)
  /\ \A q \in Questions : pc[q] = "evicting" => victim # NoKey

\* The counters: prefixes, slots.
Counted ==
  /\ livePrefixes = Cardinality(Ready)
  /\ Cardinality(Active) <= MaxActive
  /\ cut \in [Questions -> BOOLEAN]

MapInv == Listed /\ Disposed /\ Counted

LEMMA AtIs ==
  ASSUME Listed, NEW k \in ToSet(order)
  PROVE  At(k) \in 1 .. Len(order) /\ order[At(k)] = k
<1>1. DOMAIN order = 1 .. Len(order) /\ \E i \in DOMAIN order : order[i] = k
  BY DEF Listed, ToSet
<1> QED BY <1>1 DEF At

\* What entries.delete leaves of the Map.
LEMMA WithoutIs ==
  ASSUME Listed, NEW k \in ToSet(order)
  PROVE  /\ Without(k) \in Seq(Keys) /\ IsInjective(Without(k))
         /\ ToSet(Without(k)) = ToSet(order) \ {k}
         /\ Len(order) \in Nat \ {0} /\ Len(Without(k)) = Len(order) - 1
<1> DEFINE s == order
           n == At(k)
           front == SubSeq(s, 1, n - 1)
           back == SubSeq(s, n + 1, Len(s))
<1>1. /\ s \in Seq(Keys) /\ IsInjective(s) /\ Len(s) \in Nat /\ DOMAIN s = 1 .. Len(s)
      /\ n \in 1 .. Len(s) /\ s[n] = k
  BY AtIs DEF Listed
<1>2. Without(k) = front \o back
  BY DEF Without, RemoveAt
<1> HIDE DEF s, n
<1>3. /\ front \in Seq(Keys) /\ Len(front) = n - 1
      /\ \A i \in 1 .. n - 1 : front[i] = s[i]
  BY <1>1
<1>4. /\ back \in Seq(Keys) /\ Len(back) = Len(s) - n
      /\ \A i \in 1 .. Len(s) - n : back[i] = s[n + i]
  <2>1. n + 1 \in Int /\ Len(s) \in Int /\ \A i \in n + 1 .. Len(s) : s[i] \in Keys
    BY <1>1
  <2>2. /\ back \in Seq(Keys)
        /\ Len(back) = IF n + 1 <= Len(s) THEN Len(s) - (n + 1) + 1 ELSE 0
        /\ \A i \in 1 .. Len(s) - (n + 1) + 1 : back[i] = s[n + 1 + i - 1]
    BY <2>1, SubSeqProperties
  <2>3. Len(back) = Len(s) - n /\ Len(s) - (n + 1) + 1 = Len(s) - n
    <3>1. Len(s) \in Nat /\ n \in 1 .. Len(s)
      BY <1>1
    <3>2. ASSUME NEW m \in Nat, NEW i \in 1 .. m
          PROVE  /\ (IF i + 1 <= m THEN m - (i + 1) + 1 ELSE 0) = m - i
                 /\ m - (i + 1) + 1 = m - i
      OBVIOUS
    <3> HIDE DEF back
    <3> QED BY <2>2, <3>1, <3>2
  <2>4. ASSUME NEW i \in 1 .. Len(s) - n PROVE back[i] = s[n + i]
    <3>1. n + 1 + i - 1 = n + i
      BY <1>1
    <3> QED BY <2>2, <2>3, <3>1
  <2> QED BY <2>2, <2>3, <2>4
<1> HIDE DEF front, back
<1>5. /\ Without(k) \in Seq(Keys) /\ Len(Without(k)) = Len(s) - 1
      /\ DOMAIN Without(k) = 1 .. Len(s) - 1
      /\ \A i \in 1 .. Len(s) - 1 :
           Without(k)[i] = IF i < n THEN s[i] ELSE s[i + 1]
  <2>1. front \o back \in Seq(Keys) /\ Len(front \o back) = Len(s) - 1
    <3>1. front \o back \in Seq(Keys) /\ Len(front \o back) = Len(front) + Len(back)
      BY <1>3, <1>4, ConcatProperties
    <3> QED BY <1>1, <1>3, <1>4, <3>1
  <2>2. ASSUME NEW i \in 1 .. Len(s) - 1
        PROVE  (front \o back)[i] = IF i < n THEN s[i] ELSE s[i + 1]
    <3>1. CASE i < n
      BY <1>1, <1>3, <1>4, <3>1
    <3>2. CASE ~ i < n
      <4>1. (front \o back)[i] = back[i - (n - 1)] /\ i - (n - 1) \in 1 .. Len(s) - n
        BY <1>1, <1>3, <1>4, <3>2
      <4>2. n + (i - (n - 1)) = i + 1
        BY <1>1
      <4> QED BY <1>4, <3>2, <4>1, <4>2
    <3> QED BY <3>1, <3>2
  <2>3. DOMAIN (front \o back) = 1 .. Len(s) - 1
    BY <2>1
  <2> QED BY <1>2, <2>1, <2>2, <2>3
<1>6. IsInjective(Without(k))
  <2>1. \A i, j \in 1 .. Len(s) : s[i] = s[j] => i = j
    BY <1>1 DEF IsInjective
  <2>2. ASSUME NEW i \in 1 .. Len(s) - 1, NEW j \in 1 .. Len(s) - 1,
               Without(k)[i] = Without(k)[j]
        PROVE  i = j
    BY <1>1, <1>5, <2>1, <2>2
  <2> QED BY <1>5, <2>2 DEF IsInjective
<1>7. ToSet(Without(k)) = ToSet(s) \ {k}
  <2>1. ASSUME NEW x \in ToSet(Without(k)) PROVE x \in ToSet(s) /\ x # k
    <3>1. PICK i \in 1 .. Len(s) - 1 : x = Without(k)[i]
      BY <1>5 DEF ToSet
    <3>2. PICK j \in 1 .. Len(s) : x = s[j] /\ j # n
      BY <1>1, <1>5, <3>1
    <3> QED BY <1>1, <3>2 DEF ToSet, IsInjective
  <2>2. ASSUME NEW x \in ToSet(s), x # k PROVE x \in ToSet(Without(k))
    <3>1. PICK j \in 1 .. Len(s) : x = s[j] /\ j # n
      BY <1>1, <2>2 DEF ToSet
    <3>2. CASE j < n
      <4>1. j \in 1 .. Len(s) - 1 /\ Without(k)[j] = x
        BY <1>1, <1>5, <3>1, <3>2
      <4> QED BY <1>5, <4>1 DEF ToSet
    <3>3. CASE ~ j < n
      <4>1. j - 1 \in 1 .. Len(s) - 1 /\ Without(k)[j - 1] = x
        BY <1>1, <1>5, <3>1, <3>3
      <4> QED BY <1>5, <4>1 DEF ToSet
    <3> QED BY <3>2, <3>3
  <2> QED BY <2>1, <2>2
<1> QED BY <1>1, <1>5, <1>6, <1>7 DEF s

\* What entries.set adds to the Map.
LEMMA AppendIs ==
  ASSUME NEW s \in Seq(Keys), IsInjective(s), NEW k \in Keys, k \notin ToSet(s)
  PROVE  /\ Append(s, k) \in Seq(Keys) /\ IsInjective(Append(s, k))
         /\ ToSet(Append(s, k)) = ToSet(s) \cup {k}
         /\ Len(s) \in Nat /\ Len(Append(s, k)) = Len(s) + 1
<1>1. /\ Len(s) \in Nat /\ DOMAIN s = 1 .. Len(s)
      /\ Append(s, k) \in Seq(Keys) /\ Len(Append(s, k)) = Len(s) + 1
      /\ DOMAIN Append(s, k) = 1 .. Len(s) + 1
      /\ \A i \in 1 .. Len(s) : Append(s, k)[i] = s[i]
      /\ Append(s, k)[Len(s) + 1] = k
  OBVIOUS
<1>2. \A i \in 1 .. Len(s) : s[i] # k /\ s[i] \in ToSet(s)
  BY <1>1 DEF ToSet
<1>3. IsInjective(Append(s, k))
  <2>1. ASSUME NEW i \in 1 .. Len(s) + 1, NEW j \in 1 .. Len(s) + 1,
               Append(s, k)[i] = Append(s, k)[j]
        PROVE  i = j
    <3>1. i \in 1 .. Len(s) \/ i = Len(s) + 1
      BY <1>1
    <3>2. j \in 1 .. Len(s) \/ j = Len(s) + 1
      BY <1>1
    <3>3. \A a, b \in 1 .. Len(s) : s[a] = s[b] => a = b
      BY <1>1 DEF IsInjective
    <3> QED BY <1>1, <1>2, <2>1, <3>1, <3>2, <3>3
  <2> QED BY <1>1, <2>1 DEF IsInjective
<1>4. ToSet(Append(s, k)) = ToSet(s) \cup {k}
  <2>1. ASSUME NEW x \in ToSet(Append(s, k)) PROVE x \in ToSet(s) \cup {k}
    <3>1. PICK i \in 1 .. Len(s) + 1 : x = Append(s, k)[i]
      BY <1>1 DEF ToSet
    <3>2. i \in 1 .. Len(s) \/ i = Len(s) + 1
      BY <1>1
    <3> QED BY <1>1, <1>2, <3>1, <3>2
  <2>2. ASSUME NEW x \in ToSet(s) PROVE x \in ToSet(Append(s, k))
    <3>1. PICK i \in 1 .. Len(s) : x = s[i]
      BY <1>1 DEF ToSet
    <3>2. i \in 1 .. Len(s) + 1 /\ Append(s, k)[i] = x
      BY <1>1, <3>1
    <3> QED BY <1>1, <3>2 DEF ToSet
  <2>3. k \in ToSet(Append(s, k))
    <3>1. Len(s) + 1 \in 1 .. Len(s) + 1
      BY <1>1
    <3> QED BY <1>1, <3>1 DEF ToSet
  <2> QED BY <2>1, <2>2, <2>3
<1> QED BY <1>1, <1>3, <1>4

\* As many keys are cached as the Map lists.
LEMMA ListedFinite ==
  ASSUME Listed
  PROVE  /\ IsFiniteSet(ToSet(order)) /\ Cardinality(ToSet(order)) = Len(order)
         /\ Len(order) \in Nat
         /\ IsFiniteSet(Ready) /\ Ready \subseteq ToSet(order)
<1>1. /\ Len(order) \in Nat /\ DOMAIN order = 1 .. Len(order)
      /\ order \in [1 .. Len(order) -> ToSet(order)]
      /\ \A i, j \in 1 .. Len(order) : order[i] = order[j] => i = j
      /\ \A x \in ToSet(order) : \E i \in 1 .. Len(order) : order[i] = x
  BY DEF Listed, IsInjective, ToSet
<1>2. /\ order \in Surjection(1 .. Len(order), ToSet(order))
      /\ order \in Injection(1 .. Len(order), ToSet(order))
  BY <1>1 DEF Surjection, Injection, IsInjective
<1>3. IsFiniteSet(1 .. Len(order)) /\ Cardinality(1 .. Len(order)) = Len(order)
  BY <1>1, FS_Interval
<1>4. IsFiniteSet(ToSet(order)) /\ Cardinality(ToSet(order)) = Len(order)
  BY <1>2, <1>3, FS_Surjection
<1>5. Ready \subseteq ToSet(order)
  BY DEF Listed, Ready, Cached
<1> QED BY <1>1, <1>4, <1>5, FS_Subset

-----------------------------------------------------------------------------
(* Steps, by what they do to the Map.                                      *)

LEMMA ListedKept ==
  ASSUME Listed, order' = order, \A k \in Keys : Cached(k) <=> state'[k] # "absent",
         stage' = "closed" => stage = "closed" \/ order = <<>>
  PROVE  Listed'
BY DEF Listed, Cached

\* A hit and a release move an entry to the end.
LEMMA ListedMoved ==
  ASSUME Listed, NEW k \in ToSet(order), order' = Append(Without(k), k),
         state' = state, stage' = stage, stage = "open"
  PROVE  Listed' /\ ToSet(order') = ToSet(order)
<1>1. /\ Without(k) \in Seq(Keys) /\ IsInjective(Without(k))
      /\ ToSet(Without(k)) = ToSet(order) \ {k}
      /\ Len(order) \in Nat \ {0} /\ Len(Without(k)) = Len(order) - 1
  BY WithoutIs
<1>2. k \in Keys
  BY DEF Listed
<1>3. /\ order' \in Seq(Keys) /\ IsInjective(order')
      /\ ToSet(order') = ToSet(order) /\ Len(order') = Len(order)
  <2>1. k \notin ToSet(Without(k))
    BY <1>1
  <2>2. /\ order' \in Seq(Keys) /\ IsInjective(order')
        /\ ToSet(order') = ToSet(Without(k)) \cup {k}
        /\ Len(order') = Len(Without(k)) + 1
    BY <1>1, <1>2, <2>1, AppendIs
  <2> QED BY <1>1, <2>2
<1> QED BY <1>3 DEF Listed, Cached

LEMMA ListedAdded ==
  ASSUME Listed, NEW k \in Keys, ~ Cached(k), Len(order) < MaxCached,
         order' = Append(order, k), state' = [state EXCEPT ![k] = "loading"],
         Typed, stage' = stage, stage = "open"
  PROVE  Listed' /\ ToSet(order) \subseteq ToSet(order')
<1>1. order \in Seq(Keys) /\ IsInjective(order) /\ k \notin ToSet(order)
  BY DEF Listed
<1>2. /\ order' \in Seq(Keys) /\ IsInjective(order')
      /\ ToSet(order') = ToSet(order) \cup {k}
      /\ Len(order) \in Nat /\ Len(order') = Len(order) + 1
  BY <1>1, AppendIs
<1>3. state'[k] = "loading" /\ \A j \in Keys : j # k => state'[j] = state[j]
  BY DEF Typed
<1>4. ToSet(order') = {j \in Keys : state'[j] # "absent"}
  BY <1>2, <1>3 DEF Listed, Cached
<1>5. Len(order') <= MaxCached
  BY <1>2, DecisionEngineConstants
<1> QED BY <1>2, <1>4, <1>5 DEF Listed, Cached

LEMMA ListedDeleted ==
  ASSUME Listed, NEW k \in ToSet(order), order' = Without(k),
         state' = [state EXCEPT ![k] = "absent"], Typed, stage' = stage
  PROVE  Listed' /\ ToSet(order') = ToSet(order) \ {k}
<1>1. /\ Without(k) \in Seq(Keys) /\ IsInjective(Without(k))
      /\ ToSet(Without(k)) = ToSet(order) \ {k}
      /\ Len(order) \in Nat \ {0} /\ Len(Without(k)) = Len(order) - 1
  BY WithoutIs
<1>2. state'[k] = "absent" /\ \A j \in Keys : j # k => state'[j] = state[j]
  BY DEF Typed, Listed
<1>3. ToSet(order') = {j \in Keys : state'[j] # "absent"}
  BY <1>1, <1>2 DEF Listed, Cached
<1>4. Len(order') <= MaxCached
  BY <1>1, DecisionEngineConstants DEF Listed
<1>5. stage # "closed"
  BY <1>1 DEF Listed
<1> QED BY <1>1, <1>3, <1>4, <1>5 DEF Listed, Cached

\* A miss of a full cache replaces its victim.
LEMMA ListedReplaced ==
  ASSUME Listed, Typed, NEW k \in ToSet(order), NEW j \in Keys, ~ Cached(j),
         order' = Append(Without(k), j),
         state' = [state EXCEPT ![k] = "absent", ![j] = "loading"], stage' = stage
  PROVE  Listed'
<1>1. /\ Without(k) \in Seq(Keys) /\ IsInjective(Without(k))
      /\ ToSet(Without(k)) = ToSet(order) \ {k}
      /\ Len(order) \in Nat \ {0} /\ Len(Without(k)) = Len(order) - 1
  BY WithoutIs
<1>2. k \in Keys /\ j \notin ToSet(order) /\ j # k
  BY DEF Listed
<1>3. /\ order' \in Seq(Keys) /\ IsInjective(order')
      /\ ToSet(order') = (ToSet(order) \ {k}) \cup {j} /\ Len(order') = Len(order)
  BY <1>1, <1>2, AppendIs
<1>4. /\ state'[k] = "absent" /\ state'[j] = "loading"
      /\ \A i \in Keys : i # k /\ i # j => state'[i] = state[i]
  BY <1>2 DEF Typed
<1>5. ToSet(order') = {i \in Keys : state'[i] # "absent"}
  BY <1>2, <1>3, <1>4 DEF Listed, Cached
<1>6. stage # "closed"
  BY <1>1 DEF Listed
<1> QED BY <1>3, <1>5, <1>6 DEF Listed, Cached

\* Counters nobody changes.
LEMMA CountedKept ==
  ASSUME Counted, livePrefixes' = livePrefixes,
         \A k \in Keys : state'[k] = "ready" <=> state[k] = "ready",
         Active' \subseteq Active, cut' \in [Questions -> BOOLEAN]
  PROVE  Counted'
<1>1. Ready' = Ready
  BY DEF Ready
<1>2. IsFiniteSet(Active)
  <2>1. Active \in SUBSET Questions
    BY DEF Active
  <2> QED BY <2>1, FS_Subset, DecisionEngineConstants
<1>3. /\ Cardinality(Active') <= Cardinality(Active)
      /\ Cardinality(Active) \in Nat /\ Cardinality(Active') \in Nat
  BY <1>2, FS_Subset, FS_CardinalityType
<1>4. Cardinality(Active') <= MaxActive
  BY <1>3, DecisionEngineConstants DEF Counted
<1> QED BY <1>1, <1>4 DEF Counted

\* An entry that is disposed of is uncounted when it was ready.
LEMMA CountedDeleted ==
  ASSUME Listed, Typed, Counted, NEW k \in ToSet(order), victim = k,
         livePrefixes' = Uncounted, state'[k] # "ready",
         \A j \in Keys : j # k => (state'[j] = "ready" <=> state[j] = "ready"),
         Active' \subseteq Active, cut' \in [Questions -> BOOLEAN]
  PROVE  Counted'
<1>1. k \in Keys
  BY DEF Listed
<1>2. Ready' = Ready \ {k}
  BY <1>1 DEF Ready
<1>3. IsFiniteSet(Ready)
  BY ListedFinite
<1>4. livePrefixes' = Cardinality(Ready')
  BY <1>1, <1>2, <1>3, FS_RemoveElement DEF Uncounted, Counted, Ready
<1>5. IsFiniteSet(Active)
  <2>1. Active \in SUBSET Questions
    BY DEF Active
  <2> QED BY <2>1, FS_Subset, DecisionEngineConstants
<1>6. /\ Cardinality(Active') <= Cardinality(Active)
      /\ Cardinality(Active) \in Nat /\ Cardinality(Active') \in Nat
  BY <1>5, FS_Subset, FS_CardinalityType
<1>7. Cardinality(Active') <= MaxActive
  BY <1>6, DecisionEngineConstants DEF Counted
<1> QED BY <1>4, <1>7 DEF Counted

LEMMA DisposedKept ==
  ASSUME Disposed, mutex' \in {mutex, Free}, victim' \in {victim, NoKey},
         ToSet(order) \ {victim} \subseteq ToSet(order'),
         victim' = victim => ToSet(order) \subseteq ToSet(order'),
         \A q \in Questions : pc'[q] = "evicting" =>
           pc[q] = "evicting" /\ victim' # NoKey
  PROVE  Disposed'
BY DEF Disposed

\* A question that goes on, or leaves.
LEMMA Turns ==
  ASSUME IInv, MapInv, NEW q \in Questions, NEW where \in Places,
         pc' = [pc EXCEPT ![q] = where], where = "idle" \/ cut' = cut,
         where = "idle" => cut' = [cut EXCEPT ![q] = FALSE],
         q \in Active \/ where \in {"idle", "waiting"}
  PROVE  /\ Active' \subseteq Active /\ cut' \in [Questions -> BOOLEAN]
         /\ pc'[q] = where /\ \A r \in Questions : r # q => pc'[r] = pc[r]
<1>1. pc'[q] = where /\ \A r \in Questions : r # q => pc'[r] = pc[r]
  BY DEF IInv, Typed
<1>2. cut' \in [Questions -> BOOLEAN]
  BY DEF MapInv, Counted
<1> QED BY <1>1, <1>2 DEF Active

LEMMA LeaveTurns ==
  ASSUME IInv, MapInv, NEW q \in Questions, Leave(q)
  PROVE  /\ Active' \subseteq Active /\ cut' \in [Questions -> BOOLEAN]
         /\ pc'[q] = "idle" /\ \A r \in Questions : r # q => pc'[r] = pc[r]
BY Turns DEF Leave, Places

LEMMA GotoTurns ==
  ASSUME IInv, MapInv, NEW q \in Questions, NEW where \in Places \ {"idle"},
         Goto(q, where), q \in Active
  PROVE  /\ Active' \subseteq Active /\ cut' \in [Questions -> BOOLEAN]
         /\ pc'[q] = where /\ \A r \in Questions : r # q => pc'[r] = pc[r]
BY Turns DEF Goto

\* Steps that change neither the Map nor the mutex.
LEMMA MapKept ==
  ASSUME MapInv, UNCHANGED <<order, mutex, victim, livePrefixes>>,
         \A k \in Keys : /\ state'[k] = "ready" <=> state[k] = "ready"
                         /\ Cached(k) <=> state'[k] # "absent",
         stage' = "closed" => stage = "closed",
         Active' \subseteq Active, cut' \in [Questions -> BOOLEAN],
         \A q \in Questions : pc'[q] = "evicting" => pc[q] = "evicting"
  PROVE  MapInv'
<1>1. Listed'
  BY ListedKept DEF MapInv
<1>2. Disposed'
  BY DEF MapInv, Disposed
<1>3. Counted'
  BY CountedKept DEF MapInv
<1> QED BY <1>1, <1>2, <1>3 DEF MapInv

LEMMA MapAsk == ASSUME IInv, MapInv, NEW q \in Questions, NEW k \in Keys, Ask(q, k) PROVE MapInv'
<1>1. /\ UNCHANGED <<stage, mutex, victim, order, state, livePrefixes, cut>>
      /\ pc' = [pc EXCEPT ![q] = "waiting"] /\ "waiting" \in Places
  BY DEF Ask, entryVars, Places
<1>2. /\ Active' \subseteq Active /\ cut' \in [Questions -> BOOLEAN]
      /\ pc'[q] = "waiting" /\ \A r \in Questions : r # q => pc'[r] = pc[r]
  BY <1>1, Turns
<1> QED BY <1>1, <1>2, MapKept DEF Cached

LEMMA MapInterrupt == ASSUME IInv, MapInv, NEW q \in Questions, Interrupt(q) PROVE MapInv'
<1>1. UNCHANGED <<stage, mutex, victim, order, state, livePrefixes>>
  BY DEF Interrupt, entryVars
<1>2. CASE pc[q] = "waiting"
  <2>1. Leave(q)
    BY <1>2 DEF Interrupt
  <2>2. /\ Active' \subseteq Active /\ cut' \in [Questions -> BOOLEAN]
        /\ pc'[q] = "idle" /\ \A r \in Questions : r # q => pc'[r] = pc[r]
    BY <2>1, LeaveTurns
  <2> QED BY <1>1, <2>2, MapKept DEF Cached
<1>3. CASE pc[q] # "waiting"
  <2>1. cut' = [cut EXCEPT ![q] = TRUE] /\ pc' = pc
    BY <1>3 DEF Interrupt
  <2>2. cut' \in [Questions -> BOOLEAN] /\ Active' = Active
    BY <2>1 DEF MapInv, Counted, Active
  <2> QED BY <1>1, <2>1, <2>2, MapKept DEF Cached
<1> QED BY <1>2, <1>3

\* slots.withPermit gives out no more slots than there are.
LEMMA MapEnter == ASSUME IInv, MapInv, NEW q \in Questions, Enter(q) PROVE MapInv'
<1>1. /\ pc[q] = "waiting" /\ Cardinality(Active) < MaxActive
      /\ pc' = [pc EXCEPT ![q] = "acquiring"] /\ cut' = cut
      /\ UNCHANGED <<stage, mutex, victim, order, state, livePrefixes>>
  BY DEF Enter, Goto, entryVars
<1>2. pc'[q] = "acquiring" /\ \A r \in Questions : r # q => pc'[r] = pc[r]
  BY <1>1 DEF IInv, Typed
<1>3. Active' = Active \cup {q} /\ q \notin Active
  BY <1>1, <1>2 DEF Active
<1>4. IsFiniteSet(Active)
  <2>1. Active \in SUBSET Questions
    BY DEF Active
  <2> QED BY <2>1, FS_Subset, DecisionEngineConstants
<1>5. Cardinality(Active') <= MaxActive
  <2>1. Cardinality(Active') = Cardinality(Active) + 1 /\ Cardinality(Active) \in Nat
    BY <1>3, <1>4, FS_AddElement, FS_CardinalityType
  <2> QED BY <1>1, <2>1, DecisionEngineConstants
<1>6. Listed'
  BY <1>1, ListedKept DEF MapInv, Cached
<1>7. Disposed'
  BY <1>1, <1>2 DEF MapInv, Disposed
<1>8. Counted'
  BY <1>1, <1>5 DEF MapInv, Counted, Ready
<1> QED BY <1>6, <1>7, <1>8 DEF MapInv

\* Questions that pass without touching the Map.
LEMMA MapPass ==
  ASSUME IInv, MapInv, NEW q \in Questions,
         AcquireClosed(q) \/ Read(q) \/ GiveUp(q) \/ ReadEnd(q) \/ ReleaseOnly(q)
  PROVE  MapInv'
<1>1. /\ UNCHANGED <<stage, mutex, victim, order, state, livePrefixes>>
      /\ pc[q] \notin {"idle", "waiting"}
  BY DEF AcquireClosed, Locks, Read, GiveUp, ReadEnd, ReleaseOnly, entryVars
<1>2. Leave(q) \/ Goto(q, "reading") \/ Goto(q, "releasing")
  BY DEF AcquireClosed, Read, GiveUp, ReadEnd, ReleaseOnly
<1>3. q \in Active /\ "reading" \in Places /\ "releasing" \in Places
  BY <1>1 DEF Active, Places
<1>4. /\ Active' \subseteq Active /\ cut' \in [Questions -> BOOLEAN]
      /\ pc'[q] # "evicting" /\ \A r \in Questions : r # q => pc'[r] = pc[r]
  <2>1. CASE Leave(q)
    BY <2>1, LeaveTurns
  <2>2. CASE Goto(q, "reading")
    BY <1>3, <2>2, GotoTurns
  <2>3. CASE Goto(q, "releasing")
    BY <1>3, <2>3, GotoTurns
  <2> QED BY <1>2, <2>1, <2>2, <2>3
<1> QED BY <1>1, <1>4, MapKept DEF Cached

LEMMA MapHit == ASSUME IInv, MapInv, NEW q \in Questions, Hit(q) PROVE MapInv'
<1>1. /\ pc[q] = "acquiring" /\ stage = "open" /\ Cached(key[q]) /\ Goto(q, "awaiting")
      /\ order' = Append(Without(key[q]), key[q])
      /\ UNCHANGED <<stage, mutex, victim, state, livePrefixes>>
  BY DEF Hit, Locks
<1>2. key[q] \in Keys
  BY <1>1, Running
<1>3. key[q] \in ToSet(order)
  BY <1>1, <1>2 DEF MapInv, Listed
<1>4. Listed' /\ ToSet(order') = ToSet(order)
  BY <1>1, <1>3, ListedMoved DEF MapInv
<1>5. q \in Active /\ "awaiting" \in Places
  BY <1>1 DEF Active, Places
<1>6. /\ Active' \subseteq Active /\ cut' \in [Questions -> BOOLEAN]
      /\ pc'[q] = "awaiting" /\ \A r \in Questions : r # q => pc'[r] = pc[r]
  BY <1>1, <1>5, GotoTurns
<1>7. Disposed'
  BY <1>1, <1>4, <1>6 DEF MapInv, Disposed
<1>8. Counted'
  BY <1>1, <1>6, CountedKept DEF MapInv
<1> QED BY <1>4, <1>7, <1>8 DEF MapInv

LEMMA MapMiss == ASSUME IInv, MapInv, NEW q \in Questions, Miss(q) PROVE MapInv'
<1>1. /\ pc[q] = "acquiring" /\ stage = "open" /\ ~ Cached(key[q]) /\ Goto(q, "awaiting")
      /\ ~ Full /\ order' = Append(order, key[q])
      /\ state' = [state EXCEPT ![key[q]] = "loading"]
      /\ UNCHANGED <<stage, mutex, victim, livePrefixes>>
  BY DEF Miss, Locks, Create
<1>2. key[q] \in Keys
  BY <1>1, Running
<1>3. Len(order) < MaxCached
  BY <1>1, ListedFinite, DecisionEngineConstants DEF Full, MapInv, Listed
<1>4. Listed' /\ ToSet(order) \subseteq ToSet(order')
  BY <1>1, <1>2, <1>3, ListedAdded DEF MapInv, IInv
<1>5. q \in Active /\ "awaiting" \in Places
  BY <1>1 DEF Active, Places
<1>6. /\ Active' \subseteq Active /\ cut' \in [Questions -> BOOLEAN]
      /\ pc'[q] = "awaiting" /\ \A r \in Questions : r # q => pc'[r] = pc[r]
  BY <1>1, <1>5, GotoTurns
<1>7. Disposed'
  BY <1>1, <1>4, <1>6 DEF MapInv, Disposed
<1>8. \A k \in Keys : state'[k] = "ready" <=> state[k] = "ready"
  BY <1>1, <1>2 DEF IInv, Typed, Cached
<1>9. Counted'
  BY <1>1, <1>6, <1>8, CountedKept DEF MapInv
<1> QED BY <1>4, <1>7, <1>9 DEF MapInv

LEMMA MapMissFull == ASSUME IInv, MapInv, NEW q \in Questions, MissFull(q) PROVE MapInv'
<1>1. /\ pc[q] = "acquiring" /\ Goto(q, "evicting") /\ mutex' = q
      /\ UNCHANGED <<stage, order, state, livePrefixes>>
  BY DEF MissFull, Locks
<1>2. PICK k \in Keys : Oldest(k) /\ victim' = k
  BY DEF MissFull
<1>3. k \in ToSet(order) /\ k # NoKey
  BY <1>2, DecisionEngineConstants DEF Oldest, ToSet
<1>4. q \in Active /\ "evicting" \in Places
  BY <1>1 DEF Active, Places
<1>5. Active' \subseteq Active /\ cut' \in [Questions -> BOOLEAN]
  BY <1>1, <1>4, GotoTurns
<1>6. Listed'
  BY <1>1, ListedKept DEF MapInv, Cached
<1>7. Disposed'
  BY <1>1, <1>2, <1>3 DEF Disposed
<1>8. Counted'
  BY <1>1, <1>5, CountedKept DEF MapInv
<1> QED BY <1>6, <1>7, <1>8 DEF MapInv

LEMMA MapEvictEnd == ASSUME IInv, MapInv, NEW q \in Questions, EvictEnd(q) PROVE MapInv'
<1>1. /\ mutex = q /\ pc[q] = "evicting" /\ victim # NoKey /\ Goto(q, "awaiting")
      /\ order' = Append(Without(victim), key[q])
      /\ state' = [state EXCEPT ![victim] = "absent", ![key[q]] = "loading"]
      /\ livePrefixes' = Uncounted /\ mutex' = Free /\ victim' = NoKey /\ stage' = stage
  BY DEF EvictEnd, Disposable
<1>2. /\ key[q] \in Keys /\ ~ Cached(key[q])
      /\ victim \in ToSet(order) /\ victim \in Keys /\ victim # key[q]
  BY <1>1, Running DEF IInv, Awaited, MapInv, Disposed, Listed
<1>3. Listed'
  BY <1>1, <1>2, ListedReplaced DEF MapInv, IInv
<1>4. q \in Active /\ "awaiting" \in Places
  BY <1>1 DEF Active, Places
<1>5. /\ Active' \subseteq Active /\ cut' \in [Questions -> BOOLEAN]
      /\ pc'[q] = "awaiting" /\ \A r \in Questions : r # q => pc'[r] = pc[r]
  BY <1>1, <1>4, GotoTurns
<1>6. \A r \in Questions : pc'[r] # "evicting"
  BY <1>1, <1>5 DEF IInv, Locked
<1>7. Disposed'
  BY <1>1, <1>6 DEF Disposed
<1>8. /\ state'[victim] # "ready"
      /\ \A k \in Keys : k # victim => (state'[k] = "ready" <=> state[k] = "ready")
  BY <1>1, <1>2 DEF IInv, Typed, Cached
<1>9. Counted'
  BY <1>1, <1>2, <1>5, <1>8, CountedDeleted DEF MapInv, IInv
<1> QED BY <1>3, <1>7, <1>9 DEF MapInv

\* dispose ends, whoever called it.
LEMMA MapDelete ==
  ASSUME IInv, MapInv, Delete, Disposable, stage' = stage,
         mutex' \in {mutex, Free}, Active' \subseteq Active,
         cut' \in [Questions -> BOOLEAN], \A q \in Questions : pc'[q] # "evicting"
  PROVE  MapInv'
<1>1. /\ victim \in ToSet(order) /\ victim \in Keys
      /\ order' = Without(victim) /\ state' = [state EXCEPT ![victim] = "absent"]
      /\ livePrefixes' = Uncounted /\ victim' = NoKey
  BY DEF Delete, Disposable, MapInv, Disposed, Listed
<1>2. Listed'
  BY <1>1, ListedDeleted DEF MapInv, IInv
<1>3. Disposed'
  BY <1>1 DEF MapInv, Disposed
<1>4. /\ state'[victim] # "ready"
      /\ \A k \in Keys : k # victim => (state'[k] = "ready" <=> state[k] = "ready")
  BY <1>1 DEF IInv, Typed
<1>5. Counted'
  BY <1>1, <1>4, CountedDeleted DEF MapInv, IInv
<1> QED BY <1>2, <1>3, <1>5 DEF MapInv

LEMMA MapDisposeEnd == ASSUME IInv, MapInv, NEW q \in Questions, DisposeEnd(q) PROVE MapInv'
<1>1. /\ mutex = q /\ pc[q] = "disposing" /\ Disposable /\ Delete /\ Leave(q)
      /\ mutex' = Free /\ stage' = stage
  BY DEF DisposeEnd
<1>2. /\ Active' \subseteq Active /\ cut' \in [Questions -> BOOLEAN]
      /\ pc'[q] = "idle" /\ \A r \in Questions : r # q => pc'[r] = pc[r]
  BY <1>1, LeaveTurns
<1>3. \A r \in Questions : pc'[r] # "evicting"
  BY <1>1, <1>2 DEF IInv, Locked
<1> QED BY <1>1, <1>2, <1>3, MapDelete

\* Timers and the finalizer dispose of entries as well.
LEMMA MapBackgroundEnd ==
  ASSUME IInv, MapInv, Delete, Disposable, UNCHANGED <<stage, questionVars>>,
         mutex \in Keys \cup {Closer}, mutex' \in {mutex, Free}
  PROVE  MapInv'
<1>1. pc' = pc /\ cut' = cut /\ stage' = stage
  BY DEF questionVars
<1>2. Active' = Active /\ cut' \in [Questions -> BOOLEAN]
  BY <1>1 DEF Active, MapInv, Counted
<1>3. \A q \in Questions : pc'[q] # "evicting"
  BY <1>1, DecisionEngineConstants DEF IInv, Locked
<1> QED BY <1>1, <1>2, <1>3, MapDelete

LEMMA MapReleaseAbandoned ==
  ASSUME IInv, MapInv, NEW q \in Questions, ReleaseAbandoned(q) PROVE MapInv'
<1>1. /\ pc[q] = "releasing" /\ mutex' = q /\ victim' = key[q] /\ Goto(q, "disposing")
      /\ mutex = Free
      /\ UNCHANGED <<stage, order, state, livePrefixes>>
  BY DEF ReleaseAbandoned, LastLease
<1>2. key[q] \in Keys /\ Cached(key[q])
  BY <1>1, Running DEF IInv, Pinned, Holding
<1>3. key[q] \in ToSet(order) /\ key[q] # NoKey
  BY <1>2, DecisionEngineConstants DEF MapInv, Listed
<1>4. q \in Active /\ "disposing" \in Places
  BY <1>1 DEF Active, Places
<1>5. Active' \subseteq Active /\ cut' \in [Questions -> BOOLEAN]
  BY <1>1, <1>4, GotoTurns
<1>6. Listed'
  BY <1>1, ListedKept DEF MapInv, Cached
<1>7. Disposed'
  BY <1>1, <1>3 DEF Disposed
<1>8. Counted'
  BY <1>1, <1>5, CountedKept DEF MapInv
<1> QED BY <1>6, <1>7, <1>8 DEF MapInv

LEMMA MapReleaseIdle ==
  ASSUME IInv, MapInv, NEW q \in Questions, ReleaseIdle(q) PROVE MapInv'
<1>1. /\ pc[q] = "releasing" /\ stage = "open" /\ Leave(q)
      /\ order' = Append(Without(key[q]), key[q])
      /\ UNCHANGED <<stage, mutex, victim, state, livePrefixes>>
  BY DEF ReleaseIdle, LastLease
<1>2. key[q] \in Keys /\ Cached(key[q])
  BY <1>1, Running DEF IInv, Pinned, Holding
<1>3. key[q] \in ToSet(order)
  BY <1>2 DEF MapInv, Listed
<1>4. Listed' /\ ToSet(order') = ToSet(order)
  BY <1>1, <1>3, ListedMoved DEF MapInv
<1>5. /\ Active' \subseteq Active /\ cut' \in [Questions -> BOOLEAN]
      /\ pc'[q] = "idle" /\ \A r \in Questions : r # q => pc'[r] = pc[r]
  BY <1>1, LeaveTurns
<1>6. Disposed'
  BY <1>1, <1>4, <1>5 DEF MapInv, Disposed
<1>7. Counted'
  BY <1>1, <1>5, CountedKept DEF MapInv
<1> QED BY <1>4, <1>6, <1>7 DEF MapInv

LEMMA MapBackground == ASSUME IInv, MapInv, NEW k \in Keys, Background(k) PROVE MapInv'
<1>1. CASE Prefilled(k)
  <2>1. /\ state[k] = "loading" /\ state' = [state EXCEPT ![k] = "ready"]
        /\ livePrefixes' = livePrefixes + 1
        /\ UNCHANGED <<stage, mutex, victim, order, pc, cut>>
    BY <1>1 DEF Prefilled, questionVars
  <2>2. state'[k] = "ready" /\ \A j \in Keys : j # k => state'[j] = state[j]
    BY <2>1 DEF IInv, Typed
  <2>3. Listed'
    BY <2>1, <2>2, ListedKept DEF MapInv, Cached
  <2>4. Disposed'
    BY <2>1 DEF MapInv, Disposed
  <2>5. Ready' = Ready \cup {k} /\ k \notin Ready
    BY <2>1, <2>2 DEF Ready
  <2>6. Cardinality(Ready') = Cardinality(Ready) + 1
    BY <2>5, ListedFinite, FS_AddElement DEF MapInv
  <2>7. Counted'
    BY <2>1, <2>6 DEF MapInv, Counted, Active
  <2> QED BY <2>3, <2>4, <2>7 DEF MapInv
<1>2. ASSUME UNCHANGED <<stage, mutex, victim, order, livePrefixes, pc, cut>>,
             \A j \in Keys : /\ state'[j] = "ready" <=> state[j] = "ready"
                             /\ Cached(j) <=> state'[j] # "absent"
      PROVE  MapInv'
  <2>1. Active' = Active /\ cut' \in [Questions -> BOOLEAN]
    BY <1>2 DEF Active, MapInv, Counted
  <2> QED BY <1>2, <2>1, MapKept
<1>3. CASE PrefillFails(k)
  <2>1. \A j \in Keys : /\ state'[j] = "ready" <=> state[j] = "ready"
                        /\ Cached(j) <=> state'[j] # "absent"
    BY <1>3 DEF PrefillFails, IInv, Typed, Cached
  <2> QED BY <1>2, <1>3, <2>1 DEF PrefillFails, questionVars
<1>4. CASE TimerDue(k)
  BY <1>2, <1>4 DEF TimerDue, questionVars, Cached
<1>5. CASE Expire(k)
  <2>1. /\ timer[k] = "due" /\ mutex' = k /\ victim' = k /\ mutex = Free
        /\ UNCHANGED <<stage, order, state, livePrefixes, pc, cut>>
    BY <1>5 DEF Expire, questionVars
  <2>2. k \in ToSet(order) /\ k # NoKey
    BY <2>1, DecisionEngineConstants DEF IInv, TimersIdle, MapInv, Listed, Cached
  <2>3. Disposed'
    BY <2>1, <2>2 DEF MapInv, Disposed
  <2>4. Listed' /\ Counted'
    BY <2>1 DEF MapInv, Listed, Counted, Cached, Ready, Active
  <2> QED BY <2>3, <2>4 DEF MapInv
<1>6. CASE ExpireEnd(k)
  BY <1>6, MapBackgroundEnd DEF ExpireEnd
<1> QED BY <1>1, <1>3, <1>4, <1>5, <1>6 DEF Background

LEMMA MapFinalize == ASSUME IInv, MapInv, Finalize PROVE MapInv'
<1>1. ASSUME UNCHANGED <<victim, order, state, livePrefixes, pc, cut>>,
             mutex' \in {mutex, Closer, Free},
             stage' = "closed" => order = <<>>
      PROVE  MapInv'
  <2>1. Listed'
    BY <1>1, ListedKept DEF MapInv, Cached
  <2>2. Disposed' /\ Counted'
    BY <1>1 DEF MapInv, Disposed, Counted, Ready, Active
  <2> QED BY <2>1, <2>2 DEF MapInv
<1>2. CASE Drained \/ Stopped \/ Closed
  BY <1>1, <1>2 DEF Drained, Stopped, Closed, entryVars, questionVars
<1>3. CASE CloseEntry
  <2>1. /\ order # <<>> /\ victim' = Head(order)
        /\ UNCHANGED <<stage, mutex, order, state, livePrefixes, pc, cut>>
    BY <1>3 DEF CloseEntry, entryVars, questionVars
  <2>2. Head(order) = order[1] /\ 1 \in DOMAIN order
    BY <2>1 DEF MapInv, Listed
  <2>3. victim' \in ToSet(order) /\ victim' # NoKey
    BY <2>1, <2>2, DecisionEngineConstants DEF ToSet, MapInv, Listed
  <2>4. Disposed'
    BY <2>1, <2>3 DEF MapInv, Disposed
  <2>5. Listed' /\ Counted'
    BY <2>1 DEF MapInv, Listed, Counted, Cached, Ready, Active
  <2> QED BY <2>4, <2>5 DEF MapInv
<1>4. CASE CloseEntryEnd
  <2>1. /\ Delete /\ Disposable /\ mutex' = mutex /\ mutex = Closer
        /\ UNCHANGED <<stage, questionVars>>
    BY <1>4 DEF CloseEntryEnd
  <2> QED BY <2>1, MapBackgroundEnd
<1> QED BY <1>2, <1>3, <1>4 DEF Finalize

LEMMA MapClose == ASSUME IInv, MapInv, Close PROVE MapInv'
<1>1. /\ stage' = "draining"
      /\ UNCHANGED <<mutex, victim, order, state, livePrefixes>>
      /\ pc' = [q \in Questions |-> IF pc[q] = "waiting" THEN "idle" ELSE pc[q]]
      /\ cut' = [q \in Questions |-> pc[q] \notin {"idle", "waiting"}]
  BY DEF Close, entryVars
<1>2. /\ Active' \subseteq Active /\ cut' \in [Questions -> BOOLEAN]
      /\ \A q \in Questions : pc'[q] = "evicting" => pc[q] = "evicting"
  BY <1>1 DEF Active
<1> QED BY <1>1, <1>2, MapKept DEF Cached

LEMMA MapInit == Init => MapInv
<1> SUFFICES ASSUME Init PROVE MapInv
  OBVIOUS
<1>1. Listed
  BY DecisionEngineConstants DEF Init, Listed, IsInjective, ToSet, Cached
<1>2. Disposed
  BY DEF Init, Disposed
<1>3. Ready = {} /\ Active = {}
  BY DEF Init, Ready, Active
<1>4. Counted
  BY <1>3, FS_EmptySet, DecisionEngineConstants DEF Init, Counted
<1> QED BY <1>1, <1>2, <1>4 DEF MapInv

LEMMA MapNext == IInv /\ MapInv /\ [Next]_vars => MapInv'
<1> SUFFICES ASSUME IInv, MapInv, [Next]_vars PROVE MapInv'
  OBVIOUS
<1>1. CASE \E q \in Questions : (\E k \in Keys : Ask(q, k)) \/ Interrupt(q)
  BY <1>1, MapAsk, MapInterrupt
<1>2. CASE Close
  BY <1>2, MapClose
<1>3. ASSUME NEW q \in Questions, Run(q) PROVE MapInv'
  <2>1. CASE Enter(q) \/ AcquireClosed(q) \/ Read(q) \/ GiveUp(q) \/ ReadEnd(q) \/ ReleaseOnly(q)
    BY <2>1, MapEnter, MapPass
  <2>2. CASE Hit(q) \/ Miss(q) \/ MissFull(q) \/ EvictEnd(q)
    BY <2>2, MapHit, MapMiss, MapMissFull, MapEvictEnd
  <2>3. CASE ReleaseAbandoned(q) \/ ReleaseIdle(q) \/ DisposeEnd(q)
    BY <2>3, MapReleaseAbandoned, MapReleaseIdle, MapDisposeEnd
  <2> QED BY <1>3, <2>1, <2>2, <2>3 DEF Run
<1>4. CASE Progress
  BY <1>3, <1>4, MapBackground, MapFinalize DEF Progress
<1>5. CASE UNCHANGED vars
  BY <1>5 DEF vars, entryVars, questionVars, MapInv, Listed, Disposed, Counted, Cached, Ready, Active
<1> QED BY <1>1, <1>2, <1>4, <1>5 DEF Next

LEMMA MapInvariant == Spec => [](IInv /\ MapInv)
<1>1. Init => IInv /\ MapInv
  BY InitInv, MapInit
<1>2. IInv /\ MapInv /\ [Next]_vars => (IInv /\ MapInv)'
  BY NextInv, MapNext
<1> QED BY <1>1, <1>2, PTL DEF Spec

-----------------------------------------------------------------------------
\* Every variable of the engine keeps its range, the Map's order included.
THEOREM TypeCorrect == Spec => []TypeOK
<1>1. IInv /\ MapInv => TypeOK
  <2> SUFFICES ASSUME IInv, MapInv PROVE TypeOK
    OBVIOUS
  <2>1. livePrefixes \in Nat
    BY ListedFinite, FS_CardinalityType DEF MapInv, Counted
  <2>2. victim \in Keys \cup {NoKey}
    BY DEF MapInv, Disposed, Listed
  <2>3. held \subseteq Keys
    BY DEF IInv, HeldExact
  <2> QED BY <2>1, <2>2, <2>3 DEF TypeOK, IInv, Typed, Stages, Places, MapInv, Listed, Disposed, Counted
<1> QED BY <1>1, MapInvariant, PTL

\* The cache never holds more entries than its capacity, counting pending
\* prefills; the statistics count the ready ones; the runtime's resources are
\* those of the entries, and dispose and the finalizer leave none behind.
THEOREM ResidentHolds == Spec => []Resident
<1>1. IInv /\ MapInv => Resident
  <2> SUFFICES ASSUME IInv, MapInv PROVE Resident
    OBVIOUS
  <2>1. held = {k \in Keys : state[k] \in {"loading", "ready"}}
    BY DEF IInv, HeldExact
  <2>2. stage = "closed" => order = <<>> /\ held = {}
    <3> SUFFICES ASSUME stage = "closed" PROVE order = <<>> /\ held = {}
      OBVIOUS
    <3>1. order = <<>>
      BY DEF MapInv, Listed
    <3>2. ToSet(order) = {}
      BY <3>1 DEF ToSet
    <3> QED BY <2>1, <3>1, <3>2 DEF MapInv, Listed, Cached
  <2> QED BY <2>1, <2>2 DEF Resident, MapInv, Listed, Counted, Ready
<1> QED BY <1>1, MapInvariant, PTL

\* A set of places of a sequence has a first one.
LEMMA FirstPlace ==
  ASSUME NEW T \in SUBSET Nat, T # {}
  PROVE  \E x \in T : \A y \in T : x <= y
<1> DEFINE Less == OpToRel(<, Nat)
<1>1. IsWellFoundedOn(Less, Nat)
  BY NatLessThanWellFounded
<1>2. \A x, y \in Nat : y < x => <<y, x>> \in Less
  BY DEF OpToRel
<1> HIDE DEF Less
<1>3. PICK x \in T : \A y \in T : ~ (<<y, x>> \in Less)
  BY <1>1, WFMin
<1>4. ASSUME NEW y \in T PROVE x <= y
  <2>1. x \in Nat /\ y \in Nat
    OBVIOUS
  <2>2. ~ (y < x)
    BY <1>2, <1>3, <2>1
  <2> QED BY <2>1, <2>2
<1> QED BY <1>4

\* Every leased entry has a question of its own that holds it.
LEMMA LeasesNeedQuestions ==
  ASSUME IInv, MapInv, \A k \in ToSet(order) : leases[k] # 0
  PROVE  /\ Len(order) <= Cardinality(Holding) /\ IsFiniteSet(Holding)
         /\ Cardinality(Holding) \in Nat /\ Len(order) \in Nat
<1>1. IsFiniteSet(Holding)
  <2>1. Holding \in SUBSET Questions
    BY DEF Holding
  <2> QED BY <2>1, FS_Subset, DecisionEngineConstants
<1>2. \A k \in ToSet(order) : \E q \in Holding : key[q] = k
  <2> TAKE k \in ToSet(order)
  <2>1. k \in Keys
    BY DEF MapInv, Listed
  <2>2. Leasing(k) # {}
    BY <2>1, FS_EmptySet DEF IInv, LeasesExact
  <2> QED BY <2>2 DEF Leasing
<1> DEFINE holder == [k \in ToSet(order) |-> CHOOSE q \in Holding : key[q] = k]
<1>3. \A k \in ToSet(order) : holder[k] \in Holding /\ key[holder[k]] = k
  BY <1>2
<1>4. holder \in [ToSet(order) -> Holding]
  BY <1>3
<1>5. holder \in Injection(ToSet(order), Holding)
  <2>1. \A j, k \in ToSet(order) : holder[j] = holder[k] => j = k
    BY <1>3
  <2> HIDE DEF holder
  <2> QED BY <1>4, <2>1 DEF Injection, IsInjective
<1>6. Cardinality(ToSet(order)) <= Cardinality(Holding)
  BY <1>1, <1>5, FS_Injection
<1>7. Cardinality(ToSet(order)) = Len(order) /\ Len(order) \in Nat
  BY ListedFinite DEF MapInv
<1> QED BY <1>1, <1>6, <1>7, FS_CardinalityType

\* acquire of a full cache always finds an idle entry to dispose of, because
\* make admits no more questions than the cache has entries and the question
\* that asks holds a slot but no entry: "No idle prefix cache slot" is dead.
THEOREM IdleAlwaysFound == Spec => []IdleFound
<1>1. IInv /\ MapInv => IdleFound
  <2> SUFFICES ASSUME IInv, MapInv, NEW q \in Questions, Locks(q), ~ Cached(key[q]), Full
               PROVE  \E k \in Keys : Oldest(k)
    BY DEF IdleFound
  <2> DEFINE Idle == {i \in DOMAIN order : leases[order[i]] = 0}
  <2>1. Idle # {}
    <3> SUFFICES ASSUME \A i \in DOMAIN order : leases[order[i]] # 0 PROVE FALSE
      OBVIOUS
    <3>1. \A k \in ToSet(order) : leases[k] # 0
      BY DEF ToSet
    <3>2. /\ MaxCached <= Cardinality(Holding) /\ IsFiniteSet(Holding)
          /\ Cardinality(Holding) \in Nat
      BY <3>1, LeasesNeedQuestions DEF Full
    <3>3. q \notin Holding /\ Holding \cup {q} \in SUBSET Active
      BY DEF Locks, Holding, Active
    <3>4. Cardinality(Holding \cup {q}) = Cardinality(Holding) + 1
      BY <3>2, <3>3, FS_AddElement
    <3>5. IsFiniteSet(Active)
      <4>1. Active \in SUBSET Questions
        BY DEF Active
      <4> QED BY <4>1, FS_Subset, DecisionEngineConstants
    <3>6. Cardinality(Holding \cup {q}) <= Cardinality(Active) /\ Cardinality(Active) \in Nat
      BY <3>3, <3>5, FS_Subset, FS_CardinalityType
    <3>7. Cardinality(Active) <= MaxActive
      BY DEF MapInv, Counted
    <3> QED BY <3>2, <3>4, <3>6, <3>7, DecisionEngineConstants
  <2>2. order \in Seq(Keys) /\ DOMAIN order = 1 .. Len(order) /\ Len(order) \in Nat
    BY DEF MapInv, Listed
  <2>3. PICK i \in Idle : \A j \in Idle : i <= j
    <3>1. Idle \in SUBSET Nat
      BY <2>2
    <3> HIDE DEF Idle
    <3> QED BY <2>1, <3>1, FirstPlace
  <2>4. i \in DOMAIN order /\ leases[order[i]] = 0 /\ order[i] \in Keys
    BY <2>2
  <2>5. \A j \in 1 .. i - 1 : leases[order[j]] # 0
    <3> TAKE j \in 1 .. i - 1
    <3>1. j \in DOMAIN order /\ ~ (i <= j)
      BY <2>2, <2>4
    <3> QED BY <2>3, <3>1
  <2> QED BY <2>4, <2>5 DEF Oldest
<1> QED BY <1>1, MapInvariant, PTL
=============================================================================
