---------------------------- MODULE DecisionEngine ----------------------------
(***************************************************************************)
(* The prefix cache of the decision engine (packages/serve/src/            *)
(* DecisionEngine.ts, make): question fibers lease prefixes, worker fibers *)
(* prefill them, timer fibers expire idle ones, and the finalizer drains   *)
(* them all.  Fibers interleave wherever one of them awaits; what one does *)
(* between two awaits is one step.                                         *)
(*                                                                         *)
(* Acquisition and release run uninterruptible under one mutex: a question *)
(* whose caller is gone still takes the mutex, leases and gives back.      *)
(* Timers and prefills are interruptible (the fibers of Effect 4 start     *)
(* so), hence interrupting one is a step that only has to wait when the    *)
(* timer already holds the mutex or the prefill has not returned.          *)
(***************************************************************************)
EXTENDS Integers, Sequences, FiniteSets, SequencesExt

CONSTANTS
  Questions,   \* question fibers (names are reused)
  Keys,        \* prefix token arrays
  NoKey,
  Closer,      \* the finalizer fiber
  Free,        \* nobody holds the mutex
  MaxActive,   \* maxActiveQuestions
  MaxCached    \* maxCachedPrefixes

ASSUME DecisionEngineConstants ==
  /\ IsFiniteSet(Questions) /\ Questions \cap Keys = {}
  /\ NoKey \notin Keys
  /\ {Closer, Free} \cap (Questions \cup Keys) = {} /\ Closer # Free
  /\ MaxActive \in Nat \ {0} /\ MaxCached \in Nat
  /\ MaxActive <= MaxCached          \* checked by make

VARIABLES
  stage,    \* "open", or how far the finalizer is; closed is stage # "open"
  mutex,    \* question, timer (named by its key) or finalizer that holds it
  victim,   \* entry the holder disposes of
  order,    \* keys of the Map entries in insertion order
  state,    \* Entry.state, "absent" when the Map has no entry
  leases,   \* Entry.leases
  timer,    \* Entry.timer: "none", "sleeping", or "due" for the mutex
  held,     \* prefixes whose scope holds backend resources
  livePrefixes,
  pc,       \* where a question fiber is
  key,      \* prefix of its scaffold
  cut       \* was it interrupted?

entryVars == <<order, state, leases, timer, held, livePrefixes>>
questionVars == <<pc, key, cut>>
vars == <<stage, mutex, victim, entryVars, questionVars>>

Init ==
  /\ stage = "open"
  /\ mutex = Free /\ victim = NoKey
  /\ order = <<>>
  /\ state = [k \in Keys |-> "absent"]
  /\ leases = [k \in Keys |-> 0]
  /\ timer = [k \in Keys |-> "none"]
  /\ held = {} /\ livePrefixes = 0
  /\ pc = [q \in Questions |-> "idle"]
  /\ key = [q \in Questions |-> NoKey]
  /\ cut = [q \in Questions |-> FALSE]

Leave(q) ==
  /\ pc' = [pc EXCEPT ![q] = "idle"]
  /\ key' = [key EXCEPT ![q] = NoKey]
  /\ cut' = [cut EXCEPT ![q] = FALSE]

Goto(q, where) ==
  /\ pc' = [pc EXCEPT ![q] = where]
  /\ UNCHANGED <<key, cut>>

-----------------------------------------------------------------------------
(* Questions: slots, and interruption by the caller or a failed sibling    *)

Active == {q \in Questions : pc[q] \notin {"idle", "waiting"}}

Ask(q, k) ==
  /\ stage = "open" /\ pc[q] = "idle"
  /\ pc' = [pc EXCEPT ![q] = "waiting"]
  /\ key' = [key EXCEPT ![q] = k]
  /\ UNCHANGED <<stage, mutex, victim, entryVars, cut>>

\* Plausible bug: one question too many holds a slot.
EnterOneMore(q) ==
  /\ pc[q] = "waiting"
  /\ Cardinality(Active) <= MaxActive
  /\ Goto(q, "acquiring")
  /\ UNCHANGED <<stage, mutex, victim, entryVars>>

\* slots.withPermit
Enter(q) ==
  /\ pc[q] = "waiting"
  /\ Cardinality(Active) < MaxActive
  /\ Goto(q, "acquiring")
  /\ UNCHANGED <<stage, mutex, victim, entryVars>>

\* An interrupted question gives up its place in the queue for a slot; past
\* that it leaves at its next interruptible point.
Interrupt(q) ==
  /\ pc[q] # "idle" /\ ~ cut[q]
  /\ IF pc[q] = "waiting" THEN Leave(q)
     ELSE cut' = [cut EXCEPT ![q] = TRUE] /\ UNCHANGED <<pc, key>>
  /\ UNCHANGED <<stage, mutex, victim, entryVars>>

-----------------------------------------------------------------------------
(* acquire                                                                 *)

Locks(q) == mutex = Free /\ pc[q] = "acquiring"
At(k) == CHOOSE i \in DOMAIN order : order[i] = k
Without(k) == RemoveAt(order, At(k))
Cached(k) == state[k] # "absent"

\* Plausible bug: acquisition fails only once the finalizer is through.
AcquireParked(q) ==
  /\ Locks(q) /\ stage = "closed"
  /\ Leave(q)
  /\ UNCHANGED <<stage, mutex, victim, entryVars>>

AcquireClosed(q) ==
  /\ Locks(q) /\ stage # "open"
  /\ Leave(q)
  /\ UNCHANGED <<stage, mutex, victim, entryVars>>

\* Plausible bug: the expiry timer survives a hit.
HitKeepsTimer(q) ==
  /\ Locks(q) /\ stage = "open" /\ Cached(key[q])
  /\ leases' = [leases EXCEPT ![key[q]] = @ + 1]
  /\ order' = Append(Without(key[q]), key[q])
  /\ Goto(q, "awaiting")
  /\ UNCHANGED <<stage, mutex, victim, state, timer, held, livePrefixes>>

\* A hit cancels the expiry timer before it adds its lease.
Hit(q) ==
  /\ Locks(q) /\ stage = "open" /\ Cached(key[q])
  /\ timer' = [timer EXCEPT ![key[q]] = "none"]
  /\ leases' = [leases EXCEPT ![key[q]] = @ + 1]
  /\ order' = Append(Without(key[q]), key[q])
  /\ Goto(q, "awaiting")
  /\ UNCHANGED <<stage, mutex, victim, state, held, livePrefixes>>

\* A new entry, with its worker, after the ones in kept.
Create(q, kept) ==
  /\ order' = Append(kept, key[q])
  /\ state' = [state EXCEPT ![key[q]] = "loading"]
  /\ leases' = [leases EXCEPT ![key[q]] = 1]
  /\ held' = held \cup {key[q]}
  /\ Goto(q, "awaiting")

Full == Len(order) = MaxCached

Miss(q) ==
  /\ Locks(q) /\ stage = "open" /\ ~ Cached(key[q]) /\ ~ Full
  /\ Create(q, order)
  /\ UNCHANGED <<stage, mutex, victim, timer, livePrefixes>>

\* The first idle entry in Map order makes room.
Oldest(k) ==
  \E i \in DOMAIN order :
    /\ order[i] = k /\ leases[k] = 0
    /\ \A j \in 1 .. i - 1 : leases[order[j]] # 0

MissFull(q) ==
  /\ Locks(q) /\ stage = "open" /\ ~ Cached(key[q]) /\ Full
  /\ \E k \in Keys :
       /\ Oldest(k)
       /\ victim' = k
       /\ timer' = [timer EXCEPT ![k] = "none"]
  /\ mutex' = q
  /\ Goto(q, "evicting")
  /\ UNCHANGED <<stage, order, state, leases, held, livePrefixes>>

-----------------------------------------------------------------------------
(* dispose: interrupt the worker, close the scope, delete the entry        *)

\* Plausible bug: a failed prefill is uncounted as well.
UncountedAlways == livePrefixes - 1

Disposable == victim # NoKey /\ state[victim] # "loading"
Uncounted == IF state[victim] = "ready" THEN livePrefixes - 1 ELSE livePrefixes

EvictEnd(q) ==
  /\ mutex = q /\ pc[q] = "evicting" /\ Disposable
  /\ order' = Append(Without(victim), key[q])
  /\ state' = [state EXCEPT ![victim] = "absent", ![key[q]] = "loading"]
  /\ leases' = [leases EXCEPT ![key[q]] = 1]
  /\ held' = (held \ {victim}) \cup {key[q]}
  /\ livePrefixes' = Uncounted
  /\ mutex' = Free /\ victim' = NoKey
  /\ Goto(q, "awaiting")
  /\ UNCHANGED <<stage, timer>>

Delete ==
  /\ order' = Without(victim)
  /\ state' = [state EXCEPT ![victim] = "absent"]
  /\ held' = held \ {victim}
  /\ livePrefixes' = Uncounted
  /\ victim' = NoKey
  /\ UNCHANGED <<leases, timer>>

DisposeEnd(q) ==
  /\ mutex = q /\ pc[q] = "disposing" /\ Disposable
  /\ Delete
  /\ mutex' = Free
  /\ Leave(q)
  /\ UNCHANGED stage

-----------------------------------------------------------------------------
(* Awaiting the prefill, reading, release                                  *)

Read(q) ==
  /\ pc[q] = "awaiting" /\ state[key[q]] = "ready" /\ ~ cut[q]
  /\ Goto(q, "reading")
  /\ UNCHANGED <<stage, mutex, victim, entryVars>>

\* Plausible bug: an interrupted wait forgets its lease.
GiveUpLeased(q) ==
  /\ pc[q] = "awaiting" /\ (state[key[q]] = "failed" \/ cut[q])
  /\ Leave(q)
  /\ UNCHANGED <<stage, mutex, victim, entryVars>>

GiveUp(q) ==
  /\ pc[q] = "awaiting" /\ (state[key[q]] = "failed" \/ cut[q])
  /\ Goto(q, "releasing")
  /\ UNCHANGED <<stage, mutex, victim, entryVars>>

\* Reads succeed, fail or are interrupted; native use has ended either way.
ReadEnd(q) ==
  /\ pc[q] = "reading"
  /\ Goto(q, "releasing")
  /\ UNCHANGED <<stage, mutex, victim, entryVars>>

Unlease(k) == leases' = [leases EXCEPT ![k] = @ - 1]
LastLease(q) == mutex = Free /\ pc[q] = "releasing" /\ leases[key[q]] = 1

\* Other leases remain, or the finalizer will dispose of the entry.
ReleaseOnly(q) ==
  /\ mutex = Free /\ pc[q] = "releasing"
  /\ leases[key[q]] # 1 \/ stage # "open"
  /\ Unlease(key[q])
  /\ Leave(q)
  /\ UNCHANGED <<stage, mutex, victim, order, state, timer, held, livePrefixes>>

ReleaseAbandoned(q) ==
  /\ LastLease(q) /\ stage = "open" /\ state[key[q]] # "ready"
  /\ Unlease(key[q])
  /\ mutex' = q /\ victim' = key[q]
  /\ Goto(q, "disposing")
  /\ UNCHANGED <<stage, order, state, timer, held, livePrefixes>>

\* Plausible bug: an entry becomes idle whatever its prefill did.
ReleaseUnready(q) ==
  /\ LastLease(q) /\ stage = "open"
  /\ Unlease(key[q])
  /\ order' = Append(Without(key[q]), key[q])
  /\ timer' = [timer EXCEPT ![key[q]] = "sleeping"]
  /\ Leave(q)
  /\ UNCHANGED <<stage, mutex, victim, state, held, livePrefixes>>

ReleaseIdle(q) ==
  /\ LastLease(q) /\ stage = "open" /\ state[key[q]] = "ready"
  /\ Unlease(key[q])
  /\ order' = Append(Without(key[q]), key[q])
  /\ timer' = [timer EXCEPT ![key[q]] = "sleeping"]
  /\ Leave(q)
  /\ UNCHANGED <<stage, mutex, victim, state, held, livePrefixes>>

-----------------------------------------------------------------------------
(* Worker and timer fibers                                                 *)

Prefilled(k) ==
  /\ state[k] = "loading"
  /\ state' = [state EXCEPT ![k] = "ready"]
  /\ livePrefixes' = livePrefixes + 1
  /\ UNCHANGED <<stage, mutex, victim, order, leases, timer, held, questionVars>>

\* Plausible bug: the scope of a failed prefill stays open.
PrefillFailsOpen(k) ==
  /\ state[k] = "loading"
  /\ state' = [state EXCEPT ![k] = "failed"]
  /\ UNCHANGED <<stage, mutex, victim, order, leases, timer, held, livePrefixes, questionVars>>

\* A prefill that fails or is interrupted closes its scope first.
PrefillFails(k) ==
  /\ state[k] = "loading"
  /\ state' = [state EXCEPT ![k] = "failed"]
  /\ held' = held \ {k}
  /\ UNCHANGED <<stage, mutex, victim, order, leases, timer, livePrefixes, questionVars>>

TimerDue(k) ==
  /\ timer[k] = "sleeping"
  /\ timer' = [timer EXCEPT ![k] = "due"]
  /\ UNCHANGED <<stage, mutex, victim, order, state, leases, held, livePrefixes, questionVars>>

Expire(k) ==
  /\ timer[k] = "due" /\ mutex = Free
  /\ timer' = [timer EXCEPT ![k] = "none"]
  /\ mutex' = k /\ victim' = k
  /\ UNCHANGED <<stage, order, state, leases, held, livePrefixes, questionVars>>

ExpireEnd(k) ==
  /\ mutex = k /\ Disposable
  /\ Delete
  /\ mutex' = Free
  /\ UNCHANGED <<stage, questionVars>>

-----------------------------------------------------------------------------
(* The finalizer: calls, then background fibers, then what is left         *)

Close ==
  /\ stage = "open"
  /\ stage' = "draining"
  /\ pc' = [q \in Questions |-> IF pc[q] = "waiting" THEN "idle" ELSE pc[q]]
  /\ key' = [q \in Questions |-> IF pc[q] = "waiting" THEN NoKey ELSE key[q]]
  /\ cut' = [q \in Questions |-> pc[q] \notin {"idle", "waiting"}]
  /\ UNCHANGED <<mutex, victim, entryVars>>

\* Scope.close(calls) is back; timers and workers are interrupted.
Drained ==
  /\ stage = "draining" /\ \A q \in Questions : pc[q] = "idle"
  /\ stage' = "stopping"
  /\ timer' = [k \in Keys |-> "none"]
  /\ UNCHANGED <<mutex, victim, order, state, leases, held, livePrefixes, questionVars>>

Stopped ==
  /\ stage = "stopping" /\ mutex = Free
  /\ \A k \in Keys : state[k] # "loading"
  /\ stage' = "disposing" /\ mutex' = Closer
  /\ UNCHANGED <<victim, entryVars, questionVars>>

CloseEntry ==
  /\ mutex = Closer /\ victim = NoKey /\ order # <<>>
  /\ victim' = Head(order)
  /\ UNCHANGED <<stage, mutex, entryVars, questionVars>>

CloseEntryEnd ==
  /\ mutex = Closer /\ Disposable
  /\ Delete
  /\ UNCHANGED <<stage, mutex, questionVars>>

Closed ==
  /\ mutex = Closer /\ victim = NoKey /\ order = <<>>
  /\ stage' = "closed" /\ mutex' = Free
  /\ UNCHANGED <<victim, entryVars, questionVars>>

-----------------------------------------------------------------------------
Run(q) ==
  \/ Enter(q)
  \/ AcquireClosed(q) \/ Hit(q) \/ Miss(q) \/ MissFull(q) \/ EvictEnd(q)
  \/ Read(q) \/ GiveUp(q) \/ ReadEnd(q)
  \/ ReleaseOnly(q) \/ ReleaseAbandoned(q) \/ ReleaseIdle(q) \/ DisposeEnd(q)

Background(k) ==
  Prefilled(k) \/ PrefillFails(k) \/ TimerDue(k) \/ Expire(k) \/ ExpireEnd(k)

Finalize == Drained \/ Stopped \/ CloseEntry \/ CloseEntryEnd \/ Closed

Progress ==
  (\E q \in Questions : Run(q)) \/ (\E k \in Keys : Background(k)) \/ Finalize

Next ==
  \/ \E q \in Questions : (\E k \in Keys : Ask(q, k)) \/ Interrupt(q)
  \/ Close
  \/ Progress

Spec == Init /\ [][Next]_vars

\* The event loop runs some fiber that can run; reads, prefills and timers end.
FairSpec == Spec /\ WF_vars(Progress)

-----------------------------------------------------------------------------
(* Properties                                                              *)

TypeOK ==
  /\ stage \in {"open", "draining", "stopping", "disposing", "closed"}
  /\ mutex \in Questions \cup Keys \cup {Closer, Free}
  /\ victim \in Keys \cup {NoKey}
  /\ order \in Seq(Keys)
  /\ state \in [Keys -> {"absent", "loading", "ready", "failed"}]
  /\ leases \in [Keys -> Nat]
  /\ timer \in [Keys -> {"none", "sleeping", "due"}]
  /\ held \subseteq Keys /\ livePrefixes \in Nat
  /\ pc \in [Questions -> {"idle", "waiting", "acquiring", "evicting", "awaiting",
                          "reading", "releasing", "disposing"}]
  /\ key \in [Questions -> Keys \cup {NoKey}]
  /\ cut \in [Questions -> BOOLEAN]

Holding == {q \in Questions : pc[q] \in {"awaiting", "reading", "releasing"}}
Leasing(k) == {q \in Holding : key[q] = k}

\* An entry's lease count is the number of questions that still have to give
\* it back, through hits, failed prefills, interruptions and shutdown.
LeasesExact == \A k \in Keys : leases[k] = Cardinality(Leasing(k))

\* A prefix is never disposed of under a question that reads or will read it
\* ("other callers can finish using theirs").
InUse ==
  \A q \in Holding :
    /\ Cached(key[q]) /\ key[q] # victim
    /\ pc[q] = "reading" => state[key[q]] = "ready" /\ key[q] \in held

\* DecisionEngine.ts:178-179: a question that holds a slot and misses a full
\* cache finds an idle entry, so "No idle prefix cache slot" is never raised.
IdleFound ==
  \A q \in Questions :
    Locks(q) /\ ~ Cached(key[q]) /\ Full => \E k \in Keys : Oldest(k)

\* Between two operations an idle entry is a ready one whose expiry timer
\* runs, and no timer runs against a leased one.
IdleTimed ==
  mutex = Free /\ stage = "open" =>
    \A k \in Keys : Cached(k) =>
      IF leases[k] = 0 THEN state[k] = "ready" /\ timer[k] # "none"
                      ELSE timer[k] = "none"

\* The cache never exceeds its capacity, pending prefills included; what the
\* statistics report is what the runtime holds; a closed engine holds nothing.
Resident ==
  /\ Len(order) <= MaxCached
  /\ livePrefixes = Cardinality({k \in Keys : state[k] = "ready"})
  /\ held = {k \in Keys : state[k] \in {"loading", "ready"}}
  /\ stage = "closed" => order = <<>> /\ held = {}

\* Closing the engine's scope ends, whatever its fibers were doing.
Closes == stage = "draining" ~> stage = "closed"
=============================================================================
