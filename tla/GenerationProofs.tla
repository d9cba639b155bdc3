--------------------------- MODULE GenerationProofs ---------------------------
(***************************************************************************)
(* The safety of GenerationSession for every number of calls, prompts,     *)
(* lanes, stages and identifiers: an inductive invariant, the invariants   *)
(* that follow from it, and the implementation of the token stream.        *)
(***************************************************************************)
EXTENDS GenerationSession, TLAPS, FiniteSetTheorems

\* Every call is a record of the declared shape.
CallsTyped ==
  /\ call = [c \in Calls |-> call[c]]
  /\ \A c \in Calls : IsCall(call[c])

\* The operation mutex is held by the one call that runs.
Held == \A c \in Calls : Running(c) <=> operation = c

\* While a call runs the session is open and no receipt is pending, and the
\* call's round has been allocated.
Quiet ==
  \A c \in Calls : Running(c) =>
    ~ closed /\ receipt = NoReceipt /\ call[c].round < nextRound

\* What an admission reserved is still its own: its ids are allocated and
\* unused, its lanes are distinct and free.
Reserved(c) ==
  LET f == call[c].reserved
  IN  /\ pc(c) = "running"
      /\ \A id \in DOMAIN f :
           /\ id < nextSequence
           /\ f[id] \in Lanes
           /\ lane[id] = NoLane
           /\ generated[id] = 0 /\ delivered[id] = 0 /\ cursor[id] = 0
           /\ \A i \in Live : lane[i] # f[id]
      /\ \A i, j \in DOMAIN f : f[i] = f[j] => i = j
AddsReserved == \A c \in Calls : Running(c) /\ IsAdd(c) => Reserved(c)

\* What a round selected is still live and may be extended; a committed round
\* stays within the budgets.
Selected(c) ==
  /\ call[c].request.of \subseteq Live
  /\ \A id \in call[c].request.of : ~ terminal[id]
  /\ pc(c) = "ready" =>
       /\ DOMAIN call[c].sampled = call[c].request.of
       /\ \A id \in call[c].request.of :
            generated[id] + call[c].sampled[id] <= Budget
RoundsSelected == \A c \in Calls : Running(c) /\ ~ IsAdd(c) => Selected(c)

\* Identifiers that were never allocated have no history.
Unborn ==
  \A id \in Ids : id >= nextSequence =>
    lane[id] = NoLane /\ generated[id] = 0 /\ delivered[id] = 0 /\ cursor[id] = 0

Budgeted == \A id \in Live : ~ terminal[id] => generated[id] < Budget

\* Durable, for all identifiers.
Owed ==
  ~ closed =>
    \A id \in Ids :
      IF id \in DOMAIN receipt.pages
        THEN /\ receipt.pages[id].first = delivered[id] + 1
             /\ receipt.pages[id].last = generated[id]
        ELSE delivered[id] = generated[id]

\* The TypeScript copy and the pending receipt make up the native sequences.
Agree ==
  /\ tracked \cup DOMAIN receipt.pages = Live
  /\ \A id \in Live :
       IF id \in DOMAIN receipt.pages
         THEN receipt.pages[id].stop <=> terminal[id]
         ELSE id \in ended <=> terminal[id]

ClosedEmpty == closed => Live = {} /\ receipt = NoReceipt

\* The cursor runs ahead only in a round that committed and has not published.
Ahead(id) ==
  IF \E c \in Calls : pc(c) = "ready" /\ id \in call[c].request.of
    THEN call[operation].sampled[id] ELSE 0
Cursors == \A id \in Live : cursor[id] = generated[id] - 1 + Ahead(id)

IInv ==
  /\ TypeOK /\ CallsTyped /\ Held /\ Quiet /\ AddsReserved /\ RoundsSelected
  /\ Unborn /\ Budgeted /\ Owed /\ Agree /\ ClosedEmpty /\ Cursors
  /\ LanesDistinct /\ ReceiptWaits

-----------------------------------------------------------------------------
(* Shapes.                                                                 *)

LEMMA NoneEmpty == DOMAIN None = {} /\ DOMAIN NoReceipt.pages = {}
  BY DEF None, NoReceipt

LEMMA NoReceiptRound == NoReceipt.round = -1
  BY DEF NoReceipt

\* A receipt is never the absence of one: rounds are natural numbers.
LEMMA ReceiptIsSome == \A r : IsReceipt(r) => r # NoReceipt
  BY NoReceiptRound DEF IsReceipt

\* Writing one call's record leaves the calls typed and the others alone.
LEMMA CallStep ==
  ASSUME CallsTyped, NEW c \in Calls, NEW k, IsCall(k),
         call' = [call EXCEPT ![c] = k]
  PROVE  /\ CallsTyped'
         /\ call'[c] = k
         /\ \A d \in Calls : d # c => call'[d] = call[d]
<1>1. call'[c] = k /\ \A d \in Calls : d # c => call'[d] = call[d]
  BY DEF CallsTyped
<1>2. call' = [d \in Calls |-> call'[d]]
  BY DEF CallsTyped
<1>3. \A d \in Calls : IsCall(call'[d])
  BY <1>1 DEF CallsTyped
<1> QED BY <1>1, <1>2, <1>3 DEF CallsTyped

LEMMA IdleTyped == IsCall(Idle)
  BY NoneEmpty, GenerationConstants
  DEF IsCall, Idle, NoReceipt, None, Request, AddRequest, RoundRequest

\* A freshly queued call.
LEMMA QueuedTyped ==
  ASSUME NEW req \in Request, NEW k,
         k = [Idle EXCEPT !.pc = "queued", !.request = req]
  PROVE  IsCall(k) /\ k.pc = "queued"
  BY NoneEmpty, GenerationConstants
  DEF IsCall, Idle, NoReceipt, None, Request, AddRequest, RoundRequest

LEMMA SettledTyped ==
  ASSUME NEW how \in {"resolved", "failed"}, NEW r, r = NoReceipt \/ IsReceipt(r)
  PROVE  /\ IsCall(Settled(how, r))
         /\ Settled(how, r).pc = how /\ Settled(how, r).result = r
<1>1. \A k : IsCall(k) =>
        /\ IsCall([k EXCEPT !.pc = how])
        /\ [k EXCEPT !.pc = how].pc = how
  BY DEF IsCall
<1>2. \A k : IsCall(k) =>
        /\ IsCall([k EXCEPT !.phase = "completed"])
        /\ [k EXCEPT !.phase = "completed"].pc = k.pc
  BY DEF IsCall
<1>3. \A k : IsCall(k) =>
        /\ IsCall([k EXCEPT !.result = r])
        /\ [k EXCEPT !.result = r].pc = k.pc
        /\ [k EXCEPT !.result = r].result = r
  BY DEF IsCall
<1>4. Settled(how, r) =
        [[[Idle EXCEPT !.pc = how] EXCEPT !.phase = "completed"] EXCEPT !.result = r]
  BY DEF Settled
<1>5. PICK a : a = [Idle EXCEPT !.pc = how]
  OBVIOUS
<1>6. PICK b : b = [a EXCEPT !.phase = "completed"]
  OBVIOUS
<1>7. Settled(how, r) = [b EXCEPT !.result = r]
  BY <1>4, <1>5, <1>6, Zenon
<1>8. IsCall(a) /\ a.pc = how
  BY <1>1, <1>5, IdleTyped, Zenon
<1>9. IsCall(b) /\ b.pc = how
  BY <1>2, <1>6, <1>8, Zenon
<1> QED BY <1>3, <1>7, <1>9, Zenon

Phases == {"inflight", "cancelled", "completed"}

LEMMA SetPhase ==
  ASSUME NEW k, IsCall(k), NEW p \in Phases, NEW r, r = [k EXCEPT !.phase = p]
  PROVE  /\ IsCall(r)
         /\ r.pc = k.pc /\ r.request = k.request /\ r.round = k.round
         /\ r.reserved = k.reserved /\ r.sampled = k.sampled
         /\ r.result = k.result
  BY DEF IsCall, Phases

LEMMA SetStage ==
  ASSUME NEW k, IsCall(k), NEW n \in Nat, NEW r, r = [k EXCEPT !.stage = n]
  PROVE  /\ IsCall(r)
         /\ r.pc = k.pc /\ r.request = k.request /\ r.round = k.round
         /\ r.reserved = k.reserved /\ r.sampled = k.sampled
         /\ r.result = k.result
  BY DEF IsCall, Phases

-----------------------------------------------------------------------------
(* Steps that only touch one call and the client's foreground.             *)

\* Such a step keeps the invariant when it leaves what a running call works
\* with alone and promises the client nothing but the pending receipt.
LEMMA Frame ==
  ASSUME IInv, NEW c \in Calls, NEW k, IsCall(k), call' = [call EXCEPT ![c] = k],
         UNCHANGED <<sessionVars, tracked, ended, delivered, exited>>,
         foreground' \in Calls \cup {NoCall},
         k.pc \in {"running", "ready"} <=> Running(c),
         Running(c) =>
           /\ k.pc = pc(c) /\ k.request = call[c].request
           /\ k.round = call[c].round /\ k.reserved = call[c].reserved
           /\ k.sampled = call[c].sampled,
         foreground' # NoCall /\ call'[foreground'].pc = "resolved" =>
           receipt # NoReceipt /\ receipt = call'[foreground'].result
  PROVE  IInv'
<1> USE DEF sessionVars, sequenceVars, idVars
<1>1. /\ CallsTyped'
      /\ call'[c] = k
      /\ \A d \in Calls : d # c => call'[d] = call[d]
  BY CallStep DEF IInv
<1>2. \A d \in Calls :
        /\ Running(d)' <=> Running(d)
        /\ Running(d) =>
             /\ pc(d)' = pc(d) /\ call'[d].request = call[d].request
             /\ call'[d].round = call[d].round
             /\ call'[d].reserved = call[d].reserved
             /\ call'[d].sampled = call[d].sampled
  BY <1>1 DEF Running, pc
<1>3. \A d \in Calls : Running(d) => (IsAdd(d)' <=> IsAdd(d))
  BY <1>2 DEF IsAdd
<1>4. Live' = Live
  BY DEF Live
<1>5. TypeOK'
  BY <1>1 DEF IInv, TypeOK, CallsTyped
<1>6. Held' /\ Quiet'
  BY <1>2 DEF IInv, Held, Quiet
<1>7. AddsReserved'
  BY <1>2, <1>3, <1>4 DEF IInv, AddsReserved, Reserved
<1>8. RoundsSelected'
  BY <1>2, <1>3, <1>4 DEF IInv, RoundsSelected, Selected
<1>9. Unborn' /\ Budgeted' /\ Owed' /\ Agree' /\ ClosedEmpty' /\ LanesDistinct'
  BY <1>4 DEF IInv, Unborn, Budgeted, Owed, Agree, ClosedEmpty, LanesDistinct
<1>10. Cursors'
  <2>1. \A d \in Calls :
          /\ pc(d)' = "ready" <=> pc(d) = "ready"
          /\ pc(d) = "ready" =>
               /\ call'[d].request = call[d].request
               /\ call'[d].sampled = call[d].sampled
               /\ operation = d
    BY <1>2 DEF Running, IInv, Held
  <2>2. \A id \in Live : Ahead(id)' = Ahead(id)
    BY <2>1 DEF Ahead
  <2> QED BY <1>4, <2>2 DEF IInv, Cursors
<1>11. ReceiptWaits'
  BY DEF ReceiptWaits, pc
<1> QED BY <1>1, <1>5, <1>6, <1>7, <1>8, <1>9, <1>10, <1>11 DEF IInv

LEMMA BeginKeeps ==
  ASSUME IInv, NEW c \in Calls, NEW req \in Request, Begin(c, req)
  PROVE  IInv'
<1>1. PICK k : k = [Idle EXCEPT !.pc = "queued", !.request = req]
  OBVIOUS
<1>2. IsCall(k) /\ k.pc = "queued"
  BY <1>1, QueuedTyped
<1>3. /\ call' = [call EXCEPT ![c] = k] /\ foreground' = c /\ pc(c) = "idle"
      /\ UNCHANGED <<sessionVars, tracked, ended, delivered, exited>>
  BY <1>1, Zenon DEF Begin
<1>4. call'[c] = k
  BY <1>3 DEF IInv, CallsTyped
<1> QED BY <1>2, <1>3, <1>4, Frame DEF Running

LEMMA AddKeeps == ASSUME IInv, NEW c \in Calls, Add(c) PROVE IInv'
<1>1. PICK P \in SUBSET Prompt : Begin(c, [op |-> "add", of |-> P])
  BY DEF Add
<1>2. [op |-> "add", of |-> P] \in Request
  BY DEF Request, AddRequest
<1> QED BY <1>1, <1>2, BeginKeeps

LEMMA StepKeeps == ASSUME IInv, NEW c \in Calls, Step(c) PROVE IInv'
<1>1. PICK S \in SUBSET (tracked \ ended) : Begin(c, [op |-> "round", of |-> S])
  BY DEF Step
<1>2. [op |-> "round", of |-> S] \in Request
  BY DEF Request, RoundRequest, IInv, TypeOK
<1> QED BY <1>1, <1>2, BeginKeeps

LEMMA FaultKeeps == ASSUME IInv, NEW c \in Calls, Fault(c) PROVE IInv'
<1>1. Idle.pc = "idle"
  BY DEF Idle
<1>2. /\ call' = [call EXCEPT ![c] = Idle] /\ foreground' = NoCall
      /\ pc(c) \in {"failed", "resolved"}
      /\ UNCHANGED <<sessionVars, tracked, ended, delivered, exited>>
  BY DEF Fault
<1> QED BY <1>1, <1>2, IdleTyped, Frame DEF Running

LEMMA DiscardKeeps == ASSUME IInv, NEW c \in Calls, Discard(c) PROVE IInv'
<1>1. Idle.pc = "idle"
  BY DEF Idle
<1>2. /\ call' = [call EXCEPT ![c] = Idle] /\ foreground' = foreground
      /\ pc(c) \in {"failed", "resolved"} /\ foreground # c
      /\ UNCHANGED <<sessionVars, tracked, ended, delivered, exited>>
  BY DEF Discard, clientVars
<1>3. \A d \in Calls : d # c => call'[d] = call[d]
  BY <1>2 DEF IInv, CallsTyped
<1>4. foreground \in Calls \cup {NoCall}
  BY DEF IInv, TypeOK
<1>5. foreground' # NoCall /\ call'[foreground'].pc = "resolved" =>
        receipt # NoReceipt /\ receipt = call'[foreground'].result
  BY <1>2, <1>3, <1>4 DEF IInv, ReceiptWaits, pc
<1> QED BY <1>1, <1>2, <1>4, <1>5, IdleTyped, Frame DEF Running

LEMMA InterruptKeeps == ASSUME IInv, NEW c \in Calls, Interrupt(c) PROVE IInv'
<1>1. PICK p : p = IF call[c].phase = "inflight" THEN "cancelled" ELSE call[c].phase
  OBVIOUS
<1>2. PICK k : k = [call[c] EXCEPT !.phase = p]
  OBVIOUS
<1>3. IsCall(call[c]) /\ p \in Phases
  BY <1>1 DEF IInv, CallsTyped, IsCall, Phases
<1>4. /\ IsCall(k)
      /\ k.pc = pc(c) /\ k.request = call[c].request /\ k.round = call[c].round
      /\ k.reserved = call[c].reserved /\ k.sampled = call[c].sampled
  BY <1>2, <1>3, SetPhase DEF pc
<1>5. /\ call' = [call EXCEPT ![c] = k] /\ foreground' = NoCall
      /\ UNCHANGED <<sessionVars, tracked, ended, delivered, exited>>
  BY <1>1, <1>2 DEF Interrupt
<1> QED BY <1>4, <1>5, Frame DEF Running, pc

\* What the client is promised does not change while its call is not resolved.
LEMMA StillPromised ==
  ASSUME IInv, NEW c \in Calls, NEW k, IsCall(k), call' = [call EXCEPT ![c] = k],
         k.pc # "resolved", UNCHANGED <<foreground, receipt>>
  PROVE  foreground' # NoCall /\ call'[foreground'].pc = "resolved" =>
           receipt # NoReceipt /\ receipt = call'[foreground'].result
<1>1. call'[c] = k /\ \A d \in Calls : d # c => call'[d] = call[d]
  BY CallStep DEF IInv
<1> QED BY <1>1 DEF IInv, TypeOK, ReceiptWaits, pc

LEMMA ExecuteKeeps == ASSUME IInv, NEW c \in Calls, Execute(c) PROVE IInv'
<1>1. PICK p \in IF IsAdd(c) THEN {"completed"} ELSE {"completed", call[c].phase} :
        call' = [call EXCEPT ![c].phase = p, ![c].stage = @ + 1]
  BY DEF Execute
<1>2. PICK n : n = call[c].stage + 1
  OBVIOUS
<1>3. PICK j : j = [call[c] EXCEPT !.phase = p]
  OBVIOUS
<1>4. PICK k : k = [j EXCEPT !.stage = n]
  OBVIOUS
<1>5. IsCall(call[c]) /\ p \in Phases /\ n \in Nat
  BY <1>1, <1>2 DEF IInv, CallsTyped, IsCall, Phases
<1>6. /\ IsCall(j)
      /\ j.pc = pc(c) /\ j.request = call[c].request /\ j.round = call[c].round
      /\ j.reserved = call[c].reserved /\ j.sampled = call[c].sampled
  BY <1>3, <1>5, SetPhase DEF pc
<1>7. /\ IsCall(k)
      /\ k.pc = pc(c) /\ k.request = call[c].request /\ k.round = call[c].round
      /\ k.reserved = call[c].reserved /\ k.sampled = call[c].sampled
  BY <1>4, <1>5, <1>6, SetStage
<1>8. k = [call[c] EXCEPT !.phase = p, !.stage = call[c].stage + 1]
  BY <1>2, <1>3, <1>4
<1>9. /\ call' = [call EXCEPT ![c] = k]
      /\ UNCHANGED <<sessionVars, clientVars>> /\ pc(c) = "running"
  BY <1>1, <1>8 DEF Execute
<1>10. UNCHANGED <<foreground, receipt, tracked, ended, delivered, exited>>
  BY <1>9 DEF sessionVars, clientVars
<1> QED BY <1>7, <1>9, <1>10, Frame, StillPromised DEF Running, pc, IInv, TypeOK

LEMMA RefuseKeeps == ASSUME IInv, NEW c \in Calls, Refuse(c) PROVE IInv'
<1>1. PICK k : k = Settled("failed", NoReceipt)
  OBVIOUS
<1>2. IsCall(k) /\ k.pc = "failed"
  BY <1>1, SettledTyped
<1>3. /\ call' = [call EXCEPT ![c] = k] /\ pc(c) = "queued"
      /\ UNCHANGED <<sessionVars, clientVars>>
  BY <1>1 DEF Refuse
<1>4. UNCHANGED <<foreground, receipt, tracked, ended, delivered, exited>>
  BY <1>3 DEF sessionVars, clientVars
<1> QED BY <1>2, <1>3, <1>4, Frame, StillPromised DEF Running, pc, IInv, TypeOK

LEMMA RecoverKeeps == ASSUME IInv, NEW c \in Calls, Recover(c) PROVE IInv'
<1>1. PICK k : k = Settled("resolved", receipt)
  OBVIOUS
<1>2. IsCall(k) /\ k.pc = "resolved" /\ k.result = receipt
  BY <1>1, SettledTyped DEF IInv, TypeOK
<1>3. /\ call' = [call EXCEPT ![c] = k] /\ pc(c) = "queued" /\ receipt # NoReceipt
      /\ UNCHANGED <<sessionVars, clientVars>>
  BY <1>1 DEF Recover
<1>4. UNCHANGED <<foreground, receipt, tracked, ended, delivered, exited>>
  BY <1>3 DEF sessionVars, clientVars
<1>5. call'[c] = k /\ \A d \in Calls : d # c => call'[d] = call[d]
  BY <1>2, <1>3, CallStep DEF IInv
<1>6. foreground' # NoCall /\ call'[foreground'].pc = "resolved" =>
        receipt # NoReceipt /\ receipt = call'[foreground'].result
  BY <1>2, <1>3, <1>4, <1>5 DEF IInv, TypeOK, ReceiptWaits, pc
<1> QED BY <1>2, <1>3, <1>4, <1>6, Frame DEF Running, pc, IInv, TypeOK

-----------------------------------------------------------------------------
(* Admission.                                                              *)

\* Nobody runs while the mutex is free.
LEMMA NobodyRuns ==
  ASSUME IInv, operation = NoCall
  PROVE  \A d \in Calls : ~ Running(d)
  BY GenerationConstants DEF IInv, Held

LEMMA SetPc ==
  ASSUME NEW k, IsCall(k), NEW a, a = [k EXCEPT !.pc = "running"]
  PROVE  IsCall(a) /\ a.pc = "running" /\ a.request = k.request
  BY DEF IsCall

LEMMA SetRound ==
  ASSUME NEW k, IsCall(k), NEW n \in Nat, NEW a, a = [k EXCEPT !.round = n]
  PROVE  /\ IsCall(a) /\ a.pc = k.pc /\ a.round = n
         /\ a.request = k.request
  BY DEF IsCall

LEMMA SetReserved ==
  ASSUME NEW k, IsCall(k), NEW f, NEW r,
         DOMAIN f \subseteq Ids, f \in [DOMAIN f -> Lanes],
         r = [k EXCEPT !.reserved = f]
  PROVE  /\ IsCall(r) /\ r.pc = k.pc /\ r.round = k.round /\ r.reserved = f
         /\ r.request = k.request
  BY DEF IsCall

\* A call that becomes the running one, with what it selected or reserved.
LEMMA Enters ==
  ASSUME IInv, NEW c \in Calls, NEW k, IsCall(k), call' = [call EXCEPT ![c] = k],
         operation = NoCall, operation' = c, k.pc = "running",
         nextRound < MaxRounds, nextRound' = nextRound + 1, k.round = nextRound,
         nextSequence' \in Nat, nextSequence <= nextSequence',
         nextSequence' <= MaxSequences,
         ~ closed, receipt = NoReceipt,
         UNCHANGED <<closed, sequenceVars, receipt, lastRound, clientVars>>,
         IsAdd(c)' => Reserved(c)', ~ IsAdd(c)' => Selected(c)'
  PROVE  IInv'
<1> USE DEF sequenceVars, clientVars
<1>1. /\ CallsTyped' /\ call'[c] = k
      /\ \A d \in Calls : d # c => call'[d] = call[d]
  BY CallStep DEF IInv
<1>2. \A d \in Calls : ~ Running(d)
  BY NobodyRuns
<1>3. /\ Running(c)' /\ pc(c)' # "ready"
      /\ \A d \in Calls : d # c => ~ Running(d)' /\ pc(d)' = pc(d)
  BY <1>1, <1>2 DEF Running, pc
<1>4. Live' = Live
  BY DEF Live
<1>5. TypeOK'
  <2>1. nextRound' \in 0 .. MaxRounds /\ nextSequence' \in 0 .. MaxSequences
    BY GenerationConstants DEF IInv, TypeOK
  <2> QED BY <1>1, <2>1 DEF IInv, TypeOK, CallsTyped
<1>6. Held' /\ Quiet'
  <2>1. nextRound \in Nat
    BY GenerationConstants DEF IInv, TypeOK
  <2> QED BY <1>1, <1>3, <2>1 DEF Held, Quiet
<1>7. AddsReserved' /\ RoundsSelected'
  BY <1>3 DEF AddsReserved, RoundsSelected
<1>8. Unborn'
  <2>1. nextSequence \in Nat
    BY GenerationConstants DEF IInv, TypeOK
  <2>2. \A id \in Ids : id >= nextSequence' => id >= nextSequence
    BY <2>1, GenerationConstants DEF Ids
  <2> QED BY <2>2 DEF IInv, Unborn
<1>9. Budgeted' /\ Owed' /\ Agree' /\ ClosedEmpty' /\ LanesDistinct'
  BY <1>4 DEF IInv, Budgeted, Owed, Agree, ClosedEmpty, LanesDistinct
<1>10. Cursors'
  <2>1. \A d \in Calls : pc(d) # "ready" /\ pc(d)' # "ready"
    BY <1>2, <1>3 DEF Running
  <2>2. \A id : Ahead(id) = 0 /\ Ahead(id)' = 0
    BY <2>1 DEF Ahead
  <2> QED BY <1>4, <2>2 DEF IInv, Cursors
<1>11. ReceiptWaits'
  BY <1>1 DEF IInv, ReceiptWaits, TypeOK, pc
<1> QED BY <1>1, <1>5, <1>6, <1>7, <1>8, <1>9, <1>10, <1>11 DEF IInv

LEMMA AdmitKeeps == ASSUME IInv, NEW c \in Calls, Admit(c) PROVE IInv'
<1>1. /\ operation = NoCall /\ operation' = c /\ ~ Refused(c) /\ receipt = NoReceipt
      /\ nextRound' = nextRound + 1
      /\ UNCHANGED <<closed, sequenceVars, receipt, lastRound, clientVars>>
  BY DEF Admit, Reserve
<1>2. ~ closed /\ nextRound \in Nat /\ nextRound < MaxRounds
  BY <1>1, GenerationConstants DEF Refused, IInv, TypeOK
<1>3. IsCall(call[c]) /\ nextSequence \in Nat /\ nextSequence <= MaxSequences
  BY GenerationConstants DEF IInv, TypeOK
<1>4. CASE IsAdd(c)
  <2> DEFINE n == Cardinality(call[c].request.of)
  <2>1. n \in Nat
    <3>1. call[c].request.of \subseteq Prompt
      BY <1>3, <1>4 DEF IsAdd, IsCall, Request, AddRequest, RoundRequest
    <3> QED BY <3>1, GenerationConstants, FS_Subset, FS_CardinalityType
  <2>2. nextSequence' = nextSequence + n /\ nextSequence + n <= MaxSequences
    <3>1. ~ (nextSequence + n > MaxSequences)
      BY <1>1, <1>4 DEF Refused
    <3>2. nextSequence' = nextSequence + n
      BY <1>4 DEF Admit, Reserve
    <3> QED BY <3>1, <3>2, <2>1, <1>3, GenerationConstants
  <2>3. PICK f \in [NewIds(n) -> FreeLanes] :
          /\ \A i, j \in NewIds(n) : f[i] = f[j] => i = j
          /\ call' = [call EXCEPT ![c].pc = "running", ![c].round = nextRound,
                                  ![c].reserved = f]
    BY <1>4 DEF Admit, Reserve
  <2>4. PICK k : k = [call[c] EXCEPT !.pc = "running", !.round = nextRound,
                                     !.reserved = f]
    OBVIOUS
  <2>5. call' = [call EXCEPT ![c] = k]
    BY <2>3, <2>4
  <2>6. /\ DOMAIN f = NewIds(n) /\ NewIds(n) \subseteq Ids /\ FreeLanes \subseteq Lanes
        /\ \A id \in NewIds(n) : nextSequence <= id /\ id < nextSequence + n
    BY <2>1, <2>2, <2>3, <1>3, GenerationConstants DEF NewIds, Ids, FreeLanes
  <2> HIDE DEF n
  <2>7. DOMAIN f \subseteq Ids /\ f \in [DOMAIN f -> Lanes]
    BY <2>3, <2>6
  <2>8. IsCall(k) /\ k.pc = "running" /\ k.round = nextRound /\ k.reserved = f
          /\ k.request = call[c].request
    <3>1. PICK a : a = [call[c] EXCEPT !.pc = "running"]
      OBVIOUS
    <3>2. PICK b : b = [a EXCEPT !.round = nextRound]
      OBVIOUS
    <3>3. IsCall(b) /\ b.pc = "running" /\ b.round = nextRound
            /\ b.request = call[c].request
      <4>1. IsCall(a) /\ a.pc = "running" /\ a.request = call[c].request
        BY <1>3, <3>1, SetPc
      <4> QED BY <1>2, <3>2, <4>1, SetRound
    <3>4. k = [b EXCEPT !.reserved = f]
      BY <2>4, <3>1, <3>2
    <3> QED BY <2>7, <3>3, <3>4, SetReserved
  <2>9. call'[c] = k
    BY <2>5 DEF IInv, CallsTyped
  <2>10. \A id \in NewIds(n) :
           /\ lane[id] = NoLane /\ generated[id] = 0 /\ delivered[id] = 0
           /\ cursor[id] = 0
           /\ f[id] \in Lanes /\ \A i \in Live : lane[i] # f[id]
    BY <2>3, <2>6 DEF IInv, Unborn, FreeLanes
  <2>11. Live' = Live
    BY <1>1 DEF Live, sequenceVars
  <2>12. Reserved(c)'
    <3>1. UNCHANGED <<lane, generated, delivered, cursor>>
      BY <1>1 DEF sequenceVars, clientVars
    <3>2. call'[c].reserved = f /\ pc(c)' = "running"
      BY <2>8, <2>9 DEF pc
    <3>3. \A id \in DOMAIN f : id < nextSequence'
      BY <2>2, <2>6
    <3> QED BY <3>1, <3>2, <3>3, <2>3, <2>6, <2>10, <2>11 DEF Reserved
  <2>13. IsAdd(c)'
    BY <1>4, <2>8, <2>9 DEF IsAdd
  <2>14. nextSequence' \in Nat /\ nextSequence <= nextSequence'
           /\ nextSequence' <= MaxSequences
    BY <2>1, <2>2, <1>3
  <2> QED BY <1>1, <1>2, <2>5, <2>8, <2>12, <2>13, <2>14, Enters
<1>5. CASE ~ IsAdd(c)
  <2>1. /\ call' = [call EXCEPT ![c].pc = "running", ![c].round = nextRound]
        /\ nextSequence' = nextSequence
    BY <1>5 DEF Admit, Reserve
  <2>2. PICK k : k = [call[c] EXCEPT !.pc = "running", !.round = nextRound]
    OBVIOUS
  <2>3. call' = [call EXCEPT ![c] = k]
    BY <2>1, <2>2
  <2>4. PICK a : a = [call[c] EXCEPT !.pc = "running"]
    OBVIOUS
  <2>5. k = [a EXCEPT !.round = nextRound]
    BY <2>2, <2>4
  <2>6. IsCall(k) /\ k.pc = "running" /\ k.round = nextRound
          /\ k.request = call[c].request
    <3>1. IsCall(a) /\ a.pc = "running" /\ a.request = call[c].request
      BY <1>3, <2>4, SetPc
    <3> QED BY <1>2, <2>5, <3>1, SetRound
  <2>7. call'[c] = k
    BY <2>3 DEF IInv, CallsTyped
  <2>8. Live' = Live
    BY <1>1 DEF Live, sequenceVars
  <2>9. Selected(c)'
    BY <1>1, <1>5, <2>6, <2>7, <2>8 DEF Selected, Refused, pc, sequenceVars
  <2>10. ~ IsAdd(c)'
    BY <1>5, <2>6, <2>7 DEF IsAdd
  <2>11. nextSequence' \in Nat /\ nextSequence <= nextSequence'
           /\ nextSequence' <= MaxSequences
    BY <1>3, <2>1
  <2> QED BY <1>1, <1>2, <2>3, <2>6, <2>9, <2>10, <2>11, Enters
<1> QED BY <1>4, <1>5

-----------------------------------------------------------------------------
(* The commit of a round, and the steps that release the session.          *)

LEMMA SetReady ==
  ASSUME NEW k, IsCall(k), NEW a, a = [k EXCEPT !.pc = "ready"]
  PROVE  /\ IsCall(a) /\ a.pc = "ready" /\ a.request = k.request
         /\ a.round = k.round
  BY DEF IsCall

LEMMA SetSampled ==
  ASSUME NEW k, IsCall(k), NEW n, NEW a,
         DOMAIN n \subseteq Ids, n \in [DOMAIN n -> 1 .. MaxPage],
         a = [k EXCEPT !.sampled = n]
  PROVE  /\ IsCall(a) /\ a.pc = k.pc /\ a.round = k.round
         /\ a.request = k.request /\ a.sampled = n
  BY DEF IsCall

\* The session runs one call at a time.
LEMMA RunsAlone ==
  ASSUME IInv, NEW c \in Calls, Running(c)
  PROVE  /\ operation = c /\ c # NoCall
         /\ \A d \in Calls : d # c => ~ Running(d) /\ pc(d) # "ready"
  BY GenerationConstants DEF IInv, Held, Running

LEMMA CommitKeeps == ASSUME IInv, NEW c \in Calls, Commit(c) PROVE IInv'
<1> DEFINE S == call[c].request.of
<1>1. PICK n \in [S -> 1 .. MaxPage] :
        /\ \A id \in S : n[id] <= PageLimit(id)
        /\ call' = [call EXCEPT ![c].phase = "completed", ![c].pc = "ready",
                                ![c].sampled = n]
        /\ cursor' = [id \in Ids |-> IF id \in S THEN cursor[id] + n[id]
                                     ELSE cursor[id]]
  BY DEF Commit
<1>2. /\ Running(c) /\ pc(c) = "running" /\ ~ IsAdd(c)
      /\ UNCHANGED <<operation, closed, lane, generated, terminal, receipt,
                     nextRound, nextSequence, lastRound>>
      /\ UNCHANGED <<foreground, tracked, ended, delivered, exited>>
  BY DEF Commit, Running, idVars, clientVars
<1>3. /\ operation = c /\ c # NoCall
      /\ \A d \in Calls : d # c => ~ Running(d) /\ pc(d) # "ready"
  BY <1>2, RunsAlone
<1>4. Selected(c) /\ IsCall(call[c])
  BY <1>2 DEF IInv, RoundsSelected, TypeOK
<1>5. PICK a : a = [call[c] EXCEPT !.phase = "completed"]
  OBVIOUS
<1>6. PICK b : b = [a EXCEPT !.pc = "ready"]
  OBVIOUS
<1>7. PICK k : k = [b EXCEPT !.sampled = n]
  OBVIOUS
<1>8. /\ IsCall(a) /\ a.request = call[c].request /\ a.round = call[c].round
  BY <1>4, <1>5, SetPhase DEF Phases
<1>9. S \subseteq Ids /\ S \subseteq Live /\ DOMAIN n = S
  BY <1>1, <1>4 DEF Selected, Live
<1>10. /\ IsCall(k) /\ k.pc = "ready" /\ k.round = call[c].round
       /\ k.request = call[c].request /\ k.sampled = n
  <2>1. /\ IsCall(b) /\ b.pc = "ready" /\ b.request = call[c].request
        /\ b.round = call[c].round
    BY <1>6, <1>8, SetReady
  <2>2. DOMAIN n \subseteq Ids /\ n \in [DOMAIN n -> 1 .. MaxPage]
    BY <1>1, <1>9
  <2> QED BY <1>7, <2>1, <2>2, SetSampled
<1>11. call' = [call EXCEPT ![c] = k]
  <2>1. k = [call[c] EXCEPT !.phase = "completed", !.pc = "ready", !.sampled = n]
    BY <1>5, <1>6, <1>7
  <2> QED BY <1>1, <2>1
<1>12. /\ CallsTyped' /\ call'[c] = k
       /\ \A d \in Calls : d # c => call'[d] = call[d]
  BY <1>10, <1>11, CallStep DEF IInv
<1>13. /\ Running(c)' /\ pc(c)' = "ready" /\ ~ IsAdd(c)'
       /\ \A d \in Calls : d # c => ~ Running(d)' /\ pc(d)' # "ready"
  BY <1>2, <1>3, <1>10, <1>12 DEF Running, pc, IsAdd
<1>14. Live' = Live
  BY <1>2 DEF Live
<1>15. \A id \in S : n[id] \in Nat
  BY <1>1, GenerationConstants
<1> HIDE DEF S
<1>16. TypeOK'
  <2>1. cursor' \in [Ids -> Nat]
    BY <1>1, <1>15 DEF IInv, TypeOK
  <2> QED BY <1>2, <1>12, <2>1 DEF IInv, TypeOK, CallsTyped
<1>17. Held' /\ Quiet' /\ AddsReserved'
  BY <1>2, <1>3, <1>10, <1>12, <1>13 DEF IInv, Held, Quiet, AddsReserved
<1>18. RoundsSelected'
  <2>1. \A id \in S : generated[id] + n[id] <= Budget
    <3> SUFFICES ASSUME NEW id \in S PROVE generated[id] + n[id] <= Budget
      OBVIOUS
    <3>1. generated[id] < Budget
      BY <1>4, <1>9 DEF Selected, IInv, Budgeted, S
    <3>2. generated[id] \in Nat
      BY <1>9, GenerationConstants DEF IInv, TypeOK
    <3>3. PageLimit(id) <= Budget - generated[id]
      BY <3>1, <3>2, GenerationConstants DEF PageLimit, Least
    <3>4. PageLimit(id) \in Int
      BY <3>1, <3>2, GenerationConstants DEF PageLimit, Least
    <3> QED BY <1>1, <1>15, <3>2, <3>3, <3>4, GenerationConstants
  <2>2. Selected(c)'
    BY <1>2, <1>4, <1>9, <1>10, <1>12, <1>14, <2>1 DEF Selected, S
  <2> QED BY <1>13, <2>2 DEF RoundsSelected
<1>19. Unborn'
  BY <1>1, <1>2, <1>9 DEF IInv, Unborn, Live
<1>20. Budgeted' /\ Owed' /\ Agree' /\ ClosedEmpty' /\ LanesDistinct'
  BY <1>2, <1>14 DEF IInv, Budgeted, Owed, Agree, ClosedEmpty, LanesDistinct
<1>21. Cursors'
  <2>1. \A d \in Calls : pc(d) # "ready"
    BY <1>2, <1>3
  <2>2. \A id \in Live : cursor[id] = generated[id] - 1
    <3>1. \A id : Ahead(id) = 0
      BY <2>1 DEF Ahead
    <3> QED BY <3>1, GenerationConstants DEF IInv, Cursors, TypeOK, Live
  <2>3. \A id : Ahead(id)' = IF id \in S THEN n[id] ELSE 0
    BY <1>2, <1>3, <1>10, <1>12, <1>13 DEF Ahead, S
  <2> QED BY <1>1, <1>2, <1>14, <1>15, <2>2, <2>3, GenerationConstants
        DEF IInv, TypeOK, Cursors, Live
<1>22. ReceiptWaits'
  BY <1>2, <1>10, <1>11, StillPromised DEF ReceiptWaits, pc
<1> QED BY <1>12, <1>16, <1>17, <1>18, <1>19, <1>20, <1>21, <1>22 DEF IInv

\* What a session in which nobody runs owes the running calls: nothing.
LEMMA Released ==
  ASSUME operation' = NoCall, \A d \in Calls : ~ Running(d)'
  PROVE  /\ Held' /\ Quiet' /\ AddsReserved' /\ RoundsSelected'
         /\ \A id : Ahead(id)' = 0
<1>1. Held' /\ Quiet' /\ AddsReserved' /\ RoundsSelected'
  BY GenerationConstants DEF Held, Quiet, AddsReserved, RoundsSelected
<1>2. \A d \in Calls : pc(d)' # "ready"
  BY DEF Running
<1> QED BY <1>1, <1>2 DEF Ahead

\* The running call settles and gives the session back.
LEMMA Leaves ==
  ASSUME IInv, NEW c \in Calls, Running(c), NEW k, IsCall(k),
         k.pc \in {"resolved", "failed"},
         call' = [call EXCEPT ![c] = k], operation' = NoCall
  PROVE  /\ CallsTyped' /\ call'[c] = k
         /\ \A d \in Calls : d # c => call'[d] = call[d]
         /\ Held' /\ Quiet' /\ AddsReserved' /\ RoundsSelected'
         /\ \A id : Ahead(id)' = 0
<1>1. /\ CallsTyped' /\ call'[c] = k
      /\ \A d \in Calls : d # c => call'[d] = call[d]
  BY CallStep DEF IInv
<1>2. \A d \in Calls : ~ Running(d)'
  BY <1>1, RunsAlone DEF Running, pc
<1> QED BY <1>1, <1>2, Released

LEMMA FailKeeps == ASSUME IInv, NEW c \in Calls, Fail(c) PROVE IInv'
<1>1. PICK k : k = Settled("failed", NoReceipt)
  OBVIOUS
<1>2. IsCall(k) /\ k.pc = "failed"
  BY <1>1, SettledTyped
<1>3. /\ call' = [call EXCEPT ![c] = k] /\ pc(c) = "running" /\ Running(c)
      /\ operation' = NoCall
      /\ UNCHANGED <<closed, sequenceVars, receipt, idVars, lastRound, clientVars>>
  BY <1>1 DEF Fail, Release, Running
<1> USE DEF sequenceVars, idVars, clientVars
<1>4. /\ CallsTyped' /\ call'[c] = k
      /\ \A d \in Calls : d # c => call'[d] = call[d]
      /\ Held' /\ Quiet' /\ AddsReserved' /\ RoundsSelected'
      /\ \A id : Ahead(id)' = 0
  BY <1>2, <1>3, Leaves
<1>5. Live' = Live
  BY <1>3 DEF Live
<1>6. TypeOK'
  BY <1>3, <1>4 DEF IInv, TypeOK, CallsTyped
<1>7. Unborn' /\ Budgeted' /\ Owed' /\ Agree' /\ ClosedEmpty' /\ LanesDistinct'
  BY <1>3, <1>5 DEF IInv, Unborn, Budgeted, Owed, Agree, ClosedEmpty, LanesDistinct
<1>8. Cursors'
  <2>1. \A d \in Calls : pc(d) # "ready"
    BY <1>3, RunsAlone
  <2>2. \A id : Ahead(id) = 0
    BY <2>1 DEF Ahead
  <2> QED BY <1>3, <1>4, <1>5, <2>2 DEF IInv, Cursors
<1>9. ReceiptWaits'
  BY <1>2, <1>3, StillPromised DEF ReceiptWaits, pc
<1> QED BY <1>4, <1>6, <1>7, <1>8, <1>9 DEF IInv

-----------------------------------------------------------------------------
(* Publication.                                                            *)

\* A published receipt is what the call that published it resolves with, and
\* the client awaits no other result.
LEMMA PublishWaits ==
  ASSUME IInv, NEW c \in Calls, Running(c), NEW k, IsCall(k), IsReceipt(receipt'),
         call' = [call EXCEPT ![c] = k], k.result = receipt',
         foreground' = foreground
  PROVE  ReceiptWaits'
<1>1. call'[c] = k /\ \A d \in Calls : d # c => call'[d] = call[d]
  BY CallStep DEF IInv
<1>2. receipt = NoReceipt /\ receipt' # NoReceipt
  BY ReceiptIsSome DEF IInv, Quiet
<1> QED BY <1>1, <1>2 DEF IInv, TypeOK, ReceiptWaits, pc

\* The receipt of a call is a receipt.
LEMMA ReceiptTyped ==
  ASSUME NEW k, IsCall(k), NEW S \in SUBSET Ids, NEW pages \in [S -> Page],
         NEW r, r = [round |-> k.round, request |-> k.request, pages |-> pages]
  PROVE  /\ IsReceipt(r) /\ DOMAIN r.pages = S /\ r.pages = pages
         /\ r.round = k.round
  BY DEF IsCall, IsReceipt

\* Marking sequences terminal.
LEMMA MarkTyped ==
  ASSUME NEW f \in [Ids -> BOOLEAN], NEW S, NEW T
  PROVE  [id \in Ids |-> IF id \in S THEN id \in T ELSE f[id]] \in [Ids -> BOOLEAN]
<1> SUFFICES ASSUME NEW id \in Ids
             PROVE  (IF id \in S THEN id \in T ELSE f[id]) \in BOOLEAN
  BY Zenon
<1>1. f[id] \in BOOLEAN /\ (id \in T) \in BOOLEAN
  BY SMT
<1> QED BY <1>1, Zenon

LEMMA PublishAddKeeps == ASSUME IInv, NEW c \in Calls, PublishAdd(c) PROVE IInv'
<1> DEFINE lanes == call[c].reserved
           new == DOMAIN lanes
<1>1. PICK stops \in SUBSET new :
        /\ Budget = 1 => stops = new
        /\ terminal' = [id \in Ids |-> IF id \in new THEN id \in stops
                                       ELSE terminal[id]]
        /\ Publish(c, [id \in new |->
              [first |-> 1, last |-> 1, stop |-> id \in stops]])
  <2>1. PICK eos \in SUBSET new :
          LET stops == IF Budget = 1 THEN new ELSE eos
          IN  /\ terminal' = [id \in Ids |-> IF id \in new THEN id \in stops
                                             ELSE terminal[id]]
              /\ Publish(c, [id \in new |->
                    [first |-> 1, last |-> 1, stop |-> id \in stops]])
    BY DEF PublishAdd
  <2>2. PICK stops : stops = IF Budget = 1 THEN new ELSE eos
    OBVIOUS
  <2> QED BY <2>1, <2>2
<1>2. /\ Running(c) /\ pc(c) = "running" /\ IsAdd(c)
      /\ lane' = [id \in Ids |-> IF id \in new THEN lanes[id] ELSE lane[id]]
      /\ generated' = [id \in Ids |-> IF id \in new THEN 1 ELSE generated[id]]
      /\ UNCHANGED <<closed, cursor, nextRound, nextSequence>>
      /\ UNCHANGED <<foreground, tracked, ended, delivered, exited>>
  BY DEF PublishAdd, Running, idVars, clientVars
<1>3. /\ ~ closed /\ receipt = NoReceipt /\ call[c].round < nextRound
      /\ Reserved(c) /\ IsCall(call[c])
  BY <1>2 DEF IInv, Quiet, AddsReserved, TypeOK
<1>4. new \subseteq Ids /\ lanes \in [new -> Lanes]
  BY <1>3 DEF IsCall
<1> DEFINE pages == [id \in new |-> [first |-> 1, last |-> 1, stop |-> id \in stops]]
<1>5. PICK r : r = [round |-> call[c].round, request |-> call[c].request,
                    pages |-> pages]
  OBVIOUS
<1>6. /\ receipt' = r /\ lastRound' = r.round /\ operation' = NoCall
      /\ call' = [call EXCEPT ![c] = Settled("resolved", r)]
  BY <1>1, <1>5 DEF Publish, Release
<1>7. pages \in [new -> Page]
  BY DEF Page
<1>8. /\ \A id \in new : pages[id].first = 1 /\ pages[id].last = 1
      /\ \A id \in new : pages[id].stop <=> id \in stops
  OBVIOUS
<1> HIDE DEF pages
<1>9. IsReceipt(r) /\ DOMAIN r.pages = new /\ r.pages = pages
        /\ r.round = call[c].round
  BY <1>3, <1>4, <1>5, <1>7, ReceiptTyped
<1>10. PICK k : k = Settled("resolved", r)
  OBVIOUS
<1>11. IsCall(k) /\ k.pc = "resolved" /\ k.result = r
  BY <1>9, <1>10, SettledTyped
<1>12. /\ CallsTyped' /\ call'[c] = k
       /\ \A d \in Calls : d # c => call'[d] = call[d]
       /\ Held' /\ Quiet' /\ AddsReserved' /\ RoundsSelected'
       /\ \A id : Ahead(id)' = 0
  BY <1>2, <1>6, <1>10, <1>11, Leaves
<1>13. \A id \in new :
         /\ id < nextSequence /\ lane[id] = NoLane /\ generated[id] = 0
         /\ delivered[id] = 0 /\ cursor[id] = 0
         /\ \A i \in Live : lane[i] # lanes[id]
  BY <1>3 DEF Reserved
<1>14. Live' = Live \cup new
  BY <1>2, <1>4, GenerationConstants DEF Live
<1>15. TypeOK'
  <2>1. lane' \in [Ids -> Lanes \cup {NoLane}]
    BY <1>2, <1>4 DEF IInv, TypeOK
  <2>2. generated' \in [Ids -> 0 .. Budget]
    BY <1>2, GenerationConstants DEF IInv, TypeOK
  <2>3. terminal' \in [Ids -> BOOLEAN]
    BY <1>1, MarkTyped DEF IInv, TypeOK
  <2>4. lastRound' \in -1 .. (MaxRounds - 1)
    BY <1>3, <1>6, <1>9, GenerationConstants DEF IInv, TypeOK, IsCall
  <2>5. IsReceipt(receipt')
    BY <1>6, <1>9
  <2>6. /\ closed' \in BOOLEAN /\ cursor' \in [Ids -> Nat]
        /\ nextRound' \in 0 .. MaxRounds /\ nextSequence' \in 0 .. MaxSequences
        /\ foreground' \in Calls \cup {NoCall}
        /\ tracked' \subseteq Ids /\ ended' \subseteq Ids
        /\ delivered' \in [Ids -> Nat] /\ exited' \in BOOLEAN
    BY <1>2 DEF IInv, TypeOK
  <2> QED BY <1>6, <1>12, <2>1, <2>2, <2>3, <2>4, <2>5, <2>6
        DEF TypeOK, CallsTyped
<1>16. Unborn'
  <2>1. \A id \in Ids : id >= nextSequence => id \notin new
    BY <1>13, GenerationConstants DEF IInv, TypeOK, Ids
  <2> QED BY <1>2, <2>1 DEF IInv, Unborn
<1>17. Budgeted'
  <2>1. \A id \in new : ~ terminal'[id] => 1 < Budget
    <3>1. \A id \in new : terminal'[id] = (id \in stops)
      BY <1>1, <1>4, Zenon
    <3>2. Budget = 1 \/ 1 < Budget
      BY GenerationConstants
    <3> QED BY <1>1, <3>1, <3>2, Zenon
  <2>2. \A id \in new : ~ terminal'[id] => generated'[id] < Budget
    BY <1>2, <1>4, <2>1
  <2>3. \A id \in Live \ new :
          generated'[id] = generated[id] /\ terminal'[id] = terminal[id]
    BY <1>1, <1>2 DEF Live
  <2> QED BY <1>14, <2>2, <2>3 DEF IInv, Budgeted
<1>18. Owed'
  BY <1>2, <1>3, <1>4, <1>6, <1>8, <1>9, <1>13, NoneEmpty DEF IInv, Owed
<1>19. Agree'
  <2>1. tracked = Live /\ \A id \in Live : id \in ended <=> terminal[id]
    BY <1>3, NoneEmpty DEF IInv, Agree
  <2>2. \A id \in new : terminal'[id] <=> id \in stops
    BY <1>1, <1>4
  <2>3. \A id \in Live : id \notin new => terminal'[id] = terminal[id]
    BY <1>1 DEF Live
  <2> QED BY <1>2, <1>6, <1>8, <1>9, <1>14, <2>1, <2>2, <2>3 DEF Agree
<1>20. ClosedEmpty'
  BY <1>2, <1>3 DEF ClosedEmpty
<1>21. Cursors'
  <2>1. \A d \in Calls : pc(d) # "ready"
    BY <1>2, RunsAlone
  <2>2. \A id \in Live : cursor[id] = generated[id] - 1
    <3>1. \A id : Ahead(id) = 0
      BY <2>1 DEF Ahead
    <3> QED BY <3>1, GenerationConstants DEF IInv, Cursors, TypeOK, Live
  <2>3. \A id \in Live' : cursor'[id] = generated'[id] - 1
    BY <1>2, <1>4, <1>13, <1>14, <2>2 DEF Live
  <2>4. \A id \in Ids : generated'[id] \in Int
    BY <1>15, GenerationConstants DEF TypeOK
  <2> QED BY <1>12, <2>3, <2>4 DEF Cursors, Live
<1>22. LanesDistinct'
  <2>1. \A i, j \in new : lanes[i] = lanes[j] => i = j
    BY <1>3 DEF Reserved
  <2> QED BY <1>2, <1>4, <1>13, <1>14, <2>1 DEF IInv, LanesDistinct, Live
<1>23. ReceiptWaits'
  BY <1>2, <1>6, <1>9, <1>10, <1>11, PublishWaits
<1> QED BY <1>12, <1>15, <1>16, <1>17, <1>18, <1>19, <1>20, <1>21, <1>22, <1>23
      DEF IInv

LEMMA PublishRoundKeeps == ASSUME IInv, NEW c \in Calls, PublishRound(c) PROVE IInv'
<1> DEFINE S == call[c].request.of
           n == call[c].sampled
<1>1. PICK stops \in SUBSET S :
        /\ \A id \in S : id \notin stops => ~ (generated[id] + n[id] >= Budget)
        /\ terminal' = [id \in Ids |-> IF id \in S THEN id \in stops
                                       ELSE terminal[id]]
        /\ Publish(c, [id \in S |-> [first |-> generated[id] + 1,
                                     last |-> generated[id] + n[id],
                                     stop |-> id \in stops]])
  <2>1. PICK eos \in SUBSET S :
          LET stops == eos \cup {id \in S : generated[id] + n[id] >= Budget}
          IN  /\ terminal' = [id \in Ids |-> IF id \in S THEN id \in stops
                                             ELSE terminal[id]]
              /\ Publish(c, [id \in S |-> [first |-> generated[id] + 1,
                                           last |-> generated[id] + n[id],
                                           stop |-> id \in stops]])
    BY DEF PublishRound
  <2>2. PICK stops : stops = eos \cup {id \in S : generated[id] + n[id] >= Budget}
    OBVIOUS
  <2>3. stops \in SUBSET S
    BY <2>2
  <2> QED BY <2>1, <2>2, <2>3
<1>2. /\ pc(c) = "ready" /\ Running(c)
      /\ generated' = [id \in Ids |-> IF id \in S THEN generated[id] + n[id]
                                      ELSE generated[id]]
      /\ UNCHANGED <<closed, lane, cursor, nextRound, nextSequence>>
      /\ UNCHANGED <<foreground, tracked, ended, delivered, exited>>
  BY DEF PublishRound, Running, idVars, clientVars
<1>3. ~ IsAdd(c)
  BY <1>2 DEF IInv, AddsReserved, Reserved
<1>4. /\ ~ closed /\ receipt = NoReceipt /\ call[c].round < nextRound
      /\ Selected(c) /\ IsCall(call[c])
  BY <1>2, <1>3 DEF IInv, Quiet, RoundsSelected, TypeOK
<1>5. S \subseteq Live /\ S \subseteq Ids /\ DOMAIN n = S
        /\ n \in [S -> 1 .. MaxPage]
  BY <1>2, <1>4 DEF Selected, Live, IsCall
<1>6. \A id \in S : generated[id] + n[id] <= Budget
  BY <1>2, <1>4 DEF Selected
<1>7. /\ \A id \in S : n[id] \in Nat \ {0} /\ generated[id] + n[id] \in Nat
      /\ \A id \in Ids : generated[id] \in Nat /\ cursor[id] \in Nat
  BY <1>5, GenerationConstants DEF IInv, TypeOK
<1> DEFINE pages == [id \in S |-> [first |-> generated[id] + 1,
                                   last |-> generated[id] + n[id],
                                   stop |-> id \in stops]]
<1>8. PICK r : r = [round |-> call[c].round, request |-> call[c].request,
                    pages |-> pages]
  OBVIOUS
<1>9. /\ receipt' = r /\ lastRound' = r.round /\ operation' = NoCall
      /\ call' = [call EXCEPT ![c] = Settled("resolved", r)]
  BY <1>1, <1>8 DEF Publish, Release
<1>10. pages \in [S -> Page]
  BY <1>5, <1>7 DEF Page
<1>11. /\ \A id \in S : /\ pages[id].first = generated[id] + 1
                        /\ pages[id].last = generated[id] + n[id]
       /\ \A id \in S : pages[id].stop <=> id \in stops
  OBVIOUS
<1> HIDE DEF pages
<1>12. IsReceipt(r) /\ DOMAIN r.pages = S /\ r.pages = pages
         /\ r.round = call[c].round
  BY <1>4, <1>5, <1>8, <1>10, ReceiptTyped
<1>13. PICK k : k = Settled("resolved", r)
  OBVIOUS
<1>14. IsCall(k) /\ k.pc = "resolved" /\ k.result = r
  BY <1>12, <1>13, SettledTyped
<1>15. /\ CallsTyped' /\ call'[c] = k
       /\ \A d \in Calls : d # c => call'[d] = call[d]
       /\ Held' /\ Quiet' /\ AddsReserved' /\ RoundsSelected'
       /\ \A id : Ahead(id)' = 0
  BY <1>2, <1>9, <1>13, <1>14, Leaves
<1>16. Live' = Live
  BY <1>2 DEF Live
<1>17. TypeOK'
  <2>1. generated' \in [Ids -> 0 .. Budget]
    <3> SUFFICES ASSUME NEW id \in Ids PROVE generated'[id] \in 0 .. Budget
      BY <1>2
    <3>1. CASE id \in S
      BY <3>1, <1>2, <1>6, <1>7, GenerationConstants
    <3>2. CASE id \notin S
      BY <3>2, <1>2 DEF IInv, TypeOK
    <3> QED BY <3>1, <3>2
  <2>2. terminal' \in [Ids -> BOOLEAN]
    BY <1>1, MarkTyped DEF IInv, TypeOK
  <2>3. lastRound' \in -1 .. (MaxRounds - 1)
    BY <1>4, <1>9, <1>12, GenerationConstants DEF IInv, TypeOK, IsCall
  <2>4. IsReceipt(receipt')
    BY <1>9, <1>12
  <2>5. /\ closed' \in BOOLEAN /\ cursor' \in [Ids -> Nat]
        /\ lane' \in [Ids -> Lanes \cup {NoLane}]
        /\ nextRound' \in 0 .. MaxRounds /\ nextSequence' \in 0 .. MaxSequences
        /\ foreground' \in Calls \cup {NoCall}
        /\ tracked' \subseteq Ids /\ ended' \subseteq Ids
        /\ delivered' \in [Ids -> Nat] /\ exited' \in BOOLEAN
    BY <1>2 DEF IInv, TypeOK
  <2> QED BY <1>9, <1>15, <2>1, <2>2, <2>3, <2>4, <2>5 DEF TypeOK, CallsTyped
<1>18. Unborn'
  BY <1>2, <1>5 DEF IInv, Unborn, Live
<1>19. \A id \in S : terminal'[id] = (id \in stops)
  BY <1>1, <1>5, Zenon
<1>20. \A id \in Live \ S : terminal'[id] = terminal[id]
  BY <1>1 DEF Live
<1>21. Budgeted'
  <2>1. \A id \in S : id \notin stops => generated'[id] < Budget
    BY <1>1, <1>2, <1>5, <1>6, <1>7, GenerationConstants
  <2>2. \A id \in S : ~ terminal'[id] => generated'[id] < Budget
    BY <1>19, <2>1, Zenon
  <2>3. \A id \in Live \ S : generated'[id] = generated[id]
    BY <1>2 DEF Live
  <2> QED BY <1>16, <1>20, <2>2, <2>3 DEF IInv, Budgeted
<1>22. Owed'
  <2>1. \A id \in Ids : delivered[id] = generated[id]
    BY <1>4, NoneEmpty DEF IInv, Owed
  <2> QED BY <1>2, <1>5, <1>9, <1>11, <1>12, <2>1 DEF Owed
<1>23. Agree'
  <2>1. tracked = Live /\ \A id \in Live : id \in ended <=> terminal[id]
    BY <1>4, NoneEmpty DEF IInv, Agree
  <2> QED BY <1>2, <1>5, <1>9, <1>11, <1>12, <1>16, <1>19, <1>20, <2>1 DEF Agree
<1>24. ClosedEmpty'
  BY <1>2, <1>4 DEF ClosedEmpty
<1>25. Cursors'
  <2>1. \A id : Ahead(id) = IF id \in S THEN n[id] ELSE 0
    BY <1>2, RunsAlone DEF Ahead
  <2>2. \A id \in Live : cursor[id] = generated'[id] - 1
    BY <1>2, <1>7, <2>1 DEF IInv, Cursors, Live
  <2>3. \A id \in Ids : generated'[id] \in Int
    BY <1>17, GenerationConstants DEF TypeOK
  <2> QED BY <1>2, <1>15, <1>16, <2>2, <2>3 DEF Cursors, Live
<1>26. LanesDistinct'
  BY <1>2, <1>16 DEF IInv, LanesDistinct
<1>27. ReceiptWaits'
  BY <1>2, <1>9, <1>12, <1>13, <1>14, PublishWaits
<1> QED BY <1>15, <1>17, <1>18, <1>21, <1>22, <1>23, <1>24, <1>25, <1>26, <1>27
      DEF IInv

-----------------------------------------------------------------------------
(* Delivery, finish and close: nobody runs.                                *)

LEMMA AcceptKeeps == ASSUME IInv, NEW c \in Calls, Accept(c) PROVE IInv'
<1> DEFINE pages == receipt.pages
<1>1. /\ foreground = c /\ pc(c) = "resolved" /\ receipt # NoReceipt
      /\ UNCHANGED <<operation, closed, lane, generated, terminal, cursor>>
      /\ UNCHANGED <<nextRound, nextSequence, lastRound, exited>>
      /\ receipt' = NoReceipt /\ foreground' = NoCall
      /\ call' = [call EXCEPT ![c] = Idle]
  BY DEF Accept, Acknowledged, sequenceVars, idVars
<1>2. receipt = call[c].result /\ IsReceipt(receipt)
  BY <1>1, GenerationConstants DEF IInv, ReceiptWaits, TypeOK
<1>3. /\ tracked' = tracked \cup DOMAIN pages
      /\ ended' = (ended \ DOMAIN pages)
                    \cup {id \in DOMAIN pages : pages[id].stop}
      /\ delivered' = [id \in Ids |-> IF id \in DOMAIN pages
                                        THEN pages[id].last ELSE delivered[id]]
  BY <1>2 DEF Accept
<1>4. ~ closed /\ \A d \in Calls : ~ Running(d)
  BY <1>1 DEF IInv, ClosedEmpty, Quiet
<1>5. operation = NoCall
  BY <1>4 DEF IInv, TypeOK, Held
<1>6. /\ CallsTyped' /\ call'[c] = Idle
      /\ \A d \in Calls : d # c => call'[d] = call[d]
  BY <1>1, IdleTyped, CallStep DEF IInv
<1>7. \A d \in Calls : ~ Running(d)' /\ pc(d) # "ready"
  BY <1>4, <1>6 DEF Running, pc, Idle
<1>8. /\ Held' /\ Quiet' /\ AddsReserved' /\ RoundsSelected'
      /\ \A id : Ahead(id)' = 0
  BY <1>1, <1>5, <1>7, Released
<1>9. DOMAIN pages \subseteq Ids /\ \A id \in DOMAIN pages : pages[id].last \in Nat
  BY <1>2 DEF IsReceipt, Page
<1>10. Live' = Live
  BY <1>1 DEF Live
<1>11. /\ tracked \cup DOMAIN pages = Live
       /\ \A id \in Live :
            IF id \in DOMAIN pages THEN pages[id].stop <=> terminal[id]
                                   ELSE id \in ended <=> terminal[id]
  BY DEF IInv, Agree
<1> HIDE DEF pages
<1>12. TypeOK'
  <2>1. tracked' \subseteq Ids /\ ended' \subseteq Ids
    BY <1>3, <1>9 DEF IInv, TypeOK
  <2>2. delivered' \in [Ids -> Nat]
    BY <1>3, <1>9 DEF IInv, TypeOK
  <2>3. receipt' = NoReceipt /\ \A d \in Calls : IsCall(call'[d])
    BY <1>1, <1>6 DEF CallsTyped
  <2>4. foreground' \in Calls \cup {NoCall}
    BY <1>1
  <2> QED BY <1>1, <2>1, <2>2, <2>3, <2>4 DEF IInv, TypeOK
<1>13. Unborn'
  <2>1. \A id \in DOMAIN pages : lane[id] # NoLane
    BY <1>11 DEF Live
  <2> QED BY <1>1, <1>3, <2>1 DEF IInv, Unborn
<1>14. Budgeted' /\ LanesDistinct'
  BY <1>1, <1>10 DEF IInv, Budgeted, LanesDistinct
<1>15. Owed'
  BY <1>1, <1>3, <1>4, NoneEmpty DEF IInv, Owed, pages
<1>16. Agree'
  <2>1. \A id \in Live : id \in ended' <=> terminal[id]
    BY <1>3, <1>11
  <2> QED BY <1>1, <1>3, <1>10, <1>11, <2>1, NoneEmpty DEF Agree
<1>17. ClosedEmpty'
  BY <1>1, <1>4 DEF ClosedEmpty
<1>18. Cursors'
  <2>1. \A id : Ahead(id) = 0
    BY <1>7 DEF Ahead
  <2> QED BY <1>1, <1>8, <1>10, <2>1 DEF IInv, Cursors
<1>19. ReceiptWaits'
  BY <1>1 DEF ReceiptWaits
<1> QED BY <1>6, <1>8, <1>12, <1>13, <1>14, <1>15, <1>16, <1>17, <1>18, <1>19
      DEF IInv

LEMMA FinishKeeps == ASSUME IInv, NEW id \in Ids, Finish(id) PROVE IInv'
<1>1. /\ foreground = NoCall /\ operation = NoCall /\ ~ closed /\ receipt = NoReceipt
      /\ lane' = [lane EXCEPT ![id] = NoLane]
      /\ tracked' = tracked \ {id} /\ ended' = ended \ {id}
      /\ UNCHANGED <<operation, closed, generated, terminal, cursor, receipt>>
      /\ UNCHANGED <<nextRound, nextSequence, lastRound, call>>
      /\ UNCHANGED <<foreground, delivered, exited>>
  BY DEF Finish, FinishAllowed, idVars
<1>2. \A d \in Calls : ~ Running(d) /\ ~ Running(d)' /\ pc(d) # "ready"
  BY <1>1, NobodyRuns DEF Running, pc
<1>3. /\ Held' /\ Quiet' /\ AddsReserved' /\ RoundsSelected'
      /\ \A i : Ahead(i)' = 0
  BY <1>1, <1>2, Released
<1>4. Live' = Live \ {id} /\ \A i \in Live' : lane'[i] = lane[i]
  BY <1>1 DEF Live, IInv, TypeOK
<1>5. TypeOK' /\ CallsTyped'
  BY <1>1 DEF IInv, TypeOK, CallsTyped
<1>6. Unborn' /\ Budgeted' /\ Owed' /\ ClosedEmpty' /\ LanesDistinct' /\ ReceiptWaits'
  BY <1>1, <1>4
  DEF IInv, TypeOK, Unborn, Budgeted, Owed, ClosedEmpty, LanesDistinct, ReceiptWaits, pc
<1>7. Agree'
  BY <1>1, <1>4, NoneEmpty DEF IInv, Agree
<1>8. Cursors'
  <2>1. \A i : Ahead(i) = 0
    BY <1>2 DEF Ahead
  <2> QED BY <1>1, <1>3, <1>4, <2>1 DEF IInv, Cursors
<1> QED BY <1>3, <1>5, <1>6, <1>7, <1>8 DEF IInv

\* close, however it is reached: nothing is left that could be promised.
LEMMA CloseSessionKeeps ==
  ASSUME IInv, operation = NoCall, foreground = NoCall, CloseSession,
         exited' \in BOOLEAN,
         UNCHANGED <<operation, generated, terminal, cursor, idVars, lastRound,
                     call, foreground, delivered>>
  PROVE  IInv'
<1> USE DEF idVars
<1>1. \A d \in Calls : ~ Running(d)'
  BY NobodyRuns DEF Running, pc
<1>2. /\ Held' /\ Quiet' /\ AddsReserved' /\ RoundsSelected'
  BY <1>1, Released
<1>3. Live' = {}
  BY DEF Live, CloseSession
<1>4. TypeOK' /\ CallsTyped'
  BY DEF IInv, TypeOK, CallsTyped, CloseSession
<1>5. Unborn' /\ Owed' /\ ReceiptWaits'
  BY DEF IInv, Unborn, Owed, ReceiptWaits, CloseSession
<1>6. Budgeted' /\ Agree' /\ ClosedEmpty' /\ Cursors' /\ LanesDistinct'
  BY <1>3, NoneEmpty
  DEF Budgeted, Agree, ClosedEmpty, Cursors, LanesDistinct, CloseSession
<1> QED BY <1>2, <1>4, <1>5, <1>6 DEF IInv

LEMMA CloseKeeps == ASSUME IInv, Close PROVE IInv'
  BY CloseSessionKeeps DEF Close, IInv, TypeOK

\* Neither exited nor a step that changes nothing matters to the invariant.
LEMMA StutterKeeps ==
  ASSUME IInv, UNCHANGED <<sessionVars, call, foreground, tracked, ended, delivered>>,
         exited' \in BOOLEAN
  PROVE  IInv'
<1> USE DEF sessionVars, sequenceVars, idVars
<1>1. Live' = Live
  BY DEF Live
<1>2. \A d \in Calls : /\ Running(d)' <=> Running(d)
                       /\ IsAdd(d)' <=> IsAdd(d)
                       /\ pc(d)' = pc(d)
  BY DEF Running, pc, IsAdd
<1>3. TypeOK' /\ CallsTyped'
  BY DEF IInv, TypeOK, CallsTyped
<1>4. Held' /\ Quiet' /\ AddsReserved' /\ RoundsSelected'
  BY <1>1, <1>2
  DEF IInv, Held, Quiet, AddsReserved, RoundsSelected, Reserved, Selected
<1>5. Unborn' /\ Budgeted' /\ Owed' /\ Agree' /\ ClosedEmpty' /\ LanesDistinct'
  BY <1>1 DEF IInv, Unborn, Budgeted, Owed, Agree, ClosedEmpty, LanesDistinct
<1>6. Cursors'
  <2>1. \A id : Ahead(id)' = Ahead(id)
    BY <1>2 DEF Ahead
  <2> QED BY <1>1, <2>1 DEF IInv, Cursors
<1>7. ReceiptWaits'
  BY DEF IInv, ReceiptWaits, pc
<1> QED BY <1>3, <1>4, <1>5, <1>6, <1>7 DEF IInv

LEMMA ExitKeeps == ASSUME IInv, Exit PROVE IInv'
<1>1. /\ foreground = NoCall /\ exited' \in BOOLEAN
      /\ UNCHANGED <<operation, generated, terminal, cursor, idVars, lastRound,
                     call, foreground, delivered>>
  BY DEF Exit
<1>2. CASE operation = NoCall
  BY <1>1, <1>2, CloseSessionKeeps DEF Exit
<1>3. CASE operation # NoCall
  <2>1. UNCHANGED <<closed, lane, receipt, tracked, ended>>
    BY <1>3 DEF Exit
  <2> QED BY <1>1, <2>1, StutterKeeps DEF sessionVars, sequenceVars, idVars
<1> QED BY <1>2, <1>3

-----------------------------------------------------------------------------
(* The invariant.                                                          *)

LEMMA InitKeeps == Init => IInv
<1> SUFFICES ASSUME Init PROVE IInv
  OBVIOUS
<1> USE DEF Init
<1>1. Live = {}
  BY DEF Live
<1>2. \A c \in Calls : ~ Running(c) /\ IsCall(call[c])
  BY IdleTyped DEF Running, pc, Idle
<1>3. TypeOK /\ CallsTyped
  <2>1. nextRound \in 0 .. MaxRounds /\ nextSequence \in 0 .. MaxSequences
    BY GenerationConstants
  <2>2. lastRound \in -1 .. (MaxRounds - 1)
    BY GenerationConstants
  <2>3. generated \in [Ids -> 0 .. Budget] /\ cursor \in [Ids -> Nat]
    BY GenerationConstants
  <2>4. call = [c \in Calls |-> call[c]]
    OBVIOUS
  <2> QED BY <1>2, <2>1, <2>2, <2>3, <2>4 DEF TypeOK, CallsTyped
<1>4. Held /\ Quiet /\ AddsReserved /\ RoundsSelected
  BY <1>2, GenerationConstants DEF Held, Quiet, AddsReserved, RoundsSelected
<1>5. Unborn /\ Owed /\ ReceiptWaits
  BY NoneEmpty DEF Unborn, Owed, ReceiptWaits
<1>6. Budgeted /\ Agree /\ ClosedEmpty /\ Cursors /\ LanesDistinct
  BY <1>1, NoneEmpty DEF Budgeted, Agree, ClosedEmpty, Cursors, LanesDistinct
<1> QED BY <1>3, <1>4, <1>5, <1>6 DEF IInv

LEMMA NextKeeps == IInv /\ [Next]_vars => IInv'
<1> SUFFICES ASSUME IInv, [Next]_vars PROVE IInv'
  OBVIOUS
<1>1. CASE UNCHANGED vars
  BY <1>1, StutterKeeps DEF vars, clientVars, IInv, TypeOK
<1>2. ASSUME NEW c \in Calls,
             \/ Add(c) \/ Step(c) \/ Accept(c) \/ Fault(c) \/ Interrupt(c)
             \/ Discard(c)
      PROVE  IInv'
  BY <1>2, AddKeeps, StepKeeps, AcceptKeeps, FaultKeeps, InterruptKeeps, DiscardKeeps
<1>3. ASSUME NEW c \in Calls, Native(c) PROVE IInv'
  BY <1>3, ExecuteKeeps, CommitKeeps, FailKeeps, PublishAddKeeps, PublishRoundKeeps
  DEF Native
<1>4. ASSUME NEW c \in Calls, Lock(c) PROVE IInv'
  BY <1>4, RefuseKeeps, RecoverKeeps, AdmitKeeps DEF Lock
<1>5. ASSUME NEW id \in Ids, Finish(id) PROVE IInv'
  BY <1>5, FinishKeeps
<1>6. CASE Close \/ Exit
  BY <1>6, CloseKeeps, ExitKeeps
<1> QED BY <1>1, <1>2, <1>3, <1>4, <1>5, <1>6 DEF Next

LEMMA Inductive == Spec => []IInv
  BY InitKeeps, NextKeeps, PTL DEF Spec

-----------------------------------------------------------------------------
(* What follows from it.                                                   *)

\* The session's state is well typed: a sequence never samples past its budget
\* (PageLimit) and no identifier is allocated past u64::MAX (reserve_ids).
THEOREM TypeCorrect == Spec => []TypeOK
<1>1. IInv => TypeOK
  BY DEF IInv
<1> QED BY <1>1, Inductive, PTL

\* The client never acknowledges a receipt that is not the pending one, however
\* many calls it abandoned before (acknowledge in withRuntime).
THEOREM ReceiptNeverRefused == Spec => []ReceiptWaits
<1>1. IInv => ReceiptWaits
  BY DEF IInv
<1> QED BY <1>1, Inductive, PTL

\* No token is lost, delivered twice or out of order: what is generated is
\* delivered, or waits in the receipt (run_round, acknowledge).
THEOREM TokensDurable == Spec => []Durable
<1>1. IInv => Durable
  BY NoneEmpty DEF IInv, Owed, Durable, Live
<1> QED BY <1>1, Inductive, PTL

\* The live array of openGeneration and the native sequences agree whenever no
\* receipt is pending.
THEOREM CopiesAgree == Spec => []SessionsAgree
<1>1. IInv => SessionsAgree
  BY NoneEmpty DEF IInv, Agree, SessionsAgree
<1> QED BY <1>1, Inductive, PTL

\* Lanes are never shared, although add chooses them before its prefill and
\* installs them after it.
THEOREM LanesNeverShared == Spec => []LanesDistinct
<1>1. IInv => LanesDistinct
  BY DEF IInv
<1> QED BY <1>1, Inductive, PTL

\* run_round finds the sequences it selected still live when it publishes.
THEOREM SelectionHolds == Spec => []SelectedLive
<1>1. IInv => SelectedLive
  BY DEF IInv, RoundsSelected, Selected, SelectedLive
<1> QED BY <1>1, Inductive, PTL

\* The KV state of a sequence is one token behind what it generated unless a
\* round is between its commit and its receipt: a failed round leaves no trace.
THEOREM CursorsHold == Spec => []CursorMatches
<1>1. ASSUME IInv PROVE CursorMatches
  <2> SUFFICES ASSUME NEW id \in Live,
                      \A c \in Calls : pc(c) = "ready" => id \notin call[c].request.of
               PROVE  cursor[id] = generated[id] - 1
    BY DEF CursorMatches
  <2>1. Ahead(id) = 0
    BY DEF Ahead
  <2>2. generated[id] \in Nat
    BY <1>1, GenerationConstants DEF IInv, TypeOK, Live
  <2> QED BY <1>1, <2>1, <2>2 DEF IInv, Cursors
<1> QED BY <1>1, Inductive, PTL

-----------------------------------------------------------------------------
(* The session implements the token stream.                                *)

LEMMA StreamInit == Init => Stream!Init
  BY DEF Init, Stream!Init, Live

\* A step that leaves the lanes, the counters and closed alone is no step of
\* the stream.
LEMMA Quietly ==
  ASSUME UNCHANGED <<lane, generated, delivered, closed>>
  PROVE  UNCHANGED Stream!vars
  BY DEF Stream!vars, Live

\* With no receipt pending the client has every token.
LEMMA AllDelivered ==
  ASSUME IInv, ~ closed, receipt = NoReceipt
  PROVE  generated = delivered
<1>1. \A id \in Ids : delivered[id] = generated[id]
  BY NoneEmpty DEF IInv, Owed
<1> QED BY <1>1 DEF IInv, TypeOK

LEMMA AcceptStreams ==
  ASSUME IInv, NEW c \in Calls, Accept(c)
  PROVE  [Stream!Next]_(Stream!vars)
<1>1. /\ foreground = c /\ pc(c) = "resolved" /\ receipt # NoReceipt
      /\ UNCHANGED <<closed, lane, generated>>
  BY DEF Accept, Acknowledged, sequenceVars
<1>2. receipt = call[c].result /\ ~ closed
  BY <1>1, GenerationConstants DEF IInv, ReceiptWaits, ClosedEmpty
<1>3. delivered' = [id \in Ids |-> IF id \in DOMAIN receipt.pages
                                     THEN receipt.pages[id].last
                                     ELSE delivered[id]]
  BY <1>2 DEF Accept
<1>4. delivered' = generated
  <2>1. \A id \in Ids : delivered'[id] = generated[id]
    BY <1>2, <1>3 DEF IInv, Owed
  <2> QED BY <1>3, <2>1 DEF IInv, TypeOK
<1>5. Live' = Live
  BY <1>1 DEF Live
<1>6. CASE generated = delivered
  BY <1>1, <1>4, <1>6, Quietly
<1>7. CASE generated # delivered
  BY <1>1, <1>2, <1>4, <1>5, <1>7 DEF Stream!Next, Stream!Deliver
<1> QED BY <1>6, <1>7

LEMMA PublishAddStreams ==
  ASSUME IInv, IInv', NEW c \in Calls, PublishAdd(c)
  PROVE  [Stream!Next]_(Stream!vars)
<1> DEFINE new == DOMAIN call[c].reserved
<1>1. /\ Running(c) /\ IsAdd(c)
      /\ lane' = [id \in Ids |-> IF id \in new THEN call[c].reserved[id] ELSE lane[id]]
      /\ generated' = [id \in Ids |-> IF id \in new THEN 1 ELSE generated[id]]
      /\ UNCHANGED <<closed, delivered>>
  BY DEF PublishAdd, Running, clientVars
<1>2. /\ ~ closed /\ receipt = NoReceipt /\ Reserved(c) /\ new \subseteq Ids
      /\ \A id \in new : call[c].reserved[id] \in Lanes /\ generated[id] = 0
  BY <1>1 DEF IInv, Quiet, AddsReserved, TypeOK, IsCall, Reserved
<1>3. generated = delivered
  BY <1>2, AllDelivered
<1>4. Live' = Live \cup new
  BY <1>1, <1>2, GenerationConstants DEF Live
<1>5. CASE new = {}
  <2>1. UNCHANGED <<lane, generated>>
    BY <1>1, <1>5 DEF IInv, TypeOK
  <2> QED BY <1>1, <2>1, Quietly
<1>6. CASE new # {}
  <2>1. \A id \in Ids : IF id \in new THEN generated'[id] > generated[id]
                                      ELSE generated'[id] = generated[id]
    BY <1>1, <1>2
  <2>2. generated' \in [Ids -> Nat]
    BY GenerationConstants DEF IInv, TypeOK
  <2>3. Stream!Publish(new)
    BY <1>1, <1>2, <1>3, <1>4, <1>6, <2>1, <2>2 DEF Stream!Publish
  <2> QED BY <1>2, <2>3 DEF Stream!Next
<1> QED BY <1>5, <1>6

LEMMA PublishRoundStreams ==
  ASSUME IInv, IInv', NEW c \in Calls, PublishRound(c)
  PROVE  [Stream!Next]_(Stream!vars)
<1> DEFINE S == call[c].request.of
           n == call[c].sampled
<1>1. /\ Running(c) /\ pc(c) = "ready"
      /\ generated' = [id \in Ids |-> IF id \in S THEN generated[id] + n[id]
                                      ELSE generated[id]]
      /\ UNCHANGED <<closed, lane, delivered>>
  BY DEF PublishRound, Running, clientVars
<1>2. ~ closed /\ receipt = NoReceipt /\ Selected(c) /\ IsCall(call[c])
  BY <1>1 DEF IInv, Quiet, RoundsSelected, AddsReserved, Reserved, TypeOK
<1>3. /\ S \subseteq Live /\ S \subseteq Ids
      /\ \A id \in S : n[id] \in Nat \ {0} /\ generated[id] \in Nat
  BY <1>1, <1>2, GenerationConstants DEF Selected, IsCall, Live, IInv, TypeOK
<1>4. generated = delivered
  BY <1>2, AllDelivered
<1>5. Live' = Live
  BY <1>1 DEF Live
<1>6. CASE S = {}
  <2>1. UNCHANGED generated
    BY <1>1, <1>6 DEF IInv, TypeOK
  <2> QED BY <1>1, <2>1, Quietly
<1>7. CASE S # {}
  <2>1. \A id \in Ids : IF id \in S THEN generated'[id] > generated[id]
                                    ELSE generated'[id] = generated[id]
    BY <1>1, <1>3
  <2>2. generated' \in [Ids -> Nat]
    BY GenerationConstants DEF IInv, TypeOK
  <2>3. S \cup Live = Live
    BY <1>3
  <2>4. Stream!Publish(S)
    BY <1>1, <1>2, <1>3, <1>4, <1>5, <1>7, <2>1, <2>2 DEF Stream!Publish
  <2> QED BY <1>3, <2>4 DEF Stream!Next
<1> QED BY <1>6, <1>7

LEMMA FinishStreams ==
  ASSUME IInv, NEW id \in Ids, Finish(id)
  PROVE  [Stream!Next]_(Stream!vars)
<1>1. /\ id \in Live /\ ~ closed /\ receipt = NoReceipt
      /\ lane' = [lane EXCEPT ![id] = NoLane]
      /\ UNCHANGED <<closed, generated, delivered>>
  BY DEF Finish, FinishAllowed
<1>2. generated = delivered
  BY <1>1, AllDelivered
<1>3. Live' = Live \ {id}
  BY <1>1 DEF Live, IInv, TypeOK
<1> QED BY <1>1, <1>2, <1>3 DEF Stream!Next, Stream!Finish

\* The first close closes the stream, a second one changes nothing.
LEMMA CloseStreams ==
  ASSUME IInv, CloseSession, UNCHANGED <<generated, delivered>>
  PROVE  [Stream!Next]_(Stream!vars)
<1>1. Live' = {} /\ closed'
  BY DEF CloseSession, Live
<1>2. CASE closed
  <2>1. Live = {} /\ closed' = closed
    BY <1>2 DEF IInv, ClosedEmpty, CloseSession
  <2> QED BY <1>1, <2>1 DEF Stream!vars
<1>3. CASE ~ closed
  BY <1>1, <1>3 DEF Stream!Next, Stream!Close, CloseSession
<1> QED BY <1>2, <1>3

LEMMA StreamNext ==
  IInv /\ IInv' /\ [Next]_vars => [Stream!Next]_(Stream!vars)
<1> SUFFICES ASSUME IInv, IInv', [Next]_vars PROVE [Stream!Next]_(Stream!vars)
  OBVIOUS
<1> USE DEF sessionVars, sequenceVars, clientVars
<1>1. CASE UNCHANGED vars
  BY <1>1, Quietly DEF vars
<1>2. ASSUME NEW c \in Calls,
             Add(c) \/ Step(c) \/ Fault(c) \/ Interrupt(c) \/ Discard(c)
      PROVE  UNCHANGED Stream!vars
  BY <1>2, Quietly DEF Add, Step, Begin, Fault, Interrupt, Discard
<1>3. ASSUME NEW c \in Calls, Execute(c) \/ Commit(c) \/ Fail(c)
      PROVE  UNCHANGED Stream!vars
  BY <1>3, Quietly DEF Execute, Commit, Fail
<1>4. ASSUME NEW c \in Calls, Lock(c)
      PROVE  UNCHANGED Stream!vars
  BY <1>4, Quietly DEF Lock, Refuse, Recover, Admit, Reserve
<1>5. ASSUME NEW c \in Calls, Accept(c) \/ PublishAdd(c) \/ PublishRound(c)
      PROVE  [Stream!Next]_(Stream!vars)
  BY <1>5, AcceptStreams, PublishAddStreams, PublishRoundStreams
<1>6. ASSUME NEW id \in Ids, Finish(id)
      PROVE  [Stream!Next]_(Stream!vars)
  BY <1>6, FinishStreams
<1>7. CASE Close
  BY <1>7, CloseStreams DEF Close
<1>8. CASE Exit
  <2>1. CASE operation = NoCall
    BY <1>8, <2>1, CloseStreams DEF Exit
  <2>2. CASE operation # NoCall
    BY <1>8, <2>2, Quietly DEF Exit
  <2> QED BY <2>1, <2>2
<1> QED BY <1>1, <1>2, <1>3, <1>4, <1>5, <1>6, <1>7, <1>8 DEF Next, Native

\* The session, its abandoned calls, its receipts and its retries together
\* implement the in-order, exactly-once stream of pages (InferenceRuntime).
THEOREM ImplementsStream == Spec => StreamSpec
<1>1. Spec => [][Stream!Next]_(Stream!vars)
  BY Inductive, StreamNext, PTL DEF Spec
<1> QED BY <1>1, StreamInit, PTL DEF Spec, StreamSpec, Stream!Spec
=============================================================================
