-------------------------- MODULE GenerationSession --------------------------
(***************************************************************************)
(* One sampled-generation session: the TypeScript Generation (openGeneration*)
(* in packages/core/src/AutoRegressive.ts), the CPU adapter's cancellable  *)
(* calls (packages/backend-cpu/src/internal/adapter.ts), and the native    *)
(* NativeInferenceSession (crates/runtime-cpu/src/napi/mod.rs).            *)
(*                                                                         *)
(* JavaScript runs one step at a time.  A native add or run_round is a     *)
(* call that waits for the session's operation mutex, runs on Tokio and    *)
(* settles a promise; when the fiber awaiting it is interrupted, the call  *)
(* runs on without an owner.  A committed call leaves a receipt that only  *)
(* an acknowledge, or close, removes.                                      *)
(*                                                                         *)
(* A token is its position in its sequence, an executable's commit is one  *)
(* step, and a prompt stands for a whole AddRequestIdentity.               *)
(***************************************************************************)
EXTENDS Integers, FiniteSets

CONSTANTS
  Calls,          \* native calls in flight at one time
  NoCall,
  Prompt,         \* admission requests the client may make
  Lanes,          \* 0 .. batch_size - 1
  NoLane,
  Budget,         \* maxTokens of every sequence
  MaxPage,        \* tokens of one page: max_draft_tokens + 1
  PrefillStages,  \* prefill executions of an admission
  DraftStages,    \* pending executions before a round's commit
  MaxSequences,   \* stands for u64::MAX sequence ids
  MaxRounds       \* stands for u64::MAX round ids

Ids == 0 .. (MaxSequences - 1)
Page == [first : Nat, last : Nat, stop : BOOLEAN]
AddRequest == [op : {"add"}, of : SUBSET Prompt]
RoundRequest == [op : {"round"}, of : SUBSET Ids]
Request == AddRequest \cup RoundRequest
None == [id \in {} |-> 0]
NoReceipt == [round |-> -1, request |-> [op |-> "round", of |-> {}],
              pages |-> None]
IsReceipt(r) ==
  /\ r = [round |-> r.round, request |-> r.request, pages |-> r.pages]
  /\ r.round \in Nat /\ r.request \in Request
  /\ DOMAIN r.pages \subseteq Ids /\ r.pages \in [DOMAIN r.pages -> Page]

ASSUME GenerationConstants ==
  /\ IsFiniteSet(Prompt) /\ IsFiniteSet(Lanes)
  /\ NoCall \notin Calls /\ NoLane \notin Lanes
  /\ Budget \in Nat \ {0} /\ MaxPage \in Nat \ {0}
  /\ PrefillStages \in Nat \ {0} /\ DraftStages \in Nat
  /\ MaxSequences \in Nat /\ MaxRounds \in Nat

VARIABLES
  \* NativeInferenceSession; a sequence is live while it has a lane
  operation,   \* call that holds the operation mutex
  closed,
  lane,
  generated,   \* tokens sampled (InferenceSequenceState.generated)
  terminal,
  cursor,      \* generated tokens whose rows are in the KV state
  receipt,
  nextRound, nextSequence,   \* InferenceIds
  lastRound,   \* diagnostics.last_round_id, -1 for None
  call,        \* native calls in flight
  \* the Generation and its client
  foreground,  \* call the fiber holding roundLock awaits
  tracked,     \* sequences of the live array
  ended,       \* those whose entry.terminal is set
  delivered,   \* ghost: tokens the client was given
  exited       \* has the client's scope run its close finalizer?

sequenceVars == <<lane, generated, terminal, cursor>>
idVars       == <<nextRound, nextSequence>>
clientVars   == <<foreground, tracked, ended, delivered, exited>>
sessionVars  == <<operation, closed, sequenceVars, receipt, idVars, lastRound>>
vars == <<sessionVars, call, clientVars>>

\* A call: its phase is CancellationState.phase of its token, stage counts the
\* executions done, round is its reserved id, reserved the lanes chosen for an
\* admission, sampled the tokens of a round, result what it resolves with.
Idle == [pc |-> "idle", request |-> NoReceipt.request, phase |-> "inflight",
         stage |-> 0, round |-> 0, reserved |-> None, sampled |-> None,
         result |-> NoReceipt]
pc(c) == call[c].pc

Live == {id \in Ids : lane[id] # NoLane}
\* Plausible bug, for mutation runs: lanes of terminal sequences are reused.
FreeLanesTerminal == Lanes \ {lane[id] : id \in {i \in Live : ~ terminal[i]}}
FreeLanes == Lanes \ {lane[id] : id \in Live}
NewIds(n) == nextSequence .. (nextSequence + n - 1)
Running(c) == pc(c) \in {"running", "ready"}
IsAdd(c) == call[c].request.op = "add"

Init ==
  /\ operation = NoCall /\ closed = FALSE
  /\ lane = [id \in Ids |-> NoLane]
  /\ generated = [id \in Ids |-> 0]
  /\ terminal = [id \in Ids |-> FALSE]
  /\ cursor = [id \in Ids |-> 0]
  /\ receipt = NoReceipt
  /\ nextRound = 0 /\ nextSequence = 0 /\ lastRound = -1
  /\ call = [c \in Calls |-> Idle]
  /\ foreground = NoCall
  /\ tracked = {} /\ ended = {}
  /\ delivered = [id \in Ids |-> 0]
  /\ exited = FALSE

-----------------------------------------------------------------------------
(* The client: add and step of the Generation, under roundLock.            *)

\* The fiber takes roundLock and calls the addon with a fresh token.
Begin(c, req) ==
  /\ foreground = NoCall /\ ~ exited
  /\ pc(c) = "idle"
  /\ foreground' = c
  /\ call' = [call EXCEPT ![c] = [Idle EXCEPT !.pc = "queued", !.request = req]]
  /\ UNCHANGED <<sessionVars, tracked, ended, delivered, exited>>

Add(c) ==
  \E P \in SUBSET Prompt \ {{}} :
    /\ Cardinality(tracked) + Cardinality(P) <= Cardinality(Lanes)
    /\ Begin(c, [op |-> "add", of |-> P])

Step(c) ==
  \E S \in SUBSET (tracked \ ended) \ {{}} :
    Begin(c, [op |-> "round", of |-> S])

\* acknowledge removes the pending receipt of the same round only.
Acknowledged(c) ==
  /\ pc(c) = "resolved"
  /\ receipt # NoReceipt
  /\ receipt.round = call[c].result.round

\* The fiber resumes with the pages, acknowledges them and hands them over.
Accept(c) ==
  LET pages == call[c].result.pages
  IN  /\ foreground = c /\ Acknowledged(c)
      /\ receipt' = NoReceipt
      /\ foreground' = NoCall
      /\ call' = [call EXCEPT ![c] = Idle]
      /\ tracked' = tracked \cup DOMAIN pages
      /\ ended' = (ended \ DOMAIN pages)
                    \cup {id \in DOMAIN pages : pages[id].stop}
      /\ delivered' = [id \in Ids |-> IF id \in DOMAIN pages
                                        THEN pages[id].last
                                        ELSE delivered[id]]
      /\ UNCHANGED <<operation, closed, sequenceVars, idVars, lastRound, exited>>

\* The fiber resumes with an error.
Fault(c) ==
  /\ foreground = c
  /\ pc(c) \in {"failed", "resolved"} /\ ~ Acknowledged(c)
  /\ foreground' = NoCall
  /\ call' = [call EXCEPT ![c] = Idle]
  /\ UNCHANGED <<sessionVars, tracked, ended, delivered, exited>>

\* The fiber is interrupted: its token is cancelled unless it completed first,
\* roundLock is released, and nobody awaits the call any more.
Interrupt(c) ==
  /\ foreground = c
  /\ call' = [call EXCEPT ![c].phase =
                IF @ = "inflight" THEN "cancelled" ELSE @]
  /\ foreground' = NoCall
  /\ UNCHANGED <<sessionVars, tracked, ended, delivered, exited>>

\* Plausible bug, for mutation runs: dropping a late value acknowledges it.
DiscardAcknowledged(c) ==
  /\ foreground # c
  /\ pc(c) \in {"resolved", "failed"}
  /\ call' = [call EXCEPT ![c] = Idle]
  /\ receipt' = IF Acknowledged(c) THEN NoReceipt ELSE receipt
  /\ UNCHANGED <<operation, closed, sequenceVars, idVars, lastRound, clientVars>>

\* An abandoned call settles; its late value is dropped.
Discard(c) ==
  /\ foreground # c
  /\ pc(c) \in {"resolved", "failed"}
  /\ call' = [call EXCEPT ![c] = Idle]
  /\ UNCHANGED <<sessionVars, clientVars>>

\* Plausible bug, for mutation runs: finish does not take the operation mutex.
FinishUnlocked == ~ closed /\ receipt = NoReceipt

\* finish fails, changing nothing, while a call is active or a receipt pending.
FinishAllowed == operation = NoCall /\ ~ closed /\ receipt = NoReceipt

Finish(id) ==
  /\ foreground = NoCall /\ ~ exited
  /\ id \in tracked /\ id \in Live
  /\ FinishAllowed
  /\ lane' = [lane EXCEPT ![id] = NoLane]
  /\ tracked' = tracked \ {id}
  /\ ended' = ended \ {id}
  /\ UNCHANGED <<operation, closed, generated, terminal, cursor, receipt,
                 idVars, lastRound, call, foreground, delivered, exited>>

CloseSession ==
  /\ closed' = TRUE
  /\ lane' = [id \in Ids |-> NoLane]
  /\ receipt' = NoReceipt
  /\ tracked' = {} /\ ended' = {}

\* close succeeds unless an operation is active.
Close ==
  /\ foreground = NoCall /\ ~ exited /\ ~ closed
  /\ operation = NoCall
  /\ CloseSession
  /\ UNCHANGED <<operation, generated, terminal, cursor, idVars, lastRound,
                 call, foreground, delivered, exited>>

\* The finalizer of the client's scope (generate, Chat) calls close once; if
\* close fails the error becomes a defect or is ignored.
Exit ==
  /\ foreground = NoCall /\ ~ exited
  /\ exited' = TRUE
  /\ IF operation = NoCall
       THEN CloseSession
       ELSE UNCHANGED <<closed, lane, receipt, tracked, ended>>
  /\ UNCHANGED <<operation, generated, terminal, cursor, idVars, lastRound,
                 call, foreground, delivered>>

-----------------------------------------------------------------------------
(* Native add and run_round.                                               *)

\* Plausible bug, for mutation runs: sequence ids are not bounded.
RefusedUnbounded(c) ==
  \/ closed
  \/ ~ IsAdd(c) /\ ~ call[c].request.of \subseteq Live
  \/ receipt # NoReceipt /\ receipt.request # call[c].request
  \/ /\ receipt = NoReceipt
     /\ \/ nextRound >= MaxRounds
        \/ IsAdd(c) /\ Cardinality(FreeLanes) < Cardinality(call[c].request.of)
        \/ ~ IsAdd(c) /\ \E id \in call[c].request.of : terminal[id]

\* Checks made under the operation mutex before any work.
Refused(c) ==
  \/ closed
  \/ ~ IsAdd(c) /\ ~ call[c].request.of \subseteq Live
  \/ receipt # NoReceipt /\ receipt.request # call[c].request
  \/ /\ receipt = NoReceipt
     /\ \/ nextRound >= MaxRounds
        \/ /\ IsAdd(c)
           /\ \/ Cardinality(FreeLanes) < Cardinality(call[c].request.of)
              \/ nextSequence + Cardinality(call[c].request.of) > MaxSequences
        \/ ~ IsAdd(c) /\ \E id \in call[c].request.of : terminal[id]

\* A call that settles; its registers and its token no longer matter.
Settled(how, r) ==
  [Idle EXCEPT !.pc = how, !.phase = "completed", !.result = r]

Refuse(c) ==
  /\ pc(c) = "queued" /\ operation = NoCall
  /\ Refused(c)
  /\ call' = [call EXCEPT ![c] = Settled("failed", NoReceipt)]
  /\ UNCHANGED <<sessionVars, clientVars>>

\* Plausible bug, for mutation runs: the receipt is taken, not cloned.
RecoverTaken(c) ==
  /\ pc(c) = "queued" /\ operation = NoCall
  /\ ~ Refused(c) /\ receipt # NoReceipt
  /\ receipt' = NoReceipt
  /\ call' = [call EXCEPT ![c] = Settled("resolved", receipt)]
  /\ UNCHANGED <<operation, closed, sequenceVars, idVars, lastRound, clientVars>>

\* A retry of the request whose receipt is pending gets that receipt.
Recover(c) ==
  /\ pc(c) = "queued" /\ operation = NoCall
  /\ ~ Refused(c) /\ receipt # NoReceipt
  /\ call' = [call EXCEPT ![c] = Settled("resolved", receipt)]
  /\ UNCHANGED <<sessionVars, clientVars>>

\* reserve_ids, and for an admission the choice of free lanes.
Reserve(c) ==
  /\ operation' = c
  /\ nextRound' = nextRound + 1
  /\ IF IsAdd(c)
       THEN LET n == Cardinality(call[c].request.of)
            IN  /\ nextSequence' = nextSequence + n
                /\ \E f \in [NewIds(n) -> FreeLanes] :
                     /\ \A i, j \in NewIds(n) : f[i] = f[j] => i = j
                     /\ call' = [call EXCEPT ![c].pc = "running",
                                   ![c].round = nextRound, ![c].reserved = f]
       ELSE /\ call' = [call EXCEPT ![c].pc = "running", ![c].round = nextRound]
            /\ UNCHANGED nextSequence
  /\ UNCHANGED <<closed, sequenceVars, receipt, lastRound, clientVars>>

Admit(c) ==
  /\ pc(c) = "queued" /\ operation = NoCall
  /\ ~ Refused(c) /\ receipt = NoReceipt
  /\ Reserve(c)

\* Executions a call makes before the step that publishes it.
Stages(c) == IF IsAdd(c) THEN PrefillStages ELSE DraftStages

\* One execution of a prefill or draft.  When it goes through execute_stateful
\* (every prefill, ParallelBlock drafts) its commit asks the token to complete
\* (commit_allowed), although the call has more to do; the drafts of an
\* autoregressive proposer leave the token alone.
Execute(c) ==
  /\ pc(c) = "running" /\ call[c].stage < Stages(c)
  /\ call[c].phase # "cancelled"
  /\ \E phase \in IF IsAdd(c) THEN {"completed"}
                    ELSE {"completed", call[c].phase} :
       call' = [call EXCEPT ![c].phase = phase, ![c].stage = @ + 1]
  /\ UNCHANGED <<sessionVars, clientVars>>

Least(a, b) == IF a <= b THEN a ELSE b
PageLimit(id) ==
  Least(MaxPage, IF generated[id] < Budget THEN Budget - generated[id] ELSE 1)

\* The commit of a round: the sampled pages are in the KV state.
Commit(c) ==
  LET S == call[c].request.of
  IN  /\ pc(c) = "running" /\ ~ IsAdd(c) /\ call[c].stage = Stages(c)
      /\ call[c].phase # "cancelled"
      /\ \E n \in [S -> 1 .. MaxPage] :
           /\ \A id \in S : n[id] <= PageLimit(id)
           /\ call' = [call EXCEPT ![c].phase = "completed",
                                  ![c].pc = "ready", ![c].sampled = n]
           /\ cursor' = [id \in Ids |-> IF id \in S THEN cursor[id] + n[id]
                                        ELSE cursor[id]]
      /\ UNCHANGED <<operation, closed, lane, generated, terminal, receipt,
                     idVars, lastRound, clientVars>>

\* Plausible bugs, for mutation runs: the operation stays held; cancellation is
\* reported for a round that has committed.
ReleaseNever == UNCHANGED operation
Release == operation' = NoCall
FailLate(c) ==
  /\ Running(c)
  /\ call' = [call EXCEPT ![c] = Settled("failed", NoReceipt)]
  /\ Release
  /\ UNCHANGED <<closed, sequenceVars, receipt, idVars, lastRound, clientVars>>

\* Any failure before the commit: cancellation, an exhausted pool, a kernel
\* error.  Nothing the session holds has changed.
Fail(c) ==
  /\ pc(c) = "running"
  /\ call' = [call EXCEPT ![c] = Settled("failed", NoReceipt)]
  /\ Release
  /\ UNCHANGED <<closed, sequenceVars, receipt, idVars, lastRound, clientVars>>

\* publish_receipt
Publish(c, pages) ==
  LET r == [round |-> call[c].round, request |-> call[c].request, pages |-> pages]
  IN  /\ receipt' = r
      /\ lastRound' = r.round
      /\ Release
      /\ call' = [call EXCEPT ![c] = Settled("resolved", r)]

\* The end of add: the sequences enter the session with their first token.
PublishAdd(c) ==
  LET lanes == call[c].reserved
      new == DOMAIN lanes
  IN  /\ pc(c) = "running" /\ IsAdd(c) /\ call[c].stage = Stages(c)
      /\ call[c].phase # "cancelled"
      /\ \E eos \in SUBSET new :
           LET stops == IF Budget = 1 THEN new ELSE eos
           IN  /\ terminal' = [id \in Ids |-> IF id \in new THEN id \in stops
                                               ELSE terminal[id]]
               /\ Publish(c, [id \in new |->
                     [first |-> 1, last |-> 1, stop |-> id \in stops]])
      /\ lane' = [id \in Ids |-> IF id \in new THEN lanes[id] ELSE lane[id]]
      /\ generated' = [id \in Ids |-> IF id \in new THEN 1 ELSE generated[id]]
      /\ UNCHANGED <<closed, cursor, idVars, clientVars>>

\* The end of run_round.
PublishRound(c) ==
  LET S == call[c].request.of
      n == call[c].sampled
  IN  /\ pc(c) = "ready"
      /\ \E eos \in SUBSET S :
           LET stops == eos \cup {id \in S : generated[id] + n[id] >= Budget}
           IN  /\ terminal' = [id \in Ids |-> IF id \in S THEN id \in stops
                                               ELSE terminal[id]]
               /\ Publish(c, [id \in S |->
                     [first |-> generated[id] + 1,
                      last |-> generated[id] + n[id],
                      stop |-> id \in stops]])
      /\ generated' = [id \in Ids |-> IF id \in S THEN generated[id] + n[id]
                                        ELSE generated[id]]
      /\ UNCHANGED <<closed, lane, cursor, idVars, clientVars>>

-----------------------------------------------------------------------------
Native(c) ==
  \/ Execute(c) \/ Commit(c) \/ Fail(c) \/ PublishAdd(c) \/ PublishRound(c)
Lock(c) == Refuse(c) \/ Recover(c) \/ Admit(c)

Next ==
  \/ \E c \in Calls :
       \/ Add(c) \/ Step(c) \/ Accept(c) \/ Fault(c) \/ Interrupt(c)
       \/ Discard(c) \/ Native(c) \/ Lock(c)
  \/ \E id \in Ids : Finish(id)
  \/ Close \/ Exit

Spec == Init /\ [][Next]_vars

\* Workers make progress, and Tokio's mutex is first come, first served.
FairSpec ==
  /\ Spec
  /\ \A c \in Calls : WF_vars(Native(c)) /\ SF_vars(Lock(c))

-----------------------------------------------------------------------------
(* Properties.                                                             *)

IsCall(k) ==
  /\ k = [pc |-> k.pc, request |-> k.request, phase |-> k.phase,
           stage |-> k.stage, round |-> k.round, reserved |-> k.reserved,
           sampled |-> k.sampled, result |-> k.result]
  /\ k.pc \in {"idle", "queued", "running", "ready", "resolved", "failed"}
  /\ k.phase \in {"inflight", "cancelled", "completed"}
  /\ k.request \in Request /\ k.stage \in Nat /\ k.round \in Nat
  /\ DOMAIN k.reserved \subseteq Ids /\ DOMAIN k.sampled \subseteq Ids
  /\ k.reserved \in [DOMAIN k.reserved -> Lanes]
  /\ k.sampled \in [DOMAIN k.sampled -> 1 .. MaxPage]
  /\ k.result = NoReceipt \/ IsReceipt(k.result)

TypeOK ==
  /\ operation \in Calls \cup {NoCall} /\ closed \in BOOLEAN
  /\ lane \in [Ids -> Lanes \cup {NoLane}]
  /\ generated \in [Ids -> 0 .. Budget] /\ cursor \in [Ids -> Nat]
  /\ terminal \in [Ids -> BOOLEAN]
  /\ receipt = NoReceipt \/ IsReceipt(receipt)
  /\ nextRound \in 0 .. MaxRounds /\ nextSequence \in 0 .. MaxSequences
  /\ lastRound \in -1 .. (MaxRounds - 1)
  /\ \A c \in Calls : IsCall(call[c])
  /\ foreground \in Calls \cup {NoCall}
  /\ tracked \subseteq Ids /\ ended \subseteq Ids
  /\ delivered \in [Ids -> Nat] /\ exited \in BOOLEAN

\* The pages the client is about to acknowledge are those of the pending
\* receipt: acknowledge is never refused, whatever abandoned calls do.
ReceiptWaits ==
  foreground # NoCall /\ pc(foreground) = "resolved" =>
    receipt # NoReceipt /\ receipt = call[foreground].result

\* Every token a sequence generated has been delivered, or is in the pending
\* receipt directly after the delivered ones: interruptions, late results and
\* retries lose, repeat and reorder nothing.
Durable ==
  ~ closed =>
    \A id \in Live :
      IF receipt # NoReceipt /\ id \in DOMAIN receipt.pages
        THEN /\ receipt.pages[id].first = delivered[id] + 1
             /\ receipt.pages[id].last = generated[id]
        ELSE delivered[id] = generated[id]

\* With no receipt pending, the TypeScript live array holds the native
\* sequences and knows which of them are terminal.
SessionsAgree ==
  receipt = NoReceipt /\ ~ closed =>
    /\ tracked = Live
    /\ \A id \in Live : terminal[id] <=> id \in ended

\* No two sequences run in one lane of the batch, although add chooses lanes
\* long before it installs them.
LanesDistinct ==
  \A i, j \in Live : lane[i] = lane[j] => i = j

\* run_round's "selected sequence remained live": what it selected before its
\* execution is still there when it publishes.
SelectedLive ==
  \A c \in Calls : Running(c) /\ ~ IsAdd(c) => call[c].request.of \subseteq Live

\* Outside a round's last steps a sequence's KV state holds every token it
\* generated but the pending one: a failed round leaves no trace.
CursorMatches ==
  \A id \in Live :
    (\A c \in Calls : pc(c) = "ready" => id \notin call[c].request.of)
      => cursor[id] = generated[id] - 1

\* The session implements the token stream.
Stream == INSTANCE TokenStream WITH
  open <- Live, emitted <- generated, delivered <- delivered, closed <- closed
StreamSpec == Stream!Spec

\* A call that waits for the session is answered.
Settles ==
  \A c \in Calls :
    pc(c) = "queued" ~> pc(c) \in {"resolved", "failed", "idle"}

\* AutoRegressive.ts:367-368 (generate): "the session is closed on completion,
\* failure, callback failure, or interruption."
ClosedOnExit == exited => closed
=============================================================================
