--------------------------- MODULE SpeculativeRound ---------------------------
(***************************************************************************)
(* Speculative rounds of the CPU runtime (runtime-cpu/src/napi/mod.rs):    *)
(* execute_speculative_detailed ("exact", an autoregressive proposer),     *)
(* execute_history_lookup_detailed ("history", no proposer state) and      *)
(* execute_parallel_block_detailed ("parallel", a block proposer whose     *)
(* state is replayed from the verifier's outputs).                         *)
(*                                                                         *)
(* A round copies the block tables of its sequences into shadows, drafts   *)
(* and verifies on the shadows, cuts them at the tokens it emits, settles  *)
(* the race with the caller's cancellation, and then puts the shadows in   *)
(* the place of the canonical states.  Target and proposer lease blocks    *)
(* from two pools, which other sequences use at the same time.             *)
(*                                                                         *)
(* KvPool models the pool and one execution in detail; here an execution   *)
(* is one step per lane, and a block on the free list or in the LRU is     *)
(* chosen by its number.  Sequences of a session are not forked, so a      *)
(* partial tail is only shared by a canonical state and its own shadows    *)
(* (transaction_tail) and is written in place.                             *)
(***************************************************************************)
EXTENDS Integers, Sequences, FiniteSets, SequencesExt

CONSTANTS
  Lanes,        \* sequences of the session or of the call
  Blocks,       \* block ids of each pool
  BlockSize,    \* PoolInner.block_size
  MaxTokens,    \* PoolInner.max_tokens
  Window,       \* per pool: retention of all its layers, 0 for none
  MaxDraft,     \* max_draft_tokens of the artifact
  TrainedRows,  \* schema.trained_max_rows of a parallel block
  Kinds,        \* proposers explored
  Prompts,      \* bound: prompt lengths admitted
  MaxCursor     \* bound: no round starts beyond it

Pools == {"target", "proposer"}

ASSUME SpeculativeConstants ==
  /\ Lanes \subseteq Nat /\ IsFiniteSet(Lanes)
  /\ Blocks = 1 .. MaxTokens \div BlockSize
  /\ BlockSize \in Nat \ {0} /\ MaxTokens \in Nat /\ MaxTokens % BlockSize = 0
  /\ Window \in [Pools -> Nat]
  /\ MaxDraft \in Nat \ {0} /\ TrainedRows \in Nat /\ TrainedRows >= MaxDraft
  /\ Kinds \subseteq {"exact", "history", "parallel"}
  /\ Prompts \subseteq 1 .. MaxTokens /\ MaxCursor \in Nat

VARIABLES
  \* BlockStore of each pool
  free,      \* the free list
  refcounts,
  hashed,    \* blocks that carry a prefix hash
  rows,      \* ghost: what the rows of a block were computed from
  \* block tables: SeqState.blocks, head and cursor
  canonical, \* of the sequences
  shadow,    \* clone_speculative_state of the canonical states
  drafted,   \* the second copy a parallel block drafts on
  old,       \* replaced tables, still to be unreferenced
  \* the call
  kind,      \* which of the three functions the artifact uses
  pc,
  todo,      \* lanes the current stage has still to do
  batch,     \* lanes of the round
  draft,     \* draft_lengths
  page,      \* lengths of pages; chosen when the round starts (a prophecy)
  step,      \* position in the draft loop of "exact"
  noted,     \* blocks whose hashes await publication
  token,     \* CancellationState.phase of the call
  released   \* NativeKvSequence.released of a lane

storeVars == <<free, refcounts, hashed>>
tableVars == <<canonical, shadow, drafted, old>>
callVars  == <<batch, draft, page, step>>
vars == <<storeVars, rows, tableVars, kind, pc, todo, callVars, noted,
          token, released>>

Larger(a, b) == IF a >= b THEN a ELSE b
Smaller(a, b) == IF a <= b THEN a ELSE b
BlocksFor(n) == (n + BlockSize - 1) \div BlockSize

NoTable == [blocks |-> <<>>, head |-> 0, cursor |-> 0]
NoTables == [p \in Pools |-> [l \in Lanes |-> NoTable]]

Stale == <<>>
\* The row of a lane's token at a position, or of a candidate not emitted there.
Row(l, i, emitted) == <<l, i, emitted>>
Blank(content) == [offset \in 0 .. BlockSize - 1 |-> content]

PoolsOf(k) == IF k = "history" THEN {"target"} ELSE Pools

Init ==
  /\ free = [p \in Pools |-> Blocks]
  /\ refcounts = [p \in Pools |-> [b \in Blocks |-> 0]]
  /\ hashed = [p \in Pools |-> {}]
  /\ rows = [p \in Pools |-> [b \in Blocks |-> Blank(Stale)]]
  /\ canonical = NoTables /\ shadow = NoTables
  /\ drafted = [l \in Lanes |-> NoTable] /\ old = NoTables
  /\ kind \in Kinds
  /\ pc = "idle" /\ todo = {} /\ batch = {}
  /\ draft = [l \in Lanes |-> 0] /\ page = [l \in Lanes |-> 0] /\ step = 0
  /\ noted = [p \in Pools |-> {}]
  /\ token = "pending"
  /\ released = [l \in Lanes |-> FALSE]

-----------------------------------------------------------------------------
(* The block stores.                                                       *)

Times(b, seq) == Cardinality({i \in DOMAIN seq : seq[i] = b})
Ascending(S) ==
  [i \in 1 .. Cardinality(S) |->
     CHOOSE b \in S : Cardinality({c \in S : c < b}) = i - 1]

Cached(p) == {b \in hashed[p] : refcounts[p][b] = 0 /\ b \notin free[p]}

\* alloc_block takes the free list first, then the reclaimable cached blocks.
Allocatable(p) == Ascending(free[p]) \o Ascending(Cached(p))

\* One pool's counters after taking `fresh` and unreferencing b gone[b] times.
Counts(p, fresh, gone) ==
  [b \in Blocks |->
     Larger(0, (IF b \in fresh THEN 1 ELSE refcounts[p][b]) - gone[b])]

\* alloc_block of the blocks of fresh[p], then unref_block gone[p][b] times, with
\* the given contents; those of a freed block are lost.
Store(fresh, gone, contents) ==
  LET counts == [p \in Pools |-> Counts(p, fresh[p], gone[p])] IN
  /\ refcounts' = counts
  /\ hashed' = [p \in Pools |-> hashed[p] \ fresh[p]]
  /\ free' = [p \in Pools |->
       (free[p] \ fresh[p]) \cup
         {b \in Blocks : gone[p][b] > 0 /\ counts[p][b] = 0 /\ b \notin hashed'[p]}]
  /\ rows' = [p \in Pools |-> [b \in Blocks |->
       IF b \in free'[p] THEN Blank(Stale) ELSE contents[p][b]]]

None == [p \in Pools |-> {}]
Nothing == [p \in Pools |-> [b \in Blocks |-> 0]]

\* unref_block of every listed block of each pool's sequence of blocks
Unref(blocks) ==
  Store(None, [p \in Pools |-> [b \in Blocks |-> Times(b, blocks[p])]], rows)

\* ref_block of the same: it never looks at the count it increments.
Ref(blocks) ==
  /\ refcounts' = [p \in Pools |->
       [b \in Blocks |-> refcounts[p][b] + Times(b, blocks[p])]]
  /\ UNCHANGED <<free, hashed>>

-----------------------------------------------------------------------------
(* One lane of an execution: kv_prepare grows the table, the kernels write *)
(* the rows, and the commit of the last lane evicts behind the windows.    *)

Lagging(p, n) == IF Window[p] = 0 THEN 0 ELSE Larger(0, n - Window[p])

Missing(t, n) == Larger(0, BlocksFor(t.cursor + n) - Len(t.blocks))

Fits(p, t, n) ==
  /\ Missing(t, n) <= Len(Allocatable(p))
  /\ t.cursor + n - Lagging(p, t.cursor) <= MaxTokens

Grown(p, t, n) ==
  [t EXCEPT !.blocks = @ \o SubSeq(Allocatable(p), 1, Missing(t, n))]

Evicted(p, t, n) ==
  [t EXCEPT !.head = Larger(@, Smaller(Len(t.blocks),
                                       Lagging(p, t.cursor + n) \div BlockSize))]

\* The n rows from the cursor on; the i-th is the emitted token's if i < good.
Written(p, t, l, n, good) ==
  [b \in Blocks |-> [offset \in 0 .. BlockSize - 1 |->
     LET hit == {i \in 0 .. n - 1 :
                   /\ (t.cursor + i) % BlockSize = offset
                   /\ t.blocks[(t.cursor + i) \div BlockSize + 1] = b}
     IN  IF hit = {} THEN rows[p][b][offset]
         ELSE LET i == CHOOSE i \in hit : TRUE
              IN  Row(l, t.cursor + i, i < good)]]

\* Tables of a pool after lane l of an execution: the last lane commits it, which
\* evicts in all its lanes and moves their cursors.
Executed(p, tables, l, lanes, advance, moves) ==
  LET grown == [tables EXCEPT ![l] = Grown(p, @, advance[l])] IN
  [m \in Lanes |->
     IF todo # {l} \/ m \notin lanes THEN grown[m]
     ELSE [Evicted(p, grown[m], advance[m]) EXCEPT !.cursor = @ + moves[m]]]

\* What that does to the pool, for the tables before and after it.
Execution(p, before, after, l, advance, good) ==
  LET t == [after[l] EXCEPT !.cursor = before[l].cursor]
      fresh == ToSet(SubSeq(t.blocks, Len(before[l].blocks) + 1, Len(t.blocks)))
      left == UNION {{m} \X (before[m].head + 1 .. after[m].head) : m \in Lanes}
      gone == [b \in Blocks |->
                 Cardinality({e \in left : after[e[1]].blocks[e[2]] = b})]
  IN  /\ Fits(p, before[l], advance[l])
      /\ Store([None EXCEPT ![p] = fresh], [Nothing EXCEPT ![p] = gone],
               [rows EXCEPT ![p] = Written(p, t, l, advance[l], good[l])])

-----------------------------------------------------------------------------
(* Stages of a round.                                                      *)

\* A stage takes the lanes in the order of the call's list, here of their numbers.
Turn(l) == l \in todo /\ \A m \in todo : l <= m

\* Lane l is done; with the last lane the round goes on to a stage's lanes.
Done(l, stage, lanes) ==
  IF todo = {l} THEN pc' = stage /\ todo' = lanes
  ELSE pc' = pc /\ todo' = todo \ {l}

Live == {l \in Lanes : canonical["target"][l] # NoTable}

\* The locks are held, the sequences are not released, and the shape checks
\* passed: "exact" and "history" refuse a state that evicted blocks.
Begin(lanes) ==
  /\ pc = "idle" /\ lanes # {} /\ lanes \subseteq Live
  /\ \A l \in lanes :
       /\ ~ released[l] /\ canonical["target"][l].cursor <= MaxCursor
       /\ \A p \in PoolsOf(kind) :
            /\ canonical[p][l].cursor = canonical["target"][l].cursor
            /\ kind = "parallel" \/
                 (canonical[p][l].head = 0 /\ canonical[p][l].cursor < MaxTokens)
  /\ batch' = lanes
  /\ \E lengths \in [Lanes -> 0 .. MaxDraft], pages \in [Lanes -> 0 .. MaxDraft + 1] :
       /\ \A l \in Lanes :
            IF l \notin lanes THEN lengths[l] = 0 /\ pages[l] = 0
            ELSE /\ lengths[l] <= Larger(0, MaxTokens - canonical["target"][l].cursor - 1)
                 /\ pages[l] \in 1 .. lengths[l] + 1
       /\ draft' = lengths /\ page' = pages
  /\ pc' = "clone" /\ todo' = lanes
  /\ UNCHANGED <<storeVars, rows, tableVars, kind, step, noted, token,
                 released>>

Drafting(n) == {l \in batch : n < draft[l]}

\* clone_speculative_state of both states of a lane.
Clone(l) ==
  /\ pc = "clone" /\ Turn(l)
  /\ Ref([p \in Pools |-> IF p \in PoolsOf(kind) THEN canonical[p][l].blocks ELSE <<>>])
  /\ shadow' = [p \in Pools |->
       IF p \in PoolsOf(kind) THEN [shadow[p] EXCEPT ![l] = canonical[p][l]]
       ELSE shadow[p]]
  /\ IF kind = "history" \/ Drafting(0) = {} THEN Done(l, "verify", batch)
     ELSE Done(l, IF kind = "exact" THEN "draft" ELSE "copy", Drafting(0))
  /\ UNCHANGED <<rows, canonical, drafted, old, kind, callVars, noted,
                 token, released>>

One == [l \in Lanes |-> 1]
Still == [l \in Lanes |-> 0]

\* "exact": one step of the draft loop feeds the pending token or the last
\* candidate of each lane that still drafts.
DraftStep(l) ==
  /\ pc = "draft" /\ kind = "exact" /\ Turn(l)
  /\ LET after == Executed("proposer", shadow["proposer"], l, Drafting(step), One, One)
     IN  /\ Execution("proposer", shadow["proposer"], after, l, One,
                      [m \in Lanes |-> IF step < page[m] THEN 1 ELSE 0])
         /\ shadow' = [shadow EXCEPT !["proposer"] = after]
  /\ IF Drafting(step + 1) = {} THEN Done(l, "verify", batch)
     ELSE Done(l, "draft", Drafting(step + 1))
  /\ step' = IF todo = {l} THEN step + 1 ELSE step
  /\ UNCHANGED <<canonical, drafted, old, kind, batch, draft, page, noted,
                 token, released>>

\* "parallel": every drafting lane gets a second copy of its shadow ...
Copy(l) ==
  /\ pc = "copy" /\ Turn(l)
  /\ Ref([p \in Pools |-> IF p = "proposer" THEN shadow[p][l].blocks ELSE <<>>])
  /\ drafted' = [drafted EXCEPT ![l] = shadow["proposer"][l]]
  /\ Done(l, "draft", Drafting(0))
  /\ UNCHANGED <<rows, canonical, shadow, old, kind, callVars, noted,
                 token, released>>

\* ... on which the block runs.  Its rows are the draft's own, never replayed
\* ones, and its commit completes the caller's token.
DraftBlock(l) ==
  LET advance == [m \in Lanes |-> TrainedRows + 1] IN
  /\ pc = "draft" /\ kind = "parallel" /\ Turn(l)
  /\ todo = {l} => token # "cancelled"
  /\ LET after == Executed("proposer", drafted, l, Drafting(0), advance, advance)
     IN  /\ Execution("proposer", drafted, after, l, advance, Still)
         /\ drafted' = after
  /\ Done(l, "undraft", Drafting(0))
  /\ token' = IF todo = {l} THEN "complete" ELSE token
  /\ UNCHANGED <<canonical, shadow, old, kind, callVars, noted, released>>

DropDraft(l) ==
  /\ pc = "undraft" /\ Turn(l)
  /\ Unref([p \in Pools |-> IF p = "proposer" THEN drafted[l].blocks ELSE <<>>])
  /\ drafted' = [drafted EXCEPT ![l] = NoTable]
  /\ Done(l, "verify", batch)
  /\ UNCHANGED <<canonical, shadow, old, kind, callVars, noted,
                 token, released>>

\* For mutation runs: only the lanes without candidates catch up.
BehindUndrafted == {l \in batch : draft[l] = 0}

\* The lanes whose proposer has not seen the last token the page keeps.
Behind == {l \in batch : page[l] = draft[l] + 1}

AfterVerify == IF kind = "exact" /\ Behind # {} THEN "catchup" ELSE "truncate"

\* The target runs the pending token and all candidates of every lane.
Verify(l) ==
  LET advance == [m \in Lanes |-> draft[m] + 1] IN
  /\ pc = "verify" /\ Turn(l)
  /\ LET moves == IF kind = "parallel" THEN advance ELSE Still
         after == Executed("target", shadow["target"], l, batch, advance, moves)
     IN  /\ Execution("target", shadow["target"], after, l, advance, page)
         /\ shadow' = [shadow EXCEPT !["target"] = after]
  /\ Done(l, AfterVerify, IF AfterVerify = "catchup" THEN Behind ELSE batch)
  /\ UNCHANGED <<canonical, drafted, old, kind, callVars, noted, token,
                 released>>

Catchup(l) ==
  /\ pc = "catchup" /\ Turn(l)
  /\ LET after == Executed("proposer", shadow["proposer"], l, Behind, One, Still)
     IN  /\ Execution("proposer", shadow["proposer"], after, l, One, One)
         /\ shadow' = [shadow EXCEPT !["proposer"] = after]
  /\ Done(l, "truncate", batch)
  /\ UNCHANGED <<canonical, drafted, old, kind, callVars, noted, token,
                 released>>

\* For mutation runs: the last block counts before it is full.
CompletedPartly(p, l, table, n) ==
  LET c == canonical[p][l].cursor IN
  {table.blocks[i] : i \in c \div BlockSize + 1 .. BlocksFor(c + n)}

\* Blocks of lane l that n more tokens than its canonical state complete.
Completed(p, l, table, n) ==
  LET c == canonical[p][l].cursor IN
  {table.blocks[i] : i \in c \div BlockSize + 1 .. (c + n) \div BlockSize}

\* For mutation runs: rounds up where it should divide.
NeededOneMore(p, l) == (canonical[p][l].cursor + page[l]) \div BlockSize + 1

\* Blocks the page needs: drain(needed..) panics when there are fewer.
Needed(p, l) == BlocksFor(canonical[p][l].cursor + page[l])

\* For mutation runs: only the verifier's table is cut.
CutTarget == {"target"}

CutPools == IF kind = "parallel" THEN {"target"} ELSE PoolsOf(kind)

\* For mutation runs: the cursor is not reset to the canonical one first.
CutAdvanced(p, l) ==
  [shadow[p][l] EXCEPT !.blocks = SubSeq(@, 1, Needed(p, l)), !.cursor = @ + page[l]]

Cut(p, l) ==
  [shadow[p][l] EXCEPT !.blocks = SubSeq(@, 1, Needed(p, l)),
                       !.cursor = canonical[p][l].cursor + page[l]]

Truncate(l) ==
  /\ pc = "truncate" /\ Turn(l)
  /\ \A p \in CutPools : Needed(p, l) <= Len(shadow[p][l].blocks)
  /\ Unref([p \in Pools |-> IF p \notin CutPools THEN <<>>
              ELSE LET bs == shadow[p][l].blocks
                   IN  SubSeq(bs, Needed(p, l) + 1, Len(bs))])
  /\ shadow' = [p \in Pools |-> IF p \notin CutPools THEN shadow[p]
       ELSE [shadow[p] EXCEPT ![l] = Cut(p, l)]]
  /\ noted' = [p \in Pools |-> noted[p] \cup
       IF p \in CutPools THEN Completed(p, l, shadow[p][l], page[l]) ELSE {}]
  /\ Done(l, IF kind = "parallel" THEN "replay" ELSE "arbitrate",
             IF kind = "parallel" THEN batch ELSE {})
  /\ UNCHANGED <<canonical, drafted, old, kind, callVars, token,
                 released>>

\* "parallel": the proposer's rows of the emitted tokens are computed from the
\* verifier's outputs.
Replay(l) ==
  /\ pc = "replay" /\ Turn(l)
  /\ todo = {l} => token # "cancelled"
  /\ LET after == Executed("proposer", shadow["proposer"], l, batch, page, page)
     IN  /\ Execution("proposer", shadow["proposer"], after, l, page, page)
         /\ shadow' = [shadow EXCEPT !["proposer"] = after]
         /\ noted' = [noted EXCEPT !["proposer"] =
                        @ \cup Completed("proposer", l, after[l], page[l])]
  /\ Done(l, "arbitrate", {})
  /\ token' = IF todo = {l} THEN "complete" ELSE token
  /\ UNCHANGED <<canonical, drafted, old, kind, callVars, released>>

-----------------------------------------------------------------------------
(* The end of a round.                                                     *)

\* For mutation runs: commits whoever won.
ArbitrateNever ==
  /\ pc = "arbitrate"
  /\ pc' = "commit" /\ todo' = {} /\ token' = token
  /\ UNCHANGED <<storeVars, rows, tableVars, kind, callVars, noted, released>>

\* cancellation.complete()
Arbitrate ==
  /\ pc = "arbitrate"
  /\ IF token = "cancelled" THEN pc' = "discard" /\ todo' = batch /\ token' = token
     ELSE pc' = "commit" /\ todo' = {} /\ token' = "complete"
  /\ UNCHANGED <<storeVars, rows, tableVars, kind, callVars, noted,
                 released>>

\* For mutation runs: the blocks are copied, not taken.
TakenCopied == shadow

\* std::mem::take empties every shadow of the round.
Taken == NoTables

\* All canonical states are locked and replaced.  "parallel" does it inside the
\* publication, which holds the mutexes of both pools.
Commit ==
  /\ pc = "commit"
  /\ canonical' = [p \in Pools |-> [l \in Lanes |->
       IF l \in batch /\ p \in PoolsOf(kind) THEN shadow[p][l] ELSE canonical[p][l]]]
  /\ old' = [p \in Pools |-> [l \in Lanes |->
       IF l \in batch /\ p \in PoolsOf(kind) THEN canonical[p][l] ELSE NoTable]]
  /\ shadow' = Taken
  /\ hashed' = IF kind # "parallel" THEN hashed
               ELSE [p \in Pools |-> hashed[p] \cup noted[p]]
  /\ pc' = "drop" /\ todo' = batch
  /\ UNCHANGED <<free, refcounts, rows, drafted, kind, callVars, noted,
                 token, released>>

\* The blocks of a replaced table, all of them, lose a reference.
DropOld(l) ==
  /\ pc = "drop" /\ Turn(l)
  /\ Unref([p \in Pools |-> old[p][l].blocks])
  /\ old' = [p \in Pools |-> [old[p] EXCEPT ![l] = NoTable]]
  /\ Done(l, IF kind = "parallel" THEN "discard" ELSE "publish",
             IF kind = "parallel" THEN batch ELSE {})
  /\ UNCHANGED <<canonical, shadow, drafted, kind, callVars, noted,
                 token, released>>

\* set_hash of the blocks the page completed.
Publish ==
  /\ pc = "publish"
  /\ hashed' = [p \in Pools |-> hashed[p] \cup noted[p]]
  /\ pc' = "discard" /\ todo' = batch
  /\ UNCHANGED <<free, refcounts, rows, tableVars, kind, callVars, noted,
                 token, released>>

\* The walk over the candidates has sampled some of the pages and cut no shadow; for
\* "exact" it comes before the catch-up.
Accepting ==
  /\ pc = "truncate" /\ todo = batch
  /\ kind = "exact" => Behind = {}

\* An execution is refused blocks, fails, or sees the cancellation, or the walk does.
Fail ==
  /\ pc \in {"draft", "verify", "catchup", "replay"} \/ Accepting
  /\ pc' = "discard" /\ todo' = batch
  /\ UNCHANGED <<storeVars, rows, tableVars, kind, callVars, noted,
                 token, released>>

\* For mutation runs: only the shadows of the verifier are discarded.
DrainedTarget(p, l) == IF p = "target" THEN shadow[p][l].blocks ELSE <<>>

\* discard_speculative_states drains the whole table of a shadow.
Drained(p, l) ==
  shadow[p][l].blocks \o (IF p = "proposer" THEN drafted[l].blocks ELSE <<>>)

Discard(l) ==
  /\ pc = "discard" /\ Turn(l)
  /\ Unref([p \in Pools |-> Drained(p, l)])
  /\ shadow' = [p \in Pools |-> [shadow[p] EXCEPT ![l] = NoTable]]
  /\ drafted' = [drafted EXCEPT ![l] = NoTable]
  /\ Done(l, "idle", {})
  /\ IF todo # {l} THEN UNCHANGED <<callVars, noted, token>>
     ELSE /\ batch' = {} /\ step' = 0 /\ token' = "pending"
          /\ draft' = Still /\ page' = Still /\ noted' = None
  /\ UNCHANGED <<canonical, old, kind, released>>

-----------------------------------------------------------------------------
(* The rest of the world.                                                  *)

\* A prompt is prefilled into both pools and published, by this session or, during
\* a round, by another user of the pools.
Admit(l, n) ==
  LET size == [p \in Pools |-> IF p \in PoolsOf(kind) THEN n ELSE 0]
      fresh == [p \in Pools |-> SubSeq(Allocatable(p), 1, BlocksFor(size[p]))]
      table == [p \in Pools |-> [blocks |-> fresh[p], head |-> 0, cursor |-> size[p]]]
  IN
  /\ l \notin Live /\ ~ released[l]
  /\ \A p \in PoolsOf(kind) : /\ BlocksFor(n) <= Len(Allocatable(p))
                              /\ Lagging(p, n) < BlockSize
  /\ canonical' = [p \in Pools |-> [canonical[p] EXCEPT ![l] = table[p]]]
  /\ refcounts' = [p \in Pools |-> Counts(p, ToSet(fresh[p]), Nothing[p])]
  /\ free' = [p \in Pools |-> free[p] \ ToSet(fresh[p])]
  /\ hashed' = [p \in Pools |-> (hashed[p] \ ToSet(fresh[p])) \cup
       {fresh[p][i] : i \in 1 .. size[p] \div BlockSize}]
  /\ rows' = [p \in Pools |-> Written(p, [table[p] EXCEPT !.cursor = 0], l,
                                      size[p], size[p])]
  /\ UNCHANGED <<shadow, drafted, old, kind, pc, todo, callVars, noted,
                 token, released>>

\* return_blocks marks the sequences first.  A session calls it under its
\* operation mutex, which a round of it holds; "exact" and "history" can also run
\* on a caller's sequences, which may be released at any time.
Release(l) ==
  /\ l \in Live /\ ~ released[l]
  /\ pc = "idle" \/ kind # "parallel" \/ l \notin batch
  /\ released' = [released EXCEPT ![l] = TRUE]
  /\ UNCHANGED <<storeVars, rows, tableVars, kind, pc, todo, callVars,
                 noted, token>>

\* It then waits for the run lock and gives back what the window has not.
ReturnBlocks(l) ==
  /\ released[l] /\ l \in Live \ batch
  /\ Unref([p \in Pools |-> LET t == canonical[p][l]
                            IN  SubSeq(t.blocks, t.head + 1, Len(t.blocks))])
  /\ canonical' = [p \in Pools |-> [canonical[p] EXCEPT ![l] = NoTable]]
  /\ UNCHANGED <<shadow, drafted, old, kind, pc, todo, callVars, noted, token,
                 released>>

\* cancel() of the call's token
Cancel ==
  /\ pc # "idle" /\ token = "pending"
  /\ token' = "cancelled"
  /\ UNCHANGED <<storeVars, rows, tableVars, kind, pc, todo, callVars,
                 noted, released>>

RoundStep ==
  \/ Arbitrate \/ Commit \/ Publish \/ Fail
  \/ \E l \in Lanes :
       \/ Clone(l) \/ DraftStep(l) \/ Copy(l) \/ DraftBlock(l) \/ DropDraft(l)
       \/ Verify(l) \/ Catchup(l) \/ Truncate(l) \/ Replay(l) \/ DropOld(l)
       \/ Discard(l)

Next ==
  \/ RoundStep
  \/ \E lanes \in SUBSET Lanes : Begin(lanes)
  \/ \E l \in Lanes, n \in Prompts : Admit(l, n)
  \/ \E l \in Lanes : Release(l) \/ ReturnBlocks(l)
  \/ Cancel

Spec == Init /\ [][Next]_vars

-----------------------------------------------------------------------------
(* Properties.                                                             *)

\* Tables of a pool, and the places in them that own a reference: those copied
\* from a canonical table own what its window has not evicted, like that table.
TablesOf(p) == <<canonical[p], shadow[p], old[p]>> \o
               (IF p = "proposer" THEN <<drafted>> ELSE <<>>)

Owned(p) ==
  LET tables == TablesOf(p) IN
  UNION {{<<i, l>>} \X (tables[i][l].head + 1 .. Len(tables[i][l].blocks)) :
           i \in DOMAIN tables, l \in Lanes}

BlockAt(p, place) == TablesOf(p)[place[1][1]][place[1][2]].blocks[place[2]]

\* Every variable stays in its range; a cursor never passes the pool's capacity.
TypeOK ==
  /\ free \in [Pools -> SUBSET Blocks] /\ hashed \in [Pools -> SUBSET Blocks]
  /\ refcounts \in [Pools -> [Blocks -> Nat]]
  /\ \A p \in Pools, l \in Lanes :
       \A t \in {canonical[p][l], shadow[p][l], drafted[l], old[p][l]} :
         /\ ToSet(t.blocks) \subseteq Blocks /\ t.cursor \in 0 .. MaxTokens
         /\ t.head \in 0 .. Len(t.blocks)
         /\ t.cursor <= Len(t.blocks) * BlockSize
  /\ noted \in [Pools -> SUBSET Blocks]
  /\ kind \in Kinds
  /\ pc \in {"idle", "clone", "draft", "copy", "undraft", "verify", "catchup",
             "truncate", "replay", "arbitrate", "commit", "drop", "publish", "discard"}
  /\ batch \subseteq Lanes /\ todo \subseteq batch
  /\ draft \in [Lanes -> 0 .. MaxDraft] /\ page \in [Lanes -> 0 .. MaxDraft + 1]
  /\ step \in 0 .. MaxDraft
  /\ token \in {"pending", "complete", "cancelled"}
  /\ released \in [Lanes -> BOOLEAN]

\* A block has exactly as many references as tables hold it, at every step of a
\* round: while shadows exist, after a failure or a cancellation half way, and
\* while replaced tables are given back one by one.
RefcountExact ==
  \A p \in Pools :
    LET owned == Owned(p) IN
    \A b \in Blocks :
      refcounts[p][b] = Cardinality({e \in owned : BlockAt(p, e) = b})

\* A block is free or cached exactly when nobody holds it: none leaks and none
\* is handed out while a sequence still reads it.
Conserved ==
  \A p \in Pools :
    free[p] \cup Cached(p) = Blocks \ {BlockAt(p, e) : e \in Owned(p)}

\* Every row a sequence still reads was computed from its own emitted token of
\* that position: no candidate that was rejected, no row the proposer never saw
\* (a round that accepted every candidate), no row of another sequence.
RowsIntact ==
  \A p \in PoolsOf(kind), l \in Lanes :
    LET t == canonical[p][l] IN
    \A i \in t.head * BlockSize .. t.cursor - 1 :
      rows[p][t.blocks[i \div BlockSize + 1]][i % BlockSize] = Row(l, i, TRUE)

\* A block found by its hash holds consecutive emitted rows of one sequence.
HashedRight ==
  \A p \in Pools : \A b \in hashed[p] :
    \E l \in Lanes, k \in 0 .. Cardinality(Blocks) - 1 :
      \A offset \in 0 .. BlockSize - 1 :
        rows[p][b][offset] = Row(l, k * BlockSize + offset, TRUE)

\* drain(needed..) of a shadow table always finds the blocks the page needs.
Covered ==
  pc = "truncate" => \A l \in todo, p \in CutPools : Needed(p, l) <= Len(shadow[p][l].blocks)

\* Target and proposer of a sequence always have seen the same tokens.
Paired ==
  kind # "history" =>
    \A l \in Lanes : canonical["target"][l].cursor = canonical["proposer"][l].cursor

\* A call reported as cancelled leaves every sequence of the round as it was.
CancelWins ==
  [][token = "cancelled" =>
       \A p \in Pools, l \in batch : canonical'[p][l] = canonical[p][l]]_vars
=============================================================================
