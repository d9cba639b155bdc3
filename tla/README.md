# Verification of effect-torch's stateful runtime

effect-torch is a tensor runtime with an Effect (TypeScript) API. Most of it is
numerical code whose correctness is numerical equivalence and is tested as such.
This directory models the part whose correctness is a matter of *order*: paged
key/value caches shared between sequences, sessions that generate tokens through
cancellable native calls, and the pools, caches and services around them.

Paths below are relative to the repository root. `mod.rs` alone means
`crates/runtime-cpu/src/napi/mod.rs`.

## 1. Inventory

### How the system fits together

JavaScript runs one step at a time. A fiber of `packages/core` builds lazy
graphs and calls an adapter (`packages/backend-cpu` and its Metal and CUDA
twins), which makes a promise for a native call. The native addon runs the call
on Tokio, its kernels on blocking workers; several calls of different
sequences, and abandoned calls of interrupted fibers, run at once. Native state
is shared through `Arc`s and mutexes. `packages/serve` keeps prefixes alive
between HTTP requests, with background fibers of its own.

    HTTP request -> Server -> DecisionEngine / Chat -> Generation (AutoRegressive.ts)
        -> adapter (cancellable call, token) -> NativeInferenceSession
        -> execute_stateful -> KV pool, workspace pool -> kernels

### Components

| Component | State | Operations | What is hard | What makes it correct |
|---|---|---|---|---|
| KV pool, sequences, prefixes (`mod.rs` 2893-4450, `prefix.rs`, `attention.rs`) | `BlockStore`: free list, reference counts, hashes, `by_hash`, `lru`; `SeqState`: block table, cursor, head, pending hash | match, begin, prepare, copy shared tail, allocate, commit, evict, note, rollback, publish, release, snapshot, fork | every pool call is its own critical section, so operations of different sequences interleave between any two of them; failures in the middle | counts match references; no block is lost or in two places; the cache serves only rows that were hashed; an owner reads its own history; rollback is exact |
| Generation session (`AutoRegressive.ts`, `adapter.ts`, `mod.rs` 8240-10440) | native: operation mutex, sequences, receipt, ids; TypeScript: `live`, terminal flags, `roundLock` | add, step / run_round, acknowledge, finish, close, retry | calls outlive the fiber that awaits them; cancellation races completion; two copies of one state | pages reach the client once, in order and all of them; a failed round leaves no trace; every call is answered |
| Cancellation arbitration (`crates/napi/src/lib.rs`, `adapter.ts` 340-440) | one atomic phase per token | cancel, complete | one-shot race of two threads | a call reported as cancelled changed nothing |
| Stateful execution (`mod.rs` 6500-6700, `executable.rs`) | run locks of a batch's sequences | lock, check, execute, commit or roll back | locks of several sequences, address order; release during a batch | no deadlock; a batch commits or rolls back as one |
| Deferred prefix publication (`mod.rs` 8470-8540) | `DeferredPrefixMetadata` per sequence | note, publish | two pools locked in address order; block numbers recorded chunks ago | only live rows are published |
| Speculative rounds (`mod.rs` 4851-4898, 5700-6320, 8836-9486; `Speculation.ts`) | shadow sequences of target and proposer | clone, draft, verify, accept, swap | cancellation between the swaps; clones fail half-way | target and proposer stay at one cursor; blocks balance |
| Workspace pool (`crates/runtime/src/workspace.rs`) | idle segments, byte counters, LRU clock | acquire, drop of a lease, change of the limit | error in the middle of a set; clock wrap | counters equal the segments; all or nothing |
| Program and constant caches (`mod.rs` 939-973, 2163-2200) | LRU entries | look up, compile, insert | a stale hit | an entry is used only with the bindings it was compiled for |
| Native tensor accounting (`mod.rs` 608-710) | bytes live, bytes reported to V8 | create, clear, drop, sync | threads update two atomics | bytes are subtracted once, the report does not drift |
| Decision engine (`packages/serve/src/DecisionEngine.ts`) | entries with leases, state, worker and timer fibers | acquire, release, expire, close | timers, workers and requests race | an entry in use is never disposed; all are disposed at close |
| HTTP server (`packages/serve/src/Server.ts`) | pending counter, permits | admit, run, finish | interruption of requests | the counter returns to zero |
| Chat sessions (`packages/core/src/Chat.ts`) | page queue of capacity one, consumed latch | offer, take, finish | either side is interrupted | pages are neither lost nor held for ever |
| Memory planner (`crates/compiler/src/planner.rs`) | none (pure) | intervals, packing | half-open bounds | values alive together never overlap |

The rest (graph, autodiff, compiler passes, kernels, device runtimes, sampling
arithmetic, archives, training, tokenizers, model families, request parsing) is
listed in `PROJECT.json` with the reason it is not modelled: it is sequential,
or numerical, or I/O. The Metal and CUDA runtimes repeat the CPU runtime's
session and pool code; the CPU text is the one modelled.

`PROJECT.json` also lists the hazards, each at its line, with the properties
that would catch it going wrong.

## 2. Plan

Order is by how much of the system rests on a part and how little a test reaches.

| # | Module | Status | Content |
|---|---|---|---|
| 1 | `KvPool`, `MCKvPool` | done | the pool with its sequences and prefixes |
| 2 | `KvPoolProofs`, `KvPoolTableProofs`, `KvPoolRefsProofs`, `KvPoolContentProofs` | done | every safety property of the pool: types; table lengths and the window; counts, conservation, rollback; contents of the cache and of histories |
| 3 | `TokenStream`, `GenerationSession`, `MCGenerationSession` | done | abstract stream and the session that implements it |
| 4 | `GenerationProofs` | done | every safety property of the session, and the refinement |
| 5 | `WorkspaceLeases`, `WorkspacePool`, `MCWorkspacePool` | done | what a lease promises, and the pool that implements it |
| 6 | `WorkspacePoolProofs` | done | every safety property of the workspace pool, and the refinement |
| 7 | `DecisionEngine`, `MCDecisionEngine` | done | slots, entries, leases, worker and timer fibers, shutdown |
| 8 | `SpeculativeRound`, `MCSpeculativeRound` | done | shadows of two pools, acceptance, arbitration, swap, discard |
| 9 | `DecisionEngineProofs` | done | every safety property of the engine for every number of questions, keys and slots |
| 10 | `SpeculativeProofs` | done | every safety property of the rounds: types, pairing, coverage, cancellation; counts, conservation; rows and hashed blocks |
| 11 | `StatefulBatch` | planned | run locks of a batch in address order, the second released check, two pools locked for publication |
| 12 | `ChatStream` | planned | queue and latch under interruption; abstract specification: `TokenStream`'s delivery |
| 13 | `ProgramCache`, `TensorAccounting` | planned | small state machines of an LRU list and of two atomics |
| 14 | `MemoryPlanner` | planned | pure operators against the definition of overlap |

Every safety property a passing run checks has a theorem. Worth having beyond
them: absence of a cycle in the address-ordered locks, once `StatefulBatch` exists.

## 3. Modules and how they correspond to the code

### KvPool

One step is one critical section on `PoolInner.blocks`, because that is where
another thread can come in between. The mutex-protected store is `free`,
`refcounts`, `hashes`, `byHash`, `lru`; each owner, a `NativeKvSequence` or an
immutable `NativeKvPrefix`, has a block table, `head` (blocks evicted by the
window) and its history. `pc` says which operation of a sequence holds its
`run_lock`; the actions of one operation run under it in the order of the code:

| Code | Actions |
|---|---|
| `prefill_match` | `MatchBegin`, `MatchTake` (one `take_block`), `MatchEnd` |
| `execute_stateful`, `CpuState::begin` | `ExecBegin`, `RetainTail` |
| `kv_prepare`, `copy_shared_tail` | `Prepare`, `CopyTail`, `DropReplaced`, `AllocNext` |
| kernels | `WriteRows` |
| `commit`, `kv_evict`, `note_tokens` | `Commit`, `Evict`, `CommitEnd`, `Note`, `NoteEnd` |
| `note_tokens_deferred`, `publish_deferred_prefixes` | `NoteDeferred`, `Publish` |
| any error, `rollback` | `Fail`, `RollbackBlock`, `RestoreTail`, `RollbackEnd` |
| `release`, `return_blocks`, drop of the last `Arc` | `RequestRelease`, `ReturnBegin`, `ReturnBlock`, `ReturnEnd`, `DropPrefix` |
| `snapshot`, `fork_sequence` | `SnapshotBegin`, `ForkBegin`, `CopyRef`, `CopyEnd` |

Abstractions. A chained hash is the token prefix it was computed from, so it is
injective (64-bit FNV-1a collisions are not covered: the code has no behaviour
for them). `content` is a ghost: the prefix whose rows a block holds. The LIFO
order of the free list and the choice among several blocks of one hash are
nondeterministic. Names of released sequences are reused. A fork holds an `Arc`
of the prefix it reads, so `DropPrefix` waits for it.

Left out: the `explicit_layers` retention branch and `BidirectionalBlock`,
recurrent snapshots, read-only executions, batches of several sequences, and more
than one `kv_prepare` for an execution (later calls find the blocks allocated).
The shadow of a speculative transaction (`transaction_tail`) is in
`SpeculativeRound`.

### TokenStream and GenerationSession

`TokenStream` is what a session promises: pages are published for a set of
sequences only when the client holds everything published before; delivery
gives the client all of it; nothing else changes the counters. A token is its
position, so a stream is two counters per sequence.

`GenerationSession` is the three layers below that promise. The client's side is
the Effect fiber under `roundLock` (`foreground` is the call it awaits,
`tracked`/`ended` its `live` array and terminal flags); the adapter's side is
`call`, one record per native call in flight, with the phase of its
cancellation token; the native side is the operation mutex, lanes, counters,
receipt and identifiers.

| Code | Actions |
|---|---|
| `Generation.add`, `.step` | `Add`, `Step`, `Accept` (acknowledge and hand over), `Fault` |
| fiber interruption, adapter settlement | `Interrupt`, `Discard` |
| native `add`, `run_round`, checks under the mutex | `Refuse`, `Recover`, `Admit` |
| executions, commit, failure, `publish_receipt` | `Execute`, `Commit`, `Fail`, `PublishAdd`, `PublishRound` |
| `finish`, `close`, the finalizer of `generate` and Chat | `Finish`, `Close`, `Exit` |

Reading choices. Acknowledge and delivery are one step because the code makes
them uninterruptible. Cancelling is one step: the token's phase is an atomic. An
execution that goes through `execute_stateful` completes the token at its commit
(every prefill chunk and parallel-block draft); autoregressive and history
drafts do not, so `Execute` may leave the phase of a round's call alone. A
request stands for its whole identity, and its prompts are a set. Ordinary
decode is `MaxPage = 1`. `MaxRounds` and `MaxSequences` stand for `u64::MAX`,
so the refusal at the end of the range is the code's own, not a cap. Left out:
several sessions on one artifact, the execution-session half of
`AutoRegressive.ts`, collection of an unclosed session. The inside of a
speculative commit is in `SpeculativeRound`.

### WorkspaceLeases and WorkspacePool

`WorkspaceLeases` is the promise of `workspace.rs`: a lease is granted for a
whole set of requests or not at all, each of its segments was idle or is new and
fits its request, no segment is in two leases, and only idle segments are
evicted. `WorkspacePool` is the code under the pool's mutex; `phase` says which
operation holds it, and an operation is one step for each call it makes:

| Code | Actions |
|---|---|
| `acquire`: sum of the requests, lock | `Acquire` |
| `best_fit`, `allocate`, short allocation, `evict_all_idle` and one retry | `Reuse`, `Allocate`, `AllocateShort`, `EvictAllIdle`, `AllocationFails` |
| `acquire`: checked sums, identifiers, the lease | `RefuseOverflow`, `Grant` |
| `rollback` | `Rollback`, part of the four failing steps |
| drop of a lease, `next_lru_tick` with its compaction | `Drop`, `ReturnSegment` |
| `set_max_idle_bytes`, `evict_to_limit` | `SetMaxIdleBytes`, `EvictOldest`, `Trimmed` |

The allocator is external: it may return any capacity it has memory for, too
small ones included, or fail. The idle vector is a set because `min_by_key`
compares identifiers last. `u64` and `usize` end at `MaxU64` and `MaxUsize`, so
the refusals and the compaction at the end of a range are the code's own. A sum of
capacities is the cardinality of a set with one element for each byte, which TLC
evaluates and the provers can reason about. The mapping: a segment is idle for the callers while it is idle, held by a running
acquisition that may roll back, or on its way back from a dropped lease.

### DecisionEngine

The engine is JavaScript: what a fiber does between two awaits is one step. `pc`
says where a question fiber is, `mutex` who holds the cache's mutex.

| Code (`DecisionEngine.ts`, `make`) | Actions |
|---|---|
| the caller, `slots.withPermit`, interruption | `Ask`, `Enter`, `Interrupt` |
| `acquire`: closed, hit, miss, miss of a full cache | `AcquireClosed`, `Hit`, `Miss`, `MissFull` |
| `dispose` (interrupt the worker, close the scope, delete) | `EvictEnd`, `DisposeEnd`, `ExpireEnd`, `CloseEntryEnd` |
| waiting for the prefill, reading, `release` | `Read`, `GiveUp`, `ReadEnd`, `ReleaseOnly`, `ReleaseAbandoned`, `ReleaseIdle` |
| worker and timer fibers | `Prefilled`, `PrefillFails`, `TimerDue`, `Expire` |
| the finalizer | `Close`, `Drained`, `Stopped`, `CloseEntry`, `Closed` |

Acquisition and release are uninterruptible, so an interrupted question still
gives back what it leased; timers and prefills are interruptible, and an
interruption waits only for a timer that has the mutex or a prefill that has not
returned. Question and timer fibers wait for the mutex in an order the model
leaves open. What a prefill or a read computes is left out.

### SpeculativeRound

The state is two pools (`target` and `proposer`), each with its free list,
counts and hashed blocks, and four tables for each sequence: `canonical`, its
`shadow`, the second copy a parallel block drafts on, and the replaced table on
its way back. `kind` is the function the artifact uses.

| Code (`mod.rs`) | Actions |
|---|---|
| `clone_speculative_state` | `Begin`, `Clone`, `Copy` |
| draft loop, block draft and its discard | `DraftStep`, `DraftBlock`, `DropDraft` |
| verification, proposer catch-up | `Verify`, `Catchup` |
| acceptance: truncation of the shadows, replay of the proposer | `Truncate`, `Replay` |
| `cancellation.complete`, swap, `publish_deferred_prefixes` | `Arbitrate`, `Commit`, `DropOld`, `Publish` |
| `discard_speculative_states`; errors of an execution, of the acceptance walk | `Discard`, `Fail` |
| other users of the pools, cancel | `Admit`, `Release`, `ReturnBlocks`, `Cancel` |

Abstractions. An execution is one step per lane that allocates and writes, and
commits with the last lane; `KvPool` has its inside. The acceptance walk is a
choice of every page length, made when the round starts (a prophecy: it adds no
behaviour, and it lets `rows` say at once whether a written row will be emitted).
`rows` is a ghost: which position of which sequence a row was computed from, and
whether from an emitted token. Allocation takes the lowest block that can be
had. A stage fails where the code can return an error or see the cancellation; left
out are poisoned locks and the errors for routes that compilation has validated
(7196, 8116). The sequences of a session are not forked. Sampling and recurrent states
are left out.

## 4. Runs

| Run | Question | Bounds |
|---|---|---|
| `kv_fork` | do executions on a sequence, its fork and their shared prefix keep counts, histories and rollbacks exact? | 2 sequences, 1 handle, 2 blocks of 2 tokens, histories of 2 |
| `kv_cache` | is the cache of hashed blocks conserved, reclaimable and never stale? | 1 session and 1 ordinary sequence, 2 blocks of 1 token, chunks and histories of 2 |
| `kv_window` | the same for a pool with a window; is the window retained, and does a released sequence give its blocks back? | 2 sequences, 2 blocks, window 1, histories of 3, chunks of 1 |
| `generation_safety` | do receipts, retries, lanes and the two copies stay consistent, and does the session implement `TokenStream`? | 3 calls, 2 prompts, 2 lanes, 3 tokens, pages of 2, 2 sequence ids, 4 rounds |
| `generation_settles` | is every call answered? | 1 prompt, 1 lane |
| `workspace_pool` | are the counters exact, is the limit kept, is eviction in order, are leases whole, does every operation end? | 2 leases, 2 keys, 2 sizes, 2 requests, memory of 3, ticks and identifiers up to 3 |
| `decision_engine` | is a prefix in use never disposed of, is the cache bounded, are idle entries timed, does close end? | 3 questions, 3 prefixes, 2 slots, 2 cached |
| `speculative_round` | do target and proposer stay paired, with exact counts and intact rows, whatever fails or is cancelled? | 2 lanes, 3 blocks of 2 tokens in each pool, 2 candidates, all three proposers |
| `kv_window_session`, `kv_window_chunk`, `generation_exit`, `speculative_window` | four statements of the repository's texts that the code does not keep | as small as shows it |

Why the bounds are enough. A pool of two blocks is full after one or two
executions, so allocation failures, reclaim and eviction happen constantly; two
owners are the least that share a block, the handle makes a third reference to
one tail (owner, prefix, retained tail); two tokens make histories that differ.
`BlockSize = 2` is what a partial tail needs, and the cache runs use blocks of
one token because only full blocks are cached. Three calls are one awaited, one
abandoned and running, one abandoned and waiting; a fourth would wait like the
third. Two lanes and two ids make reuse and the refusal at the end of the range
happen. Two leases of two segments fill a memory of three, so every failure of
an acquisition happens with something to roll back, and a clock of three ticks
is compacted with two idle segments. Three questions for two slots and three
prefixes for two entries make every question wait, hit, miss and evict; a third
question holds an old prefix while the other two race. Two lanes are a round
over both, or a round over one with another user of the pools beside it; two
candidates are rejected, half accepted or all accepted, the last of which needs
the proposer's catch-up.

`MaxLen`, `MaxChunk`, `MaxLru`, `MaxRequests`, `Prompts` and `MaxCursor` are caps
of the models: the longest history and chunk, the length of `lru` beyond which
no match starts (the queue is pruned only by allocation, so it grows without a
bound), the requests of one acquisition, the prompt lengths, and the cursor
beyond which no round starts. Symmetry is used in safety runs only, over names
that are interchangeable.

Deadlock is checked in the `kv_` runs and in `workspace_pool`, where a client can
always go on. It is switched off where the system may stop: in the
`generation_` runs a client that has exited and whose calls have settled is done,
a closed decision engine is done, and in `speculative_round` all sequences may
have been released.

### Fairness

`KvPool!Fairness`: an operation that holds a run lock is on a blocking worker
and runs to its end; a released sequence is returned by the thread that swapped
the flag. Nothing is assumed of clients. `GenerationSession!FairSpec`: Tokio
workers make progress (weak fairness of the native steps); the operation mutex is
`tokio::sync::Mutex`, which is first come, first served, so a call that finds it
free again and again gets it (strong fairness of `Lock`). Nothing is assumed of
the client, of interruption or of failures. `WorkspacePool!FairSpec`: the thread
that holds the pool's mutex runs (`Serve`, `Trim`). `DecisionEngine!FairSpec`: the
event loop runs some fiber that can run, which includes that reads, prefills and
timers end; which one is left open. `SpeculativeRound` states safety only; that a
sequence of a pool gets its blocks back is `Returned` of `KvPool`.

## 5. What the checks show

Every property of the eight passing runs holds, and every one is broken by a
plausible mutation of the code (`PROJECT.json`, `mutants`). Disagreements between
the code and its texts:

* `kv_window_session`. `install_prefix_metadata` (mod.rs:8502) hashes a block
  by the number noted when a prefill chunk ran. A windowed prefill of several
  chunks may have evicted that block since, and another sequence may hold it: a
  later prompt then matches rows that are not its history.
  `docs/rfcs/0010-inference.md:346-347` says matched rows are "bit-identical to
  a recompute".
* `kv_window_chunk`. `CpuState::commit` evicts before it notes, so a chunk
  longer than the window hashes a block that is on the free list;
  `available()` then counts it twice and can exceed the pool.
* `generation_exit`. The finalizer's `close` only tries the operation mutex; if
  the abandoned call still holds it, the session stays open.
* `speculative_window`. `kv_evict` (mod.rs:4156) gives back the blocks a window
  has passed, but `clone_speculative_state` (4870) references the whole table of
  a state again, `discard_speculative_states` (4894) and the end of a parallel
  round (9429, 9432) give the whole table back. With a sliding proposer, as
  DFlash builds it (`Speculation.ts:138-139`), a block that a sequence still reads
  loses a reference too many. `docs/rfcs/0010-inference.md:359` says "The cache is
  the unreferenced subset." `execute_speculative_detailed` and
  `execute_history_lookup_detailed` refuse a state with evicted blocks; the
  parallel round does not.

Met while reading and not made a run:

* Each prefill chunk's commit, and the draft of a parallel block, completes the
  caller's token (mod.rs:6617), so a cancel after it is lost, although
  mod.rs:2085-2087 says a stage does not complete arbitration.
* `lastRoundId` is the last *published* round, not the most recently allocated
  one (`Runtime.ts:1979`).
* AutoRegressive.ts:246-248 says `finish` and `close` stay outside the
  JavaScript lock, while both take `roundLock` (1929, 2028).
* The publication of a parallel round takes the state mutexes of its sequences
  while it holds the pools' (8512), the reverse of every other path. Only the
  session's operation mutex keeps the other paths away from those sequences.

Upheld: Runtime.ts:2017-2018, that a round "either publishes a durable receipt or
leaves no partially visible result" (`Durable`, `CursorMatches`, and `CancelWins`
inside a speculative round); DecisionEngine.ts:178-179, that a question with a
slot always finds an idle entry to evict (`IdleFound`); the head of
`workspace.rs`, that acquisition is atomic (`LeaseSpec`).

## 6. What is proved

All proofs are of `Spec` for every value of the constants, from the named
assumptions `KvPoolConstants`, `GenerationConstants`, `WorkspacePoolConstants`,
`NoLeaseConstant`, `DecisionEngineConstants` and `SpeculativeConstants` (finite
sets of blocks, prompts, lanes and questions, sentinels outside them, natural
sizes, a `u64` that can count to one). The assumptions leave calls, sequences,
tokens, stages, leases and keys unbounded. Two groups of theorems have a further
hypothesis on the constants, stated in the theorem: `NoStaleNotes` for the KV pool
and `Unwindowed` for speculative rounds. Both are explained below; each excludes
configurations in which a run shows the property to be false.

### The KV pool

Four modules, each extending the one before.

`KvPoolProofs!TypeCorrect`: `Spec => []TypeOK`. Typing alone is not inductive:
that `WriteRows` stays inside the block table needs to know how long the table
is at each `pc`, and that `CopyRef` finds its source needs the source to be lent.
`TypeInv` adds `Progress` (what each phase of an operation has established about
the table, the saved frontier and the tail) and `Lending` (a copying owner's
source is a live owner whose table does not move). One lemma per action.

`KvPoolTableProofs!WindowCorrect`: `Spec => []WindowRetained`. `LengthInv` gives the
exact length of every table at every `pc`, `WindowInv` that `head` never passes the
first block of the window. Together with `TypeInv` they are `TableInv`. The module
also holds what the next two share: a step changes the table of one owner and
leaves the others alone (`Alone`, `Kept`).

`KvPoolRefsProofs`: `RefcountsCorrect` (`RefcountExact`), `BlocksConserved`
(`Conserved`), `CachedReclaimable` (`Reclaimable`) and `RollbackCorrect`
(`RollbackExact`). A reference is a place, a pair of an owner and an index into its
table, or its retained tail, or the replaced tail on its way out; a count is the
cardinality of the set of places that name the block, so a step that fills or
clears one place changes one cardinality by one. `RefInv` has three parts.
`Balanced` is that equation. `StoreOK` relates the free list, the hash index and
the reclaim queue to the counts. `OwnInv` is why nobody frees, hashes or overwrites
what another reads: a block that will be written, or hashed at a deferred
publication, is at one place only (`PrivateInv`) and has no hash yet
(`UnhashedInv`), the undo record is the table `begin` saw (`UndoOf`), and deferred
metadata names a live, complete block of its own sequence (`MetaOf`).

`KvPoolContentProofs`: `CacheCorrect` (`CacheContent`) and `HistoryCorrect`
(`OwnHistory`). `ContentInv` says that a hashed block holds the rows of its hash
(`HashedInv`) and what every place holds at every `pc` (`Holds`): complete blocks the
prefix of the history that ends there, the tail an extension of the history,
blocks of a running match the prompt's prefix, written blocks the history with the
chunk. Only `WriteRows` and `CopyTail` change rows, and `PrivateInv` says that
nobody else reads the blocks they write. `HandleInv` says that a prefix is never
in the middle of an execution.

The last two modules assume `NoStaleNotes`: a pool with a window has no session
sequences (whose notes are deferred), and its chunks are not longer than the
window. The three passing `kv_` runs satisfy it and between them cover pools without a window with
both kinds of sequence, and a pool with one. The two excluded cases
are the ones of `kv_window_session` and `kv_window_chunk`, where `MetaOf` fails:
the block a note names has been evicted.

### The session

`GenerationProofs` proves the session's safety: `TypeCorrect`,
`ReceiptNeverRefused`, `TokensDurable`, `CopiesAgree`, `LanesNeverShared`,
`SelectionHolds`, `CursorsHold`, and `ImplementsStream`, all from one inductive
invariant `IInv`. None of the properties is inductive alone. Its parts:

* `Held`, `Quiet`: the call that holds the mutex is the only one that runs,
  while it runs no receipt is pending, and its round id is allocated;
* `AddsReserved`, `RoundsSelected`: what the running call chose before its
  awaits (lanes, ids, sequences, page sizes) is still valid when it publishes.
  This is where lane choice before the prefill, and "selected sequence remained
  live", are discharged;
* `Owed`, `Agree`, `ReceiptWaits`: the receipt is exactly the difference between
  the native session and the client;
* `Cursors`, `Budgeted`, `Unborn`, `ClosedEmpty`: the KV cursor, the budgets,
  unused identifiers and the closed session.

Three framing lemmas carry most actions: `Frame` (a step that rewrites one call
outside the running one), `Enters` (a call takes the session) and `Leaves` (it
gives the session back). The refinement follows: a publication is a `Publish` of
the stream because `Owed` makes the client's counters equal to the native ones
while no receipt is pending; `Accept` is its `Deliver`; everything else stutters.

### The workspace pool

`WorkspacePoolProofs` proves five theorems about the workspace pool.

`ImplementsLeases`: `Spec => LeaseSpec`, the refinement. That no segment is in two
leases is not inductive, because a segment moves between four places: the idle
set, a running acquisition, a lease, and a dropped lease's way back. `IInv` says
that every identifier in the pool has been issued (`Issued`), that none is twice
at one place (`Distinct`) nor at two places of different kinds (`Apart`), that
what an acquisition has taken serves its requests (`Serving`), and which of the
fields are empty while nobody or somebody else holds the mutex (`Locked`).
`Numbering` shows that a grant numbers its fresh segments apart from each other
and from everything issued before; the cardinalities it counts with are the
library's. Moves inside the pool stutter (`Moved`), evictions shrink the idle
set (`Evicted`), `GrantLeases` and `DropLeases` are the two steps callers see.

`EvictionOrder`: `Spec => LruStable`. It adds to `IInv` that the clock is not
behind any retained segment (`Ticks`); `RankOrder` shows that the ranks a
compaction hands out keep the order and stay below the number of idle segments,
which is the next tick.

`AccountingExact`: `Spec => []Accounted`. `Ledger` says that the counters are the
sums they stand for and that what the allocator has given out is within its memory
wherever it is now, a segment on its way back included; the second half is what
makes the checked additions of `Grant` and `ReturnSegment` agree with unbounded
ones. `IdleLimitKept`: `Spec => []IdleCapped`, from `Within`: outside a trim, what
would be idle after a rollback fits the limit. `TypeCorrect`: the number of idle
segments never exceeds the identifiers issued, which bounds the clock after a
compaction.

### The decision engine

`DecisionEngineProofs` proves `LeasesMatch` (`LeasesExact`), `InUseKept` (`InUse`)
and `IdleTimedHolds` (`IdleTimed`) of the decision engine, from one invariant. The
three depend on each other: an entry in use is safe because nobody disposes of a
leased entry (`VictimIdle`), which rests on the lease count being exact and on
timers running for entries without leases only (`TimersIdle`), which a hit keeps
true by cancelling the timer. `Pinned` says that what a question holds is cached,
`Locked` that a question that disposes has the mutex, `Awaited` that the prefix
a question makes room for stays absent meanwhile, `IdleExpires` is `IdleTimed`
with the entry that is disposed of left out, and `Quiet` says that the finalizer
meets neither questions nor timers once it is past the calls. `Joins` and `Parts`
are the two ways a lease count changes, `DeleteInv` is the disposal all four
callers share.

`TypeCorrect`, `ResidentHolds` (`Resident`) and `IdleAlwaysFound` (`IdleFound`) come
from a second invariant, `MapInv`: the Map's order lists every cached key once and
no other (`Listed`), only a listed entry is being disposed of, by somebody who has
the mutex (`Disposed`), and `livePrefixes` and the slots are counted (`Counted`).
`IdleFound` is a pigeonhole: a question that finds the cache full holds a slot and
no lease, so the questions with a lease are fewer than the slots, hence fewer than
the entries, and an injection of entries into them does not exist.

### Speculative rounds

`SpeculativeProofs` has three layers. The first, `IInv`, needs no hypothesis:
`Typed`, `AllBacked` (a table has the blocks of the tokens it counts), `Control`
(what each stage knows of the call), `Paired` and `Stages`, which says for each
kind of proposer how far the shadows reach before, during and after each stage. It
gives `CursorsPaired` (`Paired`), `CutCovered` (`Covered`) and `CancelledUntouched`
(`CancelWins`): a cancelled call changes no canonical table, and a truncation never
cuts a shadow to more than it has.

The second, `RefInv`, gives `RefcountsCorrect` (`RefcountExact`) and
`BlocksConserved` (`Conserved`). A block is named by places of four tables
(canonical, shadow, the replaced ones and the drafts). `Clean` says in which stages
a copy may exist, `Gone` that a released sequence has given back its table, `BlockOK`
that a block's count is the number of its places and that the free list follows.
`CountUpdate` is a step that changes one table; `CountPermute` is the commit, which
moves tables between places and changes no count.

The third, `RowInv`, gives `RowsCorrect` (`RowsIntact`) and `HashesCorrect`
(`HashedRight`). Neither is inductive: a commit swaps shadows in, so the rows of the
shadows must be known at every stage, and a stage of one lane must be known to
leave the rows of the others alone. Its parts:

* `Placed`: a block is at one position of one lane. It may be in several tables of
  that lane (a shadow begins as a clone), never in those of two lanes, so a write
  of one lane disturbs no other;
* `Sound`: the first `Trust` rows of every table are those of the lane's tokens.
  For a canonical table these are all rows up to its cursor. For a shadow they are
  the canonical ones and the `Gained`: the page once the verifier has run; for an
  autoregressive proposer the candidates it was fed, the last of them only by
  catch-up; for a parallel one the page after replay. A draft copy and a replaced
  table are trusted with nothing;
* `Frozen`: a hashed block that a table names lies behind the canonical cursor of
  the table's lane; every stage writes from that cursor on, so none writes it;
* `Noted` and `Sealed`: a noted block is a full block within the trusted rows of a
  shadow (after the commit, of the sequence), and a hashed block is not free and
  holds emitted rows. Noting a block before its rows are trusted breaks the first,
  and reuse of a free block breaks the second unless allocation takes back the hash;
* `DraftStart`: the copy a parallel proposer drafts on starts at the canonical
  cursor, so drafting does not write behind it.

`WrittenIs` says which rows an execution changes. `ExecutionPool` is the heart: an
execution that takes spare blocks and adds to what is trusted no more than the
emitted tokens it wrote (`Within`) keeps the rows of its pool right. `StoreRows`
serves the steps that write no row, `PrefillRows` an admission. Each action then has one
lemma (`RowsClone`, `RowsVerify`, ...).

`TypeCorrect`, `RefcountsCorrect`, `BlocksConserved`, `RowsCorrect` and
`HashesCorrect` assume `Unwindowed`, no sliding layer in either pool, which the
passing run satisfies. With a window the counts are wrong: that is the run
`speculative_window`. `Paired`, `Covered` and `CancelWins` are proved with windows
too.

### Only model-checked

Liveness (`Returned`, `Settles`, `Completes`, `Closes`) and ENABLED are out of the
prover's reach. Every invariant and every action property of a passing run has a
theorem. The hypotheses on windows leave out configurations that no passing run has
either: about those the project only says what the three violating runs show.

## 7. What is not modelled

Section 1 and `PROJECT.json` name every part left out. The largest with a
discrete specification: batches of several sequences and the order of their run
locks, the chat's page queue, the HTTP server's admission counter, the program
and constant caches, tensor accounting and the memory planner. Each has a place
in the plan; the hazards they carry are listed without a property.

Most of the repository's lines are not of that kind. Graph building and autodiff,
the compiler's passes, kernels and executables of three backends and the
training loops compute numbers, sequentially or in data parallel; what they must
satisfy is numerical equivalence, which a model checker cannot decide. The Metal
and CUDA runtimes repeat the CPU runtime's pool and session code line for line
where it matters here; mapping a definition to three copies of a text would say
nothing new. The models therefore cover a small share of the lines and most of
the shared mutable state.

## Running

    tlc -config KvPoolFork.cfg MCKvPool.tla
    tlc -config GenerationSafety.cfg MCGenerationSession.tla
    tlc -config WorkspacePool.cfg MCWorkspacePool.tla
    tlc -config DecisionEngine.cfg MCDecisionEngine.tla
    tlc -config SpeculativeRound.cfg MCSpeculativeRound.tla
    tlapm KvPoolProofs.tla
    tlapm KvPoolTableProofs.tla
    tlapm KvPoolRefsProofs.tla
    tlapm KvPoolContentProofs.tla
    tlapm GenerationProofs.tla
    tlapm WorkspacePoolProofs.tla
    tlapm DecisionEngineProofs.tla
    tlapm SpeculativeProofs.tla

`PROJECT.json` lists every run with its configuration.
