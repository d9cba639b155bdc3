------------------------------- MODULE KvPool -------------------------------
(***************************************************************************)
(* The paged key/value pool of the CPU runtime                             *)
(* (crates/runtime-cpu/src/napi/mod.rs and prefix.rs): a BlockStore of     *)
(* reference-counted blocks with a content-addressed prefix cache, the     *)
(* sequences that lease blocks from it, and immutable prefix handles.      *)
(*                                                                         *)
(* Every critical section on PoolInner.blocks is one step, so the steps of *)
(* different sequences interleave between any two pool calls.  A           *)
(* sequence's own SeqState is touched only under its run_lock; pc says     *)
(* which operation holds it.                                               *)
(*                                                                         *)
(* A chained block hash is represented by the token prefix it is computed  *)
(* from (so it is injective), and SeqState's cursor, last_hash and pending *)
(* by the committed token history they summarise.  content is a ghost: the *)
(* token prefix whose key/value rows a block holds.                        *)
(***************************************************************************)
EXTENDS Integers, Sequences, FiniteSets, SequencesExt

CONSTANTS
  Blocks,        \* block ids of the pool's slabs
  NoBlock,       \* Option<u32>::None
  Seqs,          \* NativeKvSequence objects (names are reused after release)
  SessionSeqs,   \* those created by NativeInferenceSession::add
  Handles,       \* NativeKvPrefix handles
  Token,         \* vocabulary
  BlockSize,     \* PoolInner.block_size
  MaxTokens,     \* PoolInner.max_tokens
  Windowed,      \* is KvStateSchema.window set?
  Window,        \* its value when it is
  MaxLen,        \* bound: longest history explored
  MaxChunk,      \* bound: tokens per execution
  MaxLru         \* bound: no prefix match starts while lru is this long

Owners == Seqs \cup Handles

ASSUME KvPoolConstants ==
  /\ IsFiniteSet(Blocks) /\ Blocks # {} /\ NoBlock \notin Blocks
  /\ Seqs \cap Handles = {} /\ SessionSeqs \subseteq Seqs
  /\ BlockSize \in Nat \ {0} /\ MaxTokens \in Nat
  /\ Windowed \in BOOLEAN /\ Window \in Nat \ {0}
  /\ MaxLen \in Nat /\ MaxChunk \in Nat /\ MaxLru \in Nat

VARIABLES
  \* BlockStore, under one mutex
  free,       \* the free list (its LIFO order is abstracted)
  refcounts,
  hashes,     \* hash of a block, NoHash for None
  byHash,     \* by_hash as a relation: <<hash, block>> pairs
  lru,        \* queue of blocks that reached refcount 0 while hashed
  content,    \* ghost: tokens whose rows each block holds
  \* owners: SeqState of sequences, PrefixData of handles
  pc,         \* operation that holds the owner's run_lock
  blocks,     \* block table
  head,       \* blocks before this index were evicted by the window
  hist,       \* committed tokens (cursor, last_hash, pending)
  source,     \* owner a handle or a fork is being copied from
  \* sequences only
  tokens,     \* tokens of the running operation
  before,     \* block table at begin (CpuSequenceFrontier.blocks)
  tail,       \* RetainedCpuBlock of the running transaction
  dropping,   \* block replaced in the table, still to be unreferenced
  noted,      \* blocks hashed so far by the running note_tokens
  metadata,   \* DeferredPrefixMetadata.hashes of an unpublished admission
  deferring,  \* is the sequence still in an unpublished admission?
  released    \* NativeKvSequence.released

storeVars == <<free, refcounts, hashes, byHash, lru>>
tableVars == <<blocks, head, hist, source>>
runVars   == <<tokens, before, tail, dropping, noted>>
lifeVars  == <<metadata, deferring, released>>
vars == <<storeVars, content, pc, tableVars, runVars, lifeVars>>

NoHash  == <<>>
NoOwner == "none"
Unused  == "absent"

Smaller(a, b) == IF a <= b THEN a ELSE b
BlocksFor(n) == (n + BlockSize - 1) \div BlockSize
HashAt(t, i) == SubSeq(t, 1, i * BlockSize)    \* chain_hash of t's i-th block

Init ==
  /\ free = Blocks
  /\ refcounts = [b \in Blocks |-> 0]
  /\ hashes = [b \in Blocks |-> NoHash]
  /\ byHash = {}
  /\ lru = <<>>
  /\ content = [b \in Blocks |-> <<>>]
  /\ pc = [o \in Owners |-> Unused]
  /\ blocks = [o \in Owners |-> <<>>]
  /\ head = [o \in Owners |-> 0]
  /\ hist = [o \in Owners |-> <<>>]
  /\ source = [o \in Owners |-> NoOwner]
  /\ tokens = [s \in Seqs |-> <<>>]
  /\ before = [s \in Seqs |-> <<>>]
  /\ tail = [s \in Seqs |-> NoBlock]
  /\ dropping = [s \in Seqs |-> NoBlock]
  /\ noted = [s \in Seqs |-> 0]
  /\ metadata = [s \in Seqs |-> <<>>]
  /\ deferring = [s \in Seqs |-> s \in SessionSeqs]
  /\ released = [s \in Seqs |-> FALSE]

-----------------------------------------------------------------------------
(* BlockStore operations: each is one critical section.                    *)

IsCached(b) ==
  /\ refcounts[b] = 0
  /\ hashes[b] # NoHash
  /\ <<hashes[b], b>> \in byHash

\* free.len() + cached()
Available ==
  Cardinality(free) + Cardinality({e \in byHash : refcounts[e[2]] = 0})

AllocFree(b) ==
  /\ b \in free
  /\ free' = free \ {b}
  /\ UNCHANGED <<byHash, lru>>

\* Plausible bug of alloc_block, for mutation runs: the entry after the reclaimed
\* one is popped too.
AllocCachedPopsTwo(b) ==
  /\ free = {}
  /\ \E i \in 1 .. Len(lru) :
       /\ lru[i] = b /\ IsCached(b)
       /\ \A j \in 1 .. (i - 1) : ~ IsCached(lru[j])
       /\ lru' = SubSeq(lru, i + 2, Len(lru))
  /\ byHash' = byHash \ {<<hashes[b], b>>}
  /\ UNCHANGED free

\* Pops lru up to and including its first entry that is still cached.
AllocCached(b) ==
  /\ free = {}
  /\ \E i \in 1 .. Len(lru) :
       /\ lru[i] = b /\ IsCached(b)
       /\ \A j \in 1 .. (i - 1) : ~ IsCached(lru[j])
       /\ lru' = SubSeq(lru, i + 1, Len(lru))
  /\ byHash' = byHash \ {<<hashes[b], b>>}
  /\ UNCHANGED free

AllocBlock(b) ==
  /\ AllocFree(b) \/ AllocCached(b)
  /\ refcounts' = [refcounts EXCEPT ![b] = 1]
  /\ hashes' = [hashes EXCEPT ![b] = NoHash]

AllocExhausted ==
  /\ free = {}
  /\ \A j \in 1 .. Len(lru) : ~ IsCached(lru[j])
  /\ lru' = <<>>
  /\ UNCHANGED <<free, refcounts, hashes, byHash>>

RefBlock(b) ==
  /\ refcounts' = [refcounts EXCEPT ![b] = @ + 1]
  /\ UNCHANGED <<free, hashes, byHash, lru>>

TakeBlock(h, b) ==
  /\ <<h, b>> \in byHash
  /\ RefBlock(b)

\* Plausible bug: a hashed block is pushed on the free list.
UnrefToFreeList(b) ==
  LET count == IF refcounts[b] = 0 THEN 0 ELSE refcounts[b] - 1 IN
  /\ refcounts' = [refcounts EXCEPT ![b] = count]
  /\ free' = IF count = 0 THEN free \cup {b} ELSE free
  /\ UNCHANGED <<hashes, byHash, lru>>

UnrefBlock(b) ==
  LET count == IF refcounts[b] = 0 THEN 0 ELSE refcounts[b] - 1 IN
  /\ refcounts' = [refcounts EXCEPT ![b] = count]
  /\ lru'  = IF count = 0 /\ hashes[b] # NoHash THEN Append(lru, b) ELSE lru
  /\ free' = IF count = 0 /\ hashes[b] = NoHash THEN free \cup {b} ELSE free
  /\ UNCHANGED <<hashes, byHash>>

SetHash(b, h) ==
  /\ hashes' = [hashes EXCEPT ![b] = h]
  /\ byHash' = byHash \cup {<<h, b>>}
  /\ UNCHANGED <<free, refcounts, lru>>

\* install_prefix_metadata: entries in order, the last one of a block wins.
InstallMetadata(entries) ==
  /\ hashes' = [b \in Blocks |->
       LET mine == {i \in 1 .. Len(entries) : entries[i][2] = b}
           final == {i \in mine : \A j \in mine : j <= i}
       IN  IF final = {} THEN hashes[b]
           ELSE entries[CHOOSE i \in final : TRUE][1]]
  /\ byHash' = byHash \cup ToSet(entries)
  /\ UNCHANGED <<free, refcounts, lru>>

-----------------------------------------------------------------------------
(* Sequence creation and prefix matching.                                  *)

Goto(o, label) == pc' = [pc EXCEPT ![o] = label]

Push(o, b) == blocks' = [blocks EXCEPT ![o] = Append(@, b)]
Pop(o) == blocks' = [blocks EXCEPT ![o] = Front(@)]

\* A session sequence is created inside add, which defers its metadata.
NewSequence(s) ==
  /\ pc[s] = Unused
  /\ Goto(s, "idle")
  /\ UNCHANGED <<storeVars, content, tableVars, runVars, lifeVars>>

\* prefill_match takes the run_lock of an empty sequence.
MatchBegin(s, prompt) ==
  /\ pc[s] = "idle" /\ ~ released[s]
  /\ blocks[s] = <<>> /\ hist[s] = <<>>
  /\ Len(lru) < MaxLru
  /\ Goto(s, "match")
  /\ tokens' = [tokens EXCEPT ![s] = prompt]
  /\ UNCHANGED <<storeVars, content, tableVars, before, tail, dropping, noted,
                 lifeVars>>

\* The last prompt token is never matched: its logits must be computed.
Matchable(s) == (Len(tokens[s]) - 1) \div BlockSize

MatchTake(s) ==
  /\ pc[s] = "match"
  /\ Len(blocks[s]) < Matchable(s)
  /\ \E b \in Blocks :
       /\ TakeBlock(HashAt(tokens[s], Len(blocks[s]) + 1), b)
       /\ Push(s, b)
  /\ UNCHANGED <<content, pc, head, hist, source, runVars, lifeVars>>

MatchEnd(s) ==
  /\ pc[s] = "match"
  /\ Len(blocks[s]) < Matchable(s) =>
       \A b \in Blocks :
         <<HashAt(tokens[s], Len(blocks[s]) + 1), b>> \notin byHash
  /\ hist' = [hist EXCEPT ![s] = HashAt(tokens[s], Len(blocks[s]))]
  /\ tokens' = [tokens EXCEPT ![s] = <<>>]
  /\ Goto(s, "idle")
  /\ UNCHANGED <<storeVars, content, blocks, head, source, before, tail,
                 dropping, noted, lifeVars>>

-----------------------------------------------------------------------------
(* One transactional execution: begin, per-layer kv_prepare, kernel        *)
(* writes, then commit or rollback.                                        *)

Frontier(s) == Len(hist[s]) + Len(tokens[s])             \* needed
TailIndex(s) == (Len(hist[s]) \div BlockSize) + 1
HasTail(s) == Len(hist[s]) % BlockSize # 0 /\ TailIndex(s) <= Len(blocks[s])
\* Plausible bug: the sharing test is off by one.
TailSharedByTwo(s) == HasTail(s) /\ refcounts[blocks[s][TailIndex(s)]] > 2
TailShared(s) == HasTail(s) /\ refcounts[blocks[s][TailIndex(s)]] > 1
\* Plausible bug: one position too many leaves the window.
EvictionStartLate(n) == IF Windowed /\ n >= Window THEN n - Window + 1 ELSE 0
EvictionStart(n) == IF Windowed /\ n > Window THEN n - Window ELSE 0

ExecBegin(s, t) ==
  /\ pc[s] = "idle" /\ ~ released[s]
  /\ Len(hist[s]) + Len(t) <= MaxLen
  /\ ~ Windowed => Len(hist[s]) + Len(t) <= MaxTokens
  /\ tokens' = [tokens EXCEPT ![s] = t]
  /\ before' = [before EXCEPT ![s] = blocks[s]]
  /\ Goto(s, IF TailShared(s) THEN "retain" ELSE "prepare")
  /\ UNCHANGED <<storeVars, content, tableVars, tail, dropping, noted,
                 lifeVars>>

\* begin saw refcount > 1 and now takes its own reference to the tail.
RetainTail(s) ==
  /\ pc[s] = "retain"
  /\ LET b == blocks[s][TailIndex(s)] IN
       /\ RefBlock(b)
       /\ tail' = [tail EXCEPT ![s] = b]
  /\ Goto(s, "prepare")
  /\ UNCHANGED <<content, tableVars, tokens, before, dropping, noted, lifeVars>>

\* kv_prepare: live-context check, then copy_shared_tail's sharing test.
Prepare(s) ==
  /\ pc[s] = "prepare"
  /\ Goto(s, IF Frontier(s) - EvictionStart(Frontier(s)) > MaxTokens
             THEN "rollback"
             ELSE IF TailShared(s) THEN "copy" ELSE "alloc")
  /\ UNCHANGED <<storeVars, content, tableVars, runVars, lifeVars>>

CopyTail(s) ==
  /\ pc[s] = "copy"
  /\ \/ \E b \in Blocks :
          LET old == blocks[s][TailIndex(s)] IN
          /\ AllocBlock(b)
          /\ content' = [content EXCEPT ![b] = content[old]]
          /\ blocks' = [blocks EXCEPT ![s][TailIndex(s)] = b]
          /\ dropping' = [dropping EXCEPT ![s] = old]
          /\ Goto(s, "copied")
     \/ /\ AllocExhausted
        /\ Goto(s, "rollback")
        /\ UNCHANGED <<content, blocks, dropping>>
  /\ UNCHANGED <<head, hist, source, tokens, before, tail, noted, lifeVars>>

\* Drops the replaced block: copy_shared_tail's, or rollback's copy.
DropReplaced(s) ==
  /\ pc[s] \in {"copied", "restored"}
  /\ UnrefBlock(dropping[s])
  /\ dropping' = [dropping EXCEPT ![s] = NoBlock]
  /\ Goto(s, IF pc[s] = "copied" THEN "alloc" ELSE "rollback")
  /\ UNCHANGED <<content, tableVars, tokens, before, tail, noted, lifeVars>>

AllocNext(s) ==
  /\ pc[s] = "alloc"
  /\ Len(blocks[s]) < BlocksFor(Frontier(s))
  /\ \/ \E b \in Blocks : AllocBlock(b) /\ Push(s, b) /\ UNCHANGED pc
     \/ AllocExhausted /\ Goto(s, "rollback") /\ UNCHANGED blocks
  /\ UNCHANGED <<content, head, hist, source, runVars, lifeVars>>

\* The kernels write the rows at cursor .. needed - 1 in place.
WriteRows(s) ==
  /\ pc[s] = "alloc"
  /\ Len(blocks[s]) >= BlocksFor(Frontier(s))
  /\ LET all == hist[s] \o tokens[s]
         written == TailIndex(s) .. BlocksFor(Frontier(s))
     IN content' = [b \in Blocks |->
          IF \E i \in written : blocks[s][i] = b
          THEN LET i == CHOOSE i \in written : blocks[s][i] = b
               IN  SubSeq(all, 1, Smaller(Len(all), i * BlockSize))
          ELSE content[b]]
  /\ Goto(s, "computed")
  /\ UNCHANGED <<storeVars, tableVars, runVars, lifeVars>>

\* A command fails, sampling fails, or cancellation wins before the commit.
Fail(s) ==
  /\ pc[s] \in {"prepare", "alloc", "computed"}
  /\ Goto(s, "rollback")
  /\ UNCHANGED <<storeVars, content, tableVars, runVars, lifeVars>>

Commit(s) ==
  /\ pc[s] = "computed"
  /\ Goto(s, "evict")
  /\ UNCHANGED <<storeVars, content, tableVars, runVars, lifeVars>>

CanEvict(s) ==
  /\ head[s] < Len(blocks[s])
  /\ (head[s] + 1) * BlockSize <= EvictionStart(Frontier(s))

\* Plausible bug: head moves on without unref_block.
EvictLeaks(s) ==
  /\ pc[s] = "evict" /\ CanEvict(s)
  /\ head' = [head EXCEPT ![s] = @ + 1]
  /\ UNCHANGED <<storeVars, content, pc, blocks, hist, source, runVars,
                 lifeVars>>

\* kv_evict, one block per critical section.
Evict(s) ==
  /\ pc[s] = "evict" /\ CanEvict(s)
  /\ UnrefBlock(blocks[s][head[s] + 1])
  /\ head' = [head EXCEPT ![s] = @ + 1]
  /\ UNCHANGED <<content, pc, blocks, hist, source, runVars, lifeVars>>

\* The transaction record is dropped, and its retained tail with it.
CommitEnd(s) ==
  /\ pc[s] = "evict" /\ ~ CanEvict(s)
  /\ IF tail[s] = NoBlock THEN UNCHANGED storeVars ELSE UnrefBlock(tail[s])
  /\ tail' = [tail EXCEPT ![s] = NoBlock]
  /\ noted' = [noted EXCEPT ![s] = Len(hist[s]) \div BlockSize]
  /\ Goto(s, "note")
  /\ UNCHANGED <<content, tableVars, tokens, before, dropping, lifeVars>>

CompletedBlocks(s) == Frontier(s) \div BlockSize
AdvanceCursor(s) ==
  /\ hist' = [hist EXCEPT ![s] = @ \o tokens[s]]
  /\ tokens' = [tokens EXCEPT ![s] = <<>>]
  /\ before' = [before EXCEPT ![s] = <<>>]
  /\ noted' = [noted EXCEPT ![s] = 0]
  /\ Goto(s, "idle")

\* note_tokens: set_hash for every block the chunk completed.
Note(s) ==
  /\ pc[s] = "note" /\ ~ deferring[s]
  /\ noted[s] < CompletedBlocks(s)
  /\ SetHash(blocks[s][noted[s] + 1],
             HashAt(hist[s] \o tokens[s], noted[s] + 1))
  /\ noted' = [noted EXCEPT ![s] = @ + 1]
  /\ UNCHANGED <<content, pc, tableVars, tokens, before, tail, dropping,
                 lifeVars>>

NoteEnd(s) ==
  /\ pc[s] = "note" /\ ~ deferring[s]
  /\ noted[s] = CompletedBlocks(s)
  /\ AdvanceCursor(s)
  /\ UNCHANGED <<storeVars, content, blocks, head, source, tail, dropping,
                 lifeVars>>

\* note_tokens_deferred: the same pairs, kept aside until publication.
NoteDeferred(s) ==
  /\ pc[s] = "note" /\ deferring[s]
  /\ LET pair(i) == <<HashAt(hist[s] \o tokens[s], noted[s] + i),
                      blocks[s][noted[s] + i]>>
     IN metadata' = [metadata EXCEPT ![s] =
          @ \o [i \in 1 .. (CompletedBlocks(s) - noted[s]) |-> pair(i)]]
  /\ AdvanceCursor(s)
  /\ UNCHANGED <<storeVars, content, blocks, head, source, tail, dropping,
                 deferring, released>>

\* publish_deferred_prefixes: installed together with the round receipt.
Publish(s) ==
  /\ pc[s] = "idle" /\ deferring[s] /\ ~ released[s]
  /\ hist[s] # <<>>
  /\ InstallMetadata(metadata[s])
  /\ metadata' = [metadata EXCEPT ![s] = <<>>]
  /\ deferring' = [deferring EXCEPT ![s] = FALSE]
  /\ UNCHANGED <<content, pc, tableVars, runVars, released>>

RollbackBlock(s) ==
  /\ pc[s] = "rollback"
  /\ Len(blocks[s]) > Len(before[s])
  /\ UnrefBlock(Last(blocks[s]))
  /\ Pop(s)
  /\ UNCHANGED <<content, pc, head, hist, source, runVars, lifeVars>>

\* Plausible bugs: rollback truncates the table and forgets the tail; it puts
\* the tail back without taking the table's reference to it.
TailForgotten(s) == FALSE
RestoreTailUncounted(s) ==
  /\ pc[s] = "rollback"
  /\ Len(blocks[s]) = Len(before[s])
  /\ tail[s] # NoBlock /\ blocks[s][TailIndex(s)] # tail[s]
  /\ dropping' = [dropping EXCEPT ![s] = blocks[s][TailIndex(s)]]
  /\ blocks' = [blocks EXCEPT ![s][TailIndex(s)] = tail[s]]
  /\ Goto(s, "restored")
  /\ UNCHANGED <<storeVars, content, head, hist, source, tokens, before, tail,
                 noted, lifeVars>>

TailReplaced(s) == tail[s] # NoBlock /\ blocks[s][TailIndex(s)] # tail[s]

RestoreTail(s) ==
  /\ pc[s] = "rollback"
  /\ Len(blocks[s]) = Len(before[s]) /\ TailReplaced(s)
  /\ RefBlock(tail[s])
  /\ dropping' = [dropping EXCEPT ![s] = blocks[s][TailIndex(s)]]
  /\ blocks' = [blocks EXCEPT ![s][TailIndex(s)] = tail[s]]
  /\ Goto(s, "restored")
  /\ UNCHANGED <<content, head, hist, source, tokens, before, tail, noted,
                 lifeVars>>

RollbackEnd(s) ==
  /\ pc[s] = "rollback"
  /\ Len(blocks[s]) = Len(before[s]) /\ ~ TailReplaced(s)
  /\ IF tail[s] = NoBlock THEN UNCHANGED storeVars ELSE UnrefBlock(tail[s])
  /\ tail' = [tail EXCEPT ![s] = NoBlock]
  /\ tokens' = [tokens EXCEPT ![s] = <<>>]
  /\ before' = [before EXCEPT ![s] = <<>>]
  /\ Goto(s, "idle")
  /\ UNCHANGED <<content, tableVars, dropping, noted, lifeVars>>

-----------------------------------------------------------------------------
(* Release, immutable prefixes and forks.                                  *)

\* release, drop or finalization: the flag is swapped before the run_lock.
RequestRelease(s) ==
  /\ pc[s] \notin {Unused, "copying"} /\ ~ released[s]
  /\ released' = [released EXCEPT ![s] = TRUE]
  /\ UNCHANGED <<storeVars, content, pc, tableVars, runVars, metadata,
                 deferring>>

\* Plausible bug: return_blocks sees the flag set and leaves the blocks.
ReturnSkipped(s) == pc[s] = "idle" /\ released[s] /\ UNCHANGED vars

ReturnBegin(s) ==
  /\ pc[s] = "idle" /\ released[s]
  /\ Goto(s, "return")
  /\ UNCHANGED <<storeVars, content, tableVars, runVars, lifeVars>>

\* The last Arc of a prefix goes away: no fork is reading it.
DropPrefix(p) ==
  /\ pc[p] = "idle"
  /\ \A s \in Seqs : source[s] # p
  /\ Goto(p, "return")
  /\ UNCHANGED <<storeVars, content, tableVars, runVars, lifeVars>>

ReturnBlock(o) ==
  /\ pc[o] = "return"
  /\ Len(blocks[o]) > head[o]
  /\ UnrefBlock(Last(blocks[o]))
  /\ Pop(o)
  /\ UNCHANGED <<content, pc, head, hist, source, runVars, lifeVars>>

\* Plausible bugs: state of the old object shows through in the new one.
KeepHead(o) == UNCHANGED head
KeepMetadata(o) == UNCHANGED metadata

ResetHead(o) == head' = [head EXCEPT ![o] = 0]
DiscardMetadata(o) ==
  metadata' = [s \in Seqs |-> IF s = o THEN <<>> ELSE metadata[s]]

\* The owner is gone; its name may be used for a new object.
ReturnEnd(o) ==
  /\ pc[o] = "return"
  /\ Len(blocks[o]) <= head[o]
  /\ Goto(o, Unused)
  /\ blocks' = [blocks EXCEPT ![o] = <<>>]
  /\ hist' = [hist EXCEPT ![o] = <<>>]
  /\ ResetHead(o) /\ DiscardMetadata(o)
  /\ deferring' = [s \in Seqs |-> IF s = o THEN s \in SessionSeqs
                                  ELSE deferring[s]]
  /\ released' = [s \in Seqs |-> released[s] /\ s # o]
  /\ UNCHANGED <<storeVars, content, source, runVars>>

\* Both copies start from the evicted part of the source's block table.
CopyFrom(from, to) ==
  /\ source' = [source EXCEPT ![to] = from]
  /\ head' = [head EXCEPT ![to] = head[from]]
  /\ blocks' = [blocks EXCEPT ![to] = SubSeq(blocks[from], 1, head[from])]
  /\ UNCHANGED <<storeVars, content, hist, runVars, lifeVars>>

\* snapshot holds the sequence's run_lock while it takes references.
SnapshotBegin(s, p) ==
  /\ pc[s] = "idle" /\ ~ released[s] /\ s \notin SessionSeqs
  /\ pc[p] = Unused
  /\ pc' = [pc EXCEPT ![s] = "lent", ![p] = "copying"]
  /\ CopyFrom(s, p)

ForkBegin(p, s) ==
  /\ pc[p] = "idle"
  /\ pc[s] = Unused /\ s \notin SessionSeqs
  /\ Goto(s, "copying")
  /\ CopyFrom(p, s)

CopyRef(o) ==
  /\ pc[o] = "copying"
  /\ Len(blocks[o]) < Len(blocks[source[o]])
  /\ LET b == blocks[source[o]][Len(blocks[o]) + 1] IN
       RefBlock(b) /\ Push(o, b)
  /\ UNCHANGED <<content, pc, head, hist, source, runVars, lifeVars>>

CopyEnd(o) ==
  /\ pc[o] = "copying"
  /\ Len(blocks[o]) = Len(blocks[source[o]])
  /\ hist' = [hist EXCEPT ![o] = hist[source[o]]]
  /\ source' = [source EXCEPT ![o] = NoOwner]
  /\ pc' = [x \in Owners |-> IF x \in {o, source[o]} THEN "idle" ELSE pc[x]]
  /\ UNCHANGED <<storeVars, content, blocks, head, runVars, lifeVars>>

-----------------------------------------------------------------------------
(* Specification.                                                          *)

Chunks(n) == SeqOf(Token, n) \ {<<>>}

Execution(s) ==
  \/ RetainTail(s) \/ Prepare(s) \/ CopyTail(s) \/ DropReplaced(s)
  \/ AllocNext(s) \/ WriteRows(s) \/ Fail(s) \/ Commit(s)
  \/ Evict(s) \/ CommitEnd(s) \/ Note(s) \/ NoteEnd(s) \/ NoteDeferred(s)
  \/ RollbackBlock(s) \/ RestoreTail(s) \/ RollbackEnd(s)

Matching(s) == MatchTake(s) \/ MatchEnd(s)
Returning(o) == ReturnBlock(o) \/ ReturnEnd(o)
Copying(o) == CopyRef(o) \/ CopyEnd(o)

Client ==
  \/ \E s \in Seqs :
       \/ NewSequence(s) \/ RequestRelease(s) \/ Publish(s)
       \/ \E prompt \in Chunks(MaxLen) : MatchBegin(s, prompt)
       \/ \E t \in Chunks(MaxChunk) : ExecBegin(s, t)
       \/ \E p \in Handles : SnapshotBegin(s, p) \/ ForkBegin(p, s)
  \/ \E p \in Handles : DropPrefix(p)

Next ==
  \/ Client
  \/ \E s \in Seqs : Matching(s) \/ Execution(s) \/ ReturnBegin(s)
  \/ \E o \in Owners : Returning(o) \/ Copying(o)

Spec == Init /\ [][Next]_vars

\* An operation that holds a run_lock runs on a blocking worker to its end,
\* and a released sequence is returned by the thread that swapped the flag.
Fairness ==
  /\ \A s \in Seqs : WF_vars(Matching(s)) /\ WF_vars(Execution(s))
                     /\ WF_vars(ReturnBegin(s))
  /\ \A o \in Owners : WF_vars(Returning(o)) /\ WF_vars(Copying(o))

FairSpec == Spec /\ Fairness
-----------------------------------------------------------------------------
(* Properties.                                                             *)

\* The block named by reference slot <<o, i>>: i > 0 is an entry of o's live
\* table, 0 the tail its transaction retains, -1 the entry it is replacing.
Slot(o, i) ==
  IF i > 0
  THEN IF head[o] < i /\ i <= Len(blocks[o]) THEN blocks[o][i] ELSE NoBlock
  ELSE IF o \notin Seqs THEN NoBlock
  ELSE IF i = 0 THEN tail[o] ELSE dropping[o]

Refs(b) == UNION {{o} \X {i \in -1 .. Len(blocks[o]) : Slot(o, i) = b} :
                  o \in Owners}

SeqPcs == {Unused, "idle", "match", "retain", "prepare", "copy", "copied",
           "alloc", "computed", "evict", "note", "rollback", "restored",
           "lent", "copying", "return"}

StoreType ==
  /\ free \subseteq Blocks
  /\ refcounts \in [Blocks -> Nat]
  /\ hashes \in [Blocks -> Seq(Token)]
  /\ byHash \subseteq Seq(Token) \X Blocks
  /\ lru \in Seq(Blocks)

TableType ==
  /\ pc \in [Owners -> SeqPcs]
  /\ blocks \in [Owners -> Seq(Blocks)]
  /\ head \in [Owners -> Nat]
  /\ hist \in [Owners -> Seq(Token)]
  /\ source \in [Owners -> Owners \cup {NoOwner}]
  /\ \A o \in Owners : head[o] <= Len(blocks[o])

RunType ==
  /\ content \in [Blocks -> Seq(Token)]
  /\ tokens \in [Seqs -> Seq(Token)]
  /\ before \in [Seqs -> Seq(Blocks)]
  /\ tail \in [Seqs -> Blocks \cup {NoBlock}]
  /\ dropping \in [Seqs -> Blocks \cup {NoBlock}]
  /\ noted \in [Seqs -> Nat]
  /\ metadata \in [Seqs -> Seq(Seq(Token) \X Blocks)]
  /\ deferring \in [Seqs -> BOOLEAN]
  /\ released \in [Seqs -> BOOLEAN]

\* Every variable has its type and no owner evicts past its block table.
TypeOK == StoreType /\ TableType /\ RunType

\* A block's reference count is the number of references that exist to it:
\* live table entries of sequences and prefixes, retained tails, and entries
\* being replaced (ref_block/unref_block pairing over every operation).
RefcountExact == \A b \in Blocks : refcounts[b] = Cardinality(Refs(b))

\* No block leaks and none is in two places: it is free exactly when nobody
\* references it and it carries no hash, and it is indexed under a hash
\* exactly when it carries that hash (BlockStore.free, hashes, by_hash).
Conserved ==
  \A b \in Blocks :
    /\ b \in free <=> refcounts[b] = 0 /\ hashes[b] = NoHash
    /\ {e[1] : e \in {x \in byHash : x[2] = b}} = {hashes[b]} \ {NoHash}

\* Every cached block can still be found by alloc_block, so an allocation
\* fails only when available() is 0.
Reclaimable == \A b \in Blocks : IsCached(b) => b \in ToSet(lru)

\* The cache never serves stale rows: a block indexed under a hash holds the
\* rows of exactly the tokens that were hashed (set_hash, take_block).
CacheContent == \A e \in byHash : content[e[2]] = e[1]

\* A sequence or prefix reads its own history: whatever other owners do, its
\* live blocks hold the rows of its committed tokens (copy_shared_tail,
\* prefill_match, fork_sequence, rollback).
OwnHistory ==
  \A o \in Owners : pc[o] \notin {Unused, "return"} =>
    \A i \in (head[o] + 1) .. BlocksFor(Len(hist[o])) :
      IsPrefix(SubSeq(hist[o], 1, Smaller(Len(hist[o]), i * BlockSize)),
               content[blocks[o][i]])

\* A failed or cancelled execution leaves the sequence as begin found it,
\* its shared tail included (CpuState::rollback).
RollbackExact ==
  [][\A s \in Seqs : pc[s] = "rollback" /\ pc'[s] = "idle" =>
       blocks'[s] = before[s] /\ hist'[s] = hist[s]]_vars

\* A windowed owner keeps every block that holds one of its last Window
\* committed positions (kv_evict).
Reach(o) == IF o \in Seqs /\ pc[o] \in {"evict", "note"} THEN Frontier(o)
            ELSE Len(hist[o])
WindowRetained ==
  Windowed => \A o \in Owners : pc[o] \notin {Unused, "return", "copying"} =>
    head[o] * BlockSize <= Reach(o) - Smaller(Window, Reach(o))

\* available() counts each block that could be handed out once.
AvailableBounded == Available <= Cardinality(Blocks)

\* A released sequence always gives its blocks back (return_blocks).
Returned == \A s \in Seqs : released[s] ~> pc[s] = Unused
=============================================================================
