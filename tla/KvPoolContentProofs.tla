------------------------ MODULE KvPoolContentProofs ------------------------
(***************************************************************************)
(* Contents of the key/value pool: a cached block holds the rows of the    *)
(* tokens it is indexed under, and every owner reads its own history.      *)
(***************************************************************************)
EXTENDS KvPoolRefsProofs

-----------------------------------------------------------------------------
(* Rows.                                                                   *)

\* The rows of t that lie in its first i blocks.
RowsTo(t, i) == SubSeq(t, 1, Smaller(Len(t), i * BlockSize))

LEMMA PrefixOfPrefix ==
  ASSUME NEW t \in Seq(Token), NEW m \in Nat, NEW n \in Nat, m <= n, n <= Len(t)
  PROVE  SubSeq(SubSeq(t, 1, n), 1, m) = SubSeq(t, 1, m)
<1>1. CASE m = 0
  BY <1>1, SubSeqEmpty
<1>2. CASE m # 0
  <2>1. /\ 1 \in 1 .. Len(t) /\ n \in 1 .. Len(t)
        /\ 1 \in 1 .. n - 1 + 1 /\ m \in 1 .. n - 1 + 1
    BY <1>2
  <2>2. SubSeq(SubSeq(t, 1, n), 1, m) = SubSeq(t, 1 + 1 - 1, 1 + m - 1)
    BY <2>1, SubSeqOfSubSeq
  <2> QED BY <2>2
<1> QED BY <1>1, <1>2

LEMMA PrefixWithin ==
  ASSUME NEW h \in Seq(Token), NEW t \in Seq(Token), NEW m \in Nat, Len(h) <= m,
         m <= Len(h \o t)
  PROVE  IsPrefix(h, SubSeq(h \o t, 1, m))
<1>1. h \o t \in Seq(Token) /\ Len(h) \in Nat
  BY ConcatProperties
<1>2. Len(SubSeq(h \o t, 1, m)) = m
  BY <1>1, PrefixOf
<1>3. SubSeq(SubSeq(h \o t, 1, m), 1, Len(h)) = SubSeq(h \o t, 1, Len(h))
  BY <1>1, PrefixOfPrefix
<1>4. SubSeq(h \o t, 1, Len(h)) = SubSeq(h, 1, Len(h))
  <2>1. CASE Len(h) = 0
    BY <2>1, SubSeqEmpty
  <2>2. CASE Len(h) # 0
    <3>1. 1 \in 1 .. Len(h) /\ Len(h) \in 1 .. Len(h)
      BY <1>1, <2>2
    <3> QED BY <3>1, SubSeqOfConcat1
  <2> QED BY <2>1, <2>2
<1> QED BY <1>2, <1>3, <1>4 DEF IsPrefix

LEMMA PrefixSelf ==
  ASSUME NEW h \in Seq(Token)
  PROVE  IsPrefix(h, h)
  BY DEF IsPrefix

LEMMA RowsWhole ==
  ASSUME NEW t \in Seq(Token), NEW i \in Nat, i <= Len(t) \div BlockSize
  PROVE  RowsTo(t, i) = HashAt(t, i)
<1>1. Len(t) \in Nat
  OBVIOUS
<1>2. i * BlockSize \in Nat /\ i * BlockSize <= Len(t)
  BY <1>1, BlockEndFits
<1>3. Smaller(Len(t), i * BlockSize) = i * BlockSize
  BY <1>1, <1>2 DEF Smaller
<1> QED BY <1>3 DEF RowsTo, HashAt

\* The end of a block that the rows do not complete.
LEMMA EndBeyond ==
  ASSUME NEW n \in Nat, NEW i \in Nat, i > n \div BlockSize
  PROVE  i * BlockSize \in Nat /\ n <= i * BlockSize
<1> DEFINE d == BlockSize
           q == n \div d
<1>1. d \in Nat \ {0} /\ q \in Nat /\ n < d * (q + 1) /\ q + 1 <= i
  BY KvPoolConstants, DivBounds
<1> HIDE DEF d, q
<1>2. d * (q + 1) <= d * i /\ d * i \in Nat /\ i * d = d * i
  BY <1>1
<1>3. n < d * i
  BY <1>1, <1>2
<1> QED BY <1>2, <1>3 DEF d

LEMMA RowsAll ==
  ASSUME NEW t \in Seq(Token), NEW i \in Nat, i > Len(t) \div BlockSize
  PROVE  RowsTo(t, i) = t
<1>1. Len(t) \in Nat
  OBVIOUS
<1>2. i * BlockSize \in Nat /\ Len(t) <= i * BlockSize
  BY <1>1, EndBeyond
<1>3. Smaller(Len(t), i * BlockSize) = Len(t)
  BY <1>1, <1>2 DEF Smaller
<1> QED BY <1>3, SubSeqFull DEF RowsTo

\* The rows an execution writes keep the history they follow.
LEMMA RowsKeep ==
  ASSUME NEW h \in Seq(Token), NEW t \in Seq(Token), NEW i \in Nat, i > Len(h) \div BlockSize
  PROVE  IsPrefix(h, RowsTo(h \o t, i))
<1>1. h \o t \in Seq(Token) /\ Len(h) \in Nat /\ Len(h \o t) \in Nat /\ Len(h) <= Len(h \o t)
  BY ConcatProperties
<1>2. i * BlockSize \in Nat /\ Len(h) <= i * BlockSize
  BY <1>1, EndBeyond
<1>3. PICK m \in Nat : m = Smaller(Len(h \o t), i * BlockSize)
  BY <1>1, <1>2 DEF Smaller
<1>4. Len(h) <= m /\ m <= Len(h \o t)
  BY <1>1, <1>2, <1>3 DEF Smaller
<1> QED BY <1>3, <1>4, PrefixWithin DEF RowsTo

LEMMA TailCeil ==
  ASSUME NEW n \in Nat, n % BlockSize # 0
  PROVE  BlocksFor(n) = (n \div BlockSize) + 1
<1> DEFINE d == BlockSize
           q == n \div d
           p == (n + d - 1) \div d
<1>1. d \in Nat \ {0} /\ q \in Nat /\ d * q <= n /\ d * q # n /\ n < d * (q + 1)
  BY KvPoolConstants, DivBounds
<1>2. n + d - 1 \in Nat
  BY <1>1
<1>3. d * (q + 1) <= n + d - 1
  <2>1. d * (q + 1) = d * q + d
    BY <1>1
  <2> HIDE DEF q
  <2> QED BY <1>1, <2>1
<1>4. d * (q + 1) \in Nat /\ (d * (q + 1)) \div d = q + 1
  <2>1. q + 1 \in Nat
    BY <1>1
  <2>2. ((q + 1) * BlockSize) \div BlockSize = q + 1
    BY <2>1, WholeBlocks
  <2>3. d * (q + 1) = (q + 1) * BlockSize
    BY <1>1
  <2> QED BY <1>1, <2>2, <2>3
<1>5. q + 1 <= p
  BY <1>1, <1>2, <1>3, <1>4, DivMonotone
<1>6. BlocksFor(n) <= q + 1 /\ BlocksFor(n) = p
  BY TailFits DEF BlocksFor
<1> QED BY <1>1, <1>2, <1>5, <1>6, DivBounds

-----------------------------------------------------------------------------
(* What the blocks hold.                                                   *)

\* Operations of a sequence whose kernels have written the chunk's rows.
Written == {"computed", "evict", "note"}

\* The block at place i of o holds the rows that o will read there.
Holds(o, i) ==
  /\ pc[o] \notin {"match", "copying"} =>
       /\ i > 0 /\ i <= Len(hist[o]) \div BlockSize =>
            content[Slot(o, i)] = HashAt(hist[o], i)
       /\ i = (Len(hist[o]) \div BlockSize) + 1 /\ Len(hist[o]) % BlockSize # 0 =>
            IsPrefix(hist[o], content[Slot(o, i)])
       /\ i = 0 => IsPrefix(hist[o], content[Slot(o, i)])
  /\ o \in Seqs /\ pc[o] \in Written /\ i > Len(hist[o]) \div BlockSize =>
       content[Slot(o, i)] = RowsTo(hist[o] \o tokens[o], i)
  /\ o \in Seqs /\ pc[o] = "match" /\ i > 0 => content[Slot(o, i)] = HashAt(tokens[o], i)

HashedInv == \A b \in Blocks : hashes[b] # NoHash => content[b] = hashes[b]
ContentInv ==
  /\ HashedInv
  /\ \A o \in Owners : \A i \in Index : Slot(o, i) # NoBlock => Holds(o, i)

\* o goes on with what it reads.
Continues(o) ==
  /\ hist'[o] = hist[o]
  /\ pc[o] \in {"match", "copying"} => pc'[o] = pc[o]
  /\ pc'[o] \in Written => pc[o] \in Written
  /\ pc'[o] = "match" => pc[o] = "match"
  /\ o \in Seqs /\ pc'[o] \in Written \cup {"match"} => tokens'[o] = tokens[o]

LEMMA HoldsKeeps ==
  ASSUME NEW o \in Owners, NEW i \in Index, Holds(o, i), NextSlot(o, i) = Slot(o, i),
         content'[Slot(o, i)] = content[Slot(o, i)], Continues(o)
  PROVE  Holds(o, i)'
<1>1. Slot(o, i)' = Slot(o, i)
  BY SlotNext
<1>2. content'[Slot(o, i)'] = content[Slot(o, i)] /\ hist'[o] = hist[o]
  BY <1>1 DEF Continues
<1>3. pc'[o] \notin {"match", "copying"} => pc[o] \notin {"match", "copying"}
  BY DEF Continues
<1>4. /\ HashAt(hist[o], i)' = HashAt(hist[o], i)
      /\ o \in Seqs /\ pc'[o] \in Written =>
           pc[o] \in Written /\ RowsTo(hist[o] \o tokens[o], i)' = RowsTo(hist[o] \o tokens[o], i)
      /\ o \in Seqs /\ pc'[o] = "match" =>
           pc[o] = "match" /\ HashAt(tokens[o], i)' = HashAt(tokens[o], i)
  BY DEF Continues, HashAt, RowsTo
<1> QED BY <1>2, <1>3, <1>4 DEF Holds

LEMMA HashedKept ==
  ASSUME HashedInv, NoNewHash, UNCHANGED content
  PROVE  HashedInv'
  BY DEF HashedInv, NoNewHash

LEMMA NoNewHashes ==
  ASSUME TypeInv,
         \/ UNCHANGED storeVars
         \/ \E b \in Blocks : RefBlock(b) \/ UnrefBlock(b) \/ AllocBlock(b)
         \/ AllocExhausted
  PROVE  NoNewHash
  BY Typed DEF NoNewHash, storeVars, RefBlock, UnrefBlock, AllocBlock, AllocExhausted

LEMMA ContentAlone ==
  ASSUME TypeInv, ContentInv, NEW o \in Owners, Alone(o), HashedInv',
         \A q \in Owners \ {o} : \A j \in Index :
           Slot(q, j) # NoBlock => content'[Slot(q, j)] = content[Slot(q, j)],
         \A i \in Index : NextSlot(o, i) # NoBlock => Holds(o, i)'
  PROVE  ContentInv'
<1> SUFFICES ASSUME NEW q \in Owners, NEW i \in Index, NextSlot(q, i) # NoBlock
             PROVE  Holds(q, i)'
  BY SlotNext DEF ContentInv
<1>1. CASE q # o
  <2>1. Kept(q)
    BY <1>1 DEF Alone
  <2>2. NextSlot(q, i) = Slot(q, i)
    BY <2>1, KeptSlots DEF SlotsKept
  <2>3. Continues(q)
    BY <2>1 DEF Kept, SameTable, SameSeq, SameRun, Continues
  <2>4. Holds(q, i) /\ content'[Slot(q, i)] = content[Slot(q, i)]
    BY <1>1, <2>2 DEF ContentInv
  <2> QED BY <2>2, <2>3, <2>4, HoldsKeeps
<1> QED BY <1>1

\* A step of o that only gives references up.
LEMMA ContentSteady ==
  ASSUME TypeInv, ContentInv, NEW o \in Owners, Alone(o), UNCHANGED content, NoNewHash,
         Continues(o), \A i \in Index : NextSlot(o, i) \in {Slot(o, i), NoBlock}
  PROVE  ContentInv'
<1>1. HashedInv'
  BY HashedKept DEF ContentInv
<1>2. ASSUME NEW i \in Index, NextSlot(o, i) # NoBlock PROVE Holds(o, i)'
  <2>1. NextSlot(o, i) = Slot(o, i) /\ Holds(o, i)
    BY <1>2 DEF ContentInv
  <2> QED BY <2>1, HoldsKeeps
<1> QED BY <1>1, <1>2, ContentAlone

\* Nothing is claimed of a block that is being replaced.
LEMMA DroppedHolds == TypeInv => \A o \in Owners : Holds(o, -1)
<1> SUFFICES ASSUME TypeInv, NEW o \in Owners PROVE Holds(o, -1)
  OBVIOUS
<1>1. Len(hist[o]) \in Nat
  BY Typed
<1>2. Len(hist[o]) \div BlockSize \in Nat
  BY <1>1, KvPoolConstants, DivBounds
<1>3. /\ ~ (-1 > 0) /\ -1 # (Len(hist[o]) \div BlockSize) + 1 /\ -1 # 0
      /\ ~ (-1 > Len(hist[o]) \div BlockSize)
  BY <1>2
<1> QED BY <1>3 DEF Holds

LEMMA NextDroppedHolds == TypeInv' => (\A o \in Owners : Holds(o, -1))'
  BY DroppedHolds, PTL

\* A step of o that gives place k a block.
LEMMA ContentPlace ==
  ASSUME TypeInv, TypeInv', ContentInv, NEW o \in Owners, Alone(o), UNCHANGED content, NoNewHash,
         Continues(o), NEW k \in Index,
         \A i \in Index \ {k, -1} : NextSlot(o, i) \in {Slot(o, i), NoBlock},
         Holds(o, k)'
  PROVE  ContentInv'
<1>1. HashedInv'
  BY HashedKept DEF ContentInv
<1>2. ASSUME NEW i \in Index, NextSlot(o, i) # NoBlock PROVE Holds(o, i)'
  <2>1. CASE i = k
    BY <2>1
  <2>2. CASE i = -1 /\ i # k
    BY <2>2, NextDroppedHolds
  <2>3. CASE i # k /\ i # -1
    <3>1. NextSlot(o, i) = Slot(o, i) /\ Holds(o, i)
      BY <1>2, <2>3 DEF ContentInv
    <3> QED BY <3>1, HoldsKeeps
  <2> QED BY <2>1, <2>2, <2>3
<1> QED BY <1>1, <1>2, ContentAlone

-----------------------------------------------------------------------------
(* Steps that write no rows.                                               *)

LEMMA SlotsLess ==
  ASSUME TypeInv, NEW o \in Owners, blocks'[o] = blocks[o],
         head'[o] = head[o] \/ head'[o] = head[o] + 1,
         o \in Seqs => /\ tail'[o] \in {tail[o], NoBlock}
                       /\ dropping'[o] \in {dropping[o], NoBlock}
  PROVE  \A i \in Index : NextSlot(o, i) \in {Slot(o, i), NoBlock}
<1>1. head[o] \in Nat
  BY Typed
<1>2. \A i \in Index : head'[o] < i => head[o] < i
  BY <1>1 DEF Index
<1> QED BY <1>2 DEF Slot, NextSlot

LEMMA ContentQuiet ==
  ASSUME TypeInv, ContentInv, Quiet
  PROVE  ContentInv'
<1>1. HashedInv'
  <2>1. hashes' = hashes /\ content' = content
    BY DEF Quiet, SameStore
  <2> QED BY <2>1 DEF ContentInv, HashedInv
<1>2. ASSUME NEW q \in Owners, NEW i \in Index, NextSlot(q, i) # NoBlock PROVE Holds(q, i)'
  <2>1. Kept(q) /\ content' = content
    BY DEF Quiet, SameStore
  <2>2. NextSlot(q, i) = Slot(q, i)
    BY <2>1, KeptSlots DEF SlotsKept
  <2>3. Continues(q)
    BY <2>1 DEF Kept, SameTable, SameSeq, SameRun, Continues
  <2> QED BY <1>2, <2>1, <2>2, <2>3, HoldsKeeps DEF ContentInv
<1> QED BY <1>1, <1>2, SlotNext DEF ContentInv

LEMMA ContentNewSequence ==
  ASSUME TypeInv, ContentInv, NEW s \in Seqs, NewSequence(s)
  PROVE  ContentInv'
<1>1. s \in Owners /\ Alone(s) /\ pc[s] = Unused /\ pc'[s] = "idle" /\ SameTable(s) /\ SameSeq(s)
      /\ UNCHANGED storeVars /\ UNCHANGED content
  BY NewSequenceEffect, Typed DEF SameStore, storeVars
<1>2. \A i \in Index : NextSlot(s, i) \in {Slot(s, i), NoBlock}
  BY <1>1, SlotsLess DEF SameTable, SameSeq, SameRun, SameUndo
<1>3. Continues(s)
  BY <1>1 DEF Continues, SameTable, Unused, Written
<1> QED BY <1>1, <1>2, <1>3, NoNewHashes, ContentSteady

LEMMA ContentMatchBegin ==
  ASSUME TypeInv, TypeInv', ContentInv, NEW s \in Seqs, NEW t, MatchBegin(s, t)
  PROVE  ContentInv'
<1>1. /\ s \in Owners /\ Alone(s) /\ pc[s] = "idle" /\ pc'[s] = "match" /\ blocks[s] = <<>>
      /\ SameTable(s) /\ UNCHANGED storeVars /\ UNCHANGED content
  BY MatchBeginEffect, Typed DEF SameStore, storeVars
<1>2. ASSUME NEW i \in Index, NextSlot(s, i) # NoBlock PROVE Holds(s, i)'
  <2>1. ~ (i > 0)
    <3>1. ~ (i > 0 /\ i <= Len(blocks'[s]))
      BY <1>1 DEF SameTable, Index
    <3> QED BY <1>2, <3>1 DEF NextSlot
  <2> QED BY <1>1, <2>1 DEF Holds, Written
<1>3. HashedInv'
  BY <1>1, NoNewHashes, HashedKept DEF ContentInv
<1> QED BY <1>1, <1>2, <1>3, ContentAlone

LEMMA ContentExecBegin ==
  ASSUME TypeInv, ContentInv, NEW s \in Seqs, NEW t, ExecBegin(s, t)
  PROVE  ContentInv'
<1>1. /\ s \in Owners /\ Alone(s) /\ pc[s] = "idle" /\ pc'[s] \in {"retain", "prepare"}
      /\ SameTable(s) /\ tail'[s] = tail[s] /\ dropping'[s] = dropping[s]
      /\ UNCHANGED storeVars /\ UNCHANGED content
  BY ExecBeginEffect, Typed DEF SameStore, storeVars
<1>2. \A i \in Index : NextSlot(s, i) \in {Slot(s, i), NoBlock}
  BY <1>1, SlotsLess DEF SameTable
<1>3. Continues(s)
  BY <1>1 DEF Continues, SameTable, Written
<1> QED BY <1>1, <1>2, <1>3, NoNewHashes, ContentSteady

\* Steps of a transaction that neither give s a block nor move its history.
LEMMA ContentEasy ==
  ASSUME TableInv, RefInv, ContentInv, NEW s \in Seqs,
         \/ Prepare(s) \/ DropReplaced(s) \/ Fail(s) \/ Commit(s) \/ Evict(s) \/ CommitEnd(s)
         \/ RollbackBlock(s) \/ RollbackEnd(s)
  PROVE  ContentInv'
<1>0. /\ TypeInv /\ s \in Owners /\ head[s] \in Nat /\ Len(blocks[s]) \in Nat
      /\ Len(before[s]) \in Nat
  BY SeqShape
<1>1. CASE Prepare(s)
  <2>1. /\ Alone(s) /\ pc[s] = "prepare" /\ pc'[s] \in {"rollback", "copy", "alloc"}
        /\ SameTable(s) /\ SameSeq(s) /\ UNCHANGED storeVars /\ UNCHANGED content
    BY <1>0, <1>1, PrepareEffect DEF SameStore, storeVars
  <2>2. Continues(s)
    BY <2>1 DEF Continues, SameTable, Written
  <2>3. \A i \in Index : NextSlot(s, i) \in {Slot(s, i), NoBlock}
    BY <1>0, <2>1, SlotsLess DEF SameTable, SameSeq, SameRun, SameUndo
  <2> QED BY <1>0, <2>1, <2>2, <2>3, NoNewHashes, ContentSteady
<1>2. CASE DropReplaced(s)
  <2>1. /\ Alone(s) /\ pc[s] \in {"copied", "restored"} /\ pc'[s] \in {"alloc", "rollback"}
        /\ UnrefBlock(dropping[s]) /\ dropping'[s] = NoBlock /\ SameTable(s)
        /\ tail'[s] = tail[s] /\ UNCHANGED content
    BY <1>0, <1>2, DropReplacedEffect
  <2>2. Continues(s)
    BY <2>1 DEF Continues, SameTable, Written
  <2>3. dropping[s] \in Blocks
    BY <1>0, <2>1, Typed DEF TypeInv, Progress, ProgressOf
  <2>4. \A i \in Index : NextSlot(s, i) \in {Slot(s, i), NoBlock}
    BY <1>0, <2>1, SlotsLess DEF SameTable
  <2>5. NoNewHash
    BY <1>0, <2>1, <2>3, NoNewHashes
  <2> QED BY <1>0, <2>1, <2>2, <2>4, <2>5, ContentSteady
<1>3. CASE Fail(s) \/ Commit(s)
  <2>1. /\ Alone(s) /\ pc[s] \in {"prepare", "alloc", "computed"}
        /\ pc'[s] = "rollback" \/ (pc[s] = "computed" /\ pc'[s] = "evict")
        /\ SameTable(s) /\ SameSeq(s) /\ UNCHANGED storeVars /\ UNCHANGED content
    BY <1>0, <1>3, FailEffect, CommitEffect DEF SameStore, storeVars
  <2>2. Continues(s)
    BY <2>1 DEF Continues, SameTable, SameSeq, SameRun, Written
  <2>3. \A i \in Index : NextSlot(s, i) \in {Slot(s, i), NoBlock}
    BY <1>0, <2>1, SlotsLess DEF SameTable, SameSeq, SameRun, SameUndo
  <2> QED BY <1>0, <2>1, <2>2, <2>3, NoNewHashes, ContentSteady
<1>4. CASE Evict(s)
  <2>1. /\ Alone(s) /\ pc[s] = "evict" /\ pc'[s] = "evict" /\ head[s] < Len(blocks[s])
        /\ UnrefBlock(blocks[s][head[s] + 1]) /\ head'[s] = head[s] + 1
        /\ blocks'[s] = blocks[s] /\ hist'[s] = hist[s] /\ SameSeq(s) /\ UNCHANGED content
    BY <1>0, <1>4, EvictEffect DEF CanEvict
  <2>2. Continues(s)
    BY <2>1 DEF Continues, SameSeq, SameRun
  <2>3. \A i \in Index : NextSlot(s, i) \in {Slot(s, i), NoBlock}
    BY <1>0, <2>1, SlotsLess DEF SameSeq, SameRun, SameUndo
  <2>4. blocks[s][head[s] + 1] \in Blocks
    <3>1. head[s] + 1 \in Int /\ head[s] < head[s] + 1 /\ head[s] + 1 <= Len(blocks[s])
      BY <1>0, <2>1
    <3> QED BY <1>0, <3>1, TableSlot
  <2>5. NoNewHash
    BY <1>0, <2>1, <2>4, NoNewHashes
  <2> QED BY <1>0, <2>1, <2>2, <2>3, <2>5, ContentSteady
<1>5. CASE CommitEnd(s) \/ RollbackEnd(s)
  <2>1. /\ Alone(s) /\ \/ pc[s] = "evict" /\ pc'[s] = "note" /\ tokens'[s] = tokens[s]
                       \/ pc[s] = "rollback" /\ pc'[s] = "idle"
        /\ tail[s] = NoBlock => UNCHANGED storeVars
        /\ tail[s] # NoBlock => UnrefBlock(tail[s])
        /\ tail'[s] = NoBlock /\ dropping'[s] = dropping[s] /\ SameTable(s) /\ UNCHANGED content
    BY <1>0, <1>5, CommitEndEffect, RollbackEndEffect
  <2>2. Continues(s)
    BY <2>1 DEF Continues, SameTable, Written
  <2>3. \A i \in Index : NextSlot(s, i) \in {Slot(s, i), NoBlock}
    BY <1>0, <2>1, SlotsLess DEF SameTable
  <2>4. NoNewHash
    BY <1>0, <2>1, NoNewHashes, Typed
  <2> QED BY <1>0, <2>1, <2>2, <2>3, <2>4, ContentSteady
<1>6. CASE RollbackBlock(s)
  <2>1. /\ Alone(s) /\ pc[s] = "rollback" /\ pc'[s] = "rollback"
        /\ Len(blocks[s]) > Len(before[s]) /\ UnrefBlock(Last(blocks[s]))
        /\ blocks'[s] = Front(blocks[s]) /\ head'[s] = head[s] /\ hist'[s] = hist[s]
        /\ SameSeq(s) /\ UNCHANGED content
    BY <1>0, <1>6, RollbackBlockEffect
  <2>2. head[s] <= Len(before[s])
    BY <1>0, <2>1 DEF TypeInv, Progress, ProgressOf, Undoable, Executing
  <2>3. Len(blocks[s]) > head[s]
    BY <1>0, <2>1, <2>2
  <2>4. /\ Last(blocks[s]) \in Blocks /\ SlotsKeptBut(s, Len(blocks[s]))
        /\ NextSlot(s, Len(blocks[s])) = NoBlock
    BY <1>0, <2>1, <2>3, PopSlots DEF SameSeq, SameRun, SameUndo
  <2>5. NoNewHash
    BY <1>0, <2>1, <2>4, NoNewHashes
  <2>6. Continues(s)
    BY <2>1 DEF Continues, Written
  <2>7. \A i \in Index : NextSlot(s, i) \in {Slot(s, i), NoBlock}
    BY <2>4 DEF SlotsKeptBut
  <2> QED BY <1>0, <2>1, <2>5, <2>6, <2>7, ContentSteady
<1> QED BY <1>1, <1>2, <1>3, <1>4, <1>5, <1>6

LEMMA ContentReturn ==
  ASSUME TypeInv, ContentInv, NEW o \in Owners,
         StartsReturn(o) \/ ReturnBlock(o) \/ ReturnEnd(o)
  PROVE  ContentInv'
<1>1. CASE StartsReturn(o)
  <2>1. /\ Alone(o) /\ pc[o] = "idle" /\ pc'[o] = "return" /\ SameTable(o)
        /\ (o \in Seqs => SameSeq(o)) /\ UNCHANGED storeVars /\ UNCHANGED content
    BY <1>1 DEF StartsReturn, SameStore, storeVars
  <2>2. Continues(o)
    BY <2>1 DEF Continues, SameTable, Written
  <2>3. \A i \in Index : NextSlot(o, i) \in {Slot(o, i), NoBlock}
    BY <2>1, SlotsLess DEF SameTable, SameSeq, SameRun, SameUndo
  <2> QED BY <2>1, <2>2, <2>3, NoNewHashes, ContentSteady
<1>2. CASE ReturnBlock(o)
  <2>1. /\ Alone(o) /\ pc[o] = "return" /\ pc'[o] = "return" /\ Len(blocks[o]) > head[o]
        /\ UnrefBlock(Last(blocks[o])) /\ blocks'[o] = Front(blocks[o])
        /\ head'[o] = head[o] /\ hist'[o] = hist[o] /\ (o \in Seqs => SameSeq(o))
        /\ UNCHANGED content
    BY <1>2, ReturnBlockEffect
  <2>2. /\ Last(blocks[o]) \in Blocks /\ SlotsKeptBut(o, Len(blocks[o]))
        /\ NextSlot(o, Len(blocks[o])) = NoBlock
    BY <2>1, PopSlots DEF SameSeq, SameRun, SameUndo
  <2>3. NoNewHash
    BY <2>1, <2>2, NoNewHashes
  <2>4. Continues(o)
    BY <2>1 DEF Continues, Written
  <2>5. \A i \in Index : NextSlot(o, i) \in {Slot(o, i), NoBlock}
    BY <2>2 DEF SlotsKeptBut
  <2> QED BY <2>1, <2>3, <2>4, <2>5, ContentSteady
<1>3. CASE ReturnEnd(o)
  <2>1. /\ Alone(o) /\ pc[o] = "return" /\ pc'[o] = Unused /\ blocks'[o] = <<>>
        /\ (o \in Seqs => SameRun(o)) /\ UNCHANGED storeVars /\ UNCHANGED content
    BY <1>3, ReturnEndEffect DEF SameStore, storeVars
  <2>2. \A i \in Index : NextSlot(o, i) = NoBlock
    <3>1. o \in Seqs => tail'[o] = NoBlock /\ dropping'[o] = NoBlock
      BY <2>1 DEF TypeInv, Progress, ProgressOf, Executing, SameRun, SameUndo
    <3>2. \A i \in Index : ~ (i > 0 /\ i <= Len(blocks'[o]))
      BY <2>1 DEF Index
    <3> QED BY <3>1, <3>2 DEF NextSlot
  <2>3. HashedInv'
    BY <2>1, NoNewHashes, HashedKept DEF ContentInv
  <2> QED BY <2>1, <2>2, <2>3, ContentAlone
<1> QED BY <1>1, <1>2, <1>3

-----------------------------------------------------------------------------
(* Prefix matching.                                                        *)

\* take_block hands out a block that holds the rows of the tokens asked for.
LEMMA ContentMatchTake ==
  ASSUME TableInv, TypeInv', RefInv, ContentInv, NEW s \in Seqs, MatchTake(s)
  PROVE  ContentInv'
<1>1. TypeInv /\ s \in Owners
  BY SeqShape
<1>2. /\ Alone(s) /\ pc[s] = "match" /\ pc'[s] = "match" /\ head'[s] = head[s]
      /\ hist'[s] = hist[s] /\ SameSeq(s) /\ UNCHANGED content
  BY <1>1, MatchTakeEffect
<1>3. PICK b \in Blocks : /\ <<HashAt(tokens[s], Len(blocks[s]) + 1), b>> \in byHash
                          /\ RefBlock(b) /\ blocks'[s] = Append(blocks[s], b)
  BY <1>1, MatchTakeEffect
<1>4. PICK k \in Index : /\ k = Len(blocks[s]) + 1 /\ SlotsKeptBut(s, k)
                         /\ k > 0 /\ NextSlot(s, k) = b
  BY <1>1, <1>2, <1>3, PushSlots DEF SameSeq, SameRun, SameUndo
<1>5. content[b] = HashAt(tokens[s], k)
  <2>1. PICK h : h = HashAt(tokens[s], k)
    OBVIOUS
  <2>2. <<h, b>> \in byHash
    BY <1>3, <1>4, <2>1
  <2>3. h = hashes[b] /\ h # NoHash
    BY <2>2 DEF RefInv, StoreOK
  <2> QED BY <2>1, <2>3 DEF ContentInv, HashedInv
<1>6. Holds(s, k)'
  <2>1. Slot(s, k)' = b
    BY <1>4, SlotNext
  <2>2. content' = content /\ tokens'[s] = tokens[s]
    BY <1>2 DEF SameSeq, SameRun
  <2>3. content'[Slot(s, k)'] = HashAt(tokens[s], k)' 
    BY <1>5, <2>1, <2>2 DEF HashAt
  <2>4. pc'[s] = "match" /\ "match" \notin Written
    BY <1>2 DEF Written
  <2> QED BY <2>3, <2>4 DEF Holds
<1>7. NoNewHash /\ Continues(s)
  BY <1>1, <1>2, <1>3, NoNewHashes DEF Continues, SameSeq, SameRun
<1>8. \A i \in Index \ {k, -1} : NextSlot(s, i) \in {Slot(s, i), NoBlock}
  BY <1>4 DEF SlotsKeptBut
<1> QED BY <1>1, <1>2, <1>6, <1>7, <1>8, ContentPlace

\* The matched blocks hold the prefix that becomes the history.
LEMMA ContentMatchEnd ==
  ASSUME TableInv, TypeInv', RefInv, ContentInv, NEW s \in Seqs, MatchEnd(s)
  PROVE  ContentInv'
<1>1. TypeInv /\ s \in Owners /\ Len(blocks[s]) \in Nat /\ tokens[s] \in Seq(Token)
  BY SeqShape, Typed
<1>2. /\ Alone(s) /\ pc[s] = "match" /\ pc'[s] = "idle" /\ blocks'[s] = blocks[s]
      /\ head'[s] = head[s] /\ SameUndo(s) /\ UNCHANGED storeVars /\ UNCHANGED content
      /\ hist'[s] = HashAt(tokens[s], Len(blocks[s]))
  BY <1>1, MatchEndEffect DEF SameStore, storeVars
<1>3. PICK n \in Nat : n = Len(blocks[s])
  BY <1>1
<1>4. /\ n <= Len(tokens[s]) \div BlockSize /\ Len(hist'[s]) = n * BlockSize
      /\ n * BlockSize \in Nat /\ n * BlockSize <= Len(tokens[s])
  BY <1>1, <1>2, <1>3, MatchedHistory, BlockEndFits
<1>5. Len(hist'[s]) \div BlockSize = n /\ Len(hist'[s]) % BlockSize = 0
  <2>1. (n * BlockSize) \div BlockSize = n
    BY WholeBlocks
  <2>2. (n * BlockSize) % BlockSize = 0
    BY KvPoolConstants
  <2> QED BY <1>4, <2>1, <2>2
<1>6. HashedInv'
  BY <1>1, <1>2, NoNewHashes, HashedKept DEF ContentInv
<1>7. SlotsKept(s)
  BY <1>1, <1>2, SlotsSteady DEF SameUndo
<1>8. ASSUME NEW i \in Index, NextSlot(s, i) # NoBlock PROVE Holds(s, i)'
  <2>1. Slot(s, i) # NoBlock /\ Slot(s, i)' = Slot(s, i) /\ Holds(s, i)
    BY <1>1, <1>7, <1>8, SlotNext DEF SlotsKept, ContentInv
  <2>2. i # 0
    BY <1>2, <2>1 DEF Slot, TypeInv, Progress, ProgressOf, Executing
  <2>3. ASSUME i > 0, i <= n PROVE content'[Slot(s, i)'] = HashAt(hist'[s], i)
    <3>1. content[Slot(s, i)] = HashAt(tokens[s], i)
      BY <1>2, <2>1, <2>3 DEF Holds
    <3>2. i \in Nat /\ i * BlockSize \in Nat /\ i * BlockSize <= n * BlockSize
      <4>1. i \in Nat
        BY <2>3 DEF Index
      <4>2. i <= (n * BlockSize) \div BlockSize
        BY <2>3, WholeBlocks
      <4> QED BY <1>4, <4>1, <4>2, BlockEndFits
    <3>3. SubSeq(SubSeq(tokens[s], 1, n * BlockSize), 1, i * BlockSize)
            = SubSeq(tokens[s], 1, i * BlockSize)
      BY <1>1, <1>4, <3>2, PrefixOfPrefix
    <3> QED BY <1>2, <1>3, <2>1, <3>1, <3>3 DEF HashAt
  <2> QED BY <1>2, <1>5, <2>2, <2>3 DEF Holds, Written, HashAt
<1> QED BY <1>1, <1>2, <1>6, <1>8, ContentAlone

\* A block allocated past the history holds nothing of it.
LEMMA ContentAllocNext ==
  ASSUME TableInv, TypeInv', RefInv, ContentInv, NEW s \in Seqs, AllocNext(s)
  PROVE  ContentInv'
<1>1. /\ TypeInv /\ s \in Owners /\ LengthInv /\ Len(blocks[s]) \in Nat /\ Len(hist[s]) \in Nat
      /\ Len(hist[s]) \div BlockSize \in Nat /\ BlocksFor(Len(hist[s])) \in Nat
      /\ Len(hist[s]) \div BlockSize <= BlocksFor(Len(hist[s]))
  BY SeqShape
<1>2. /\ Alone(s) /\ pc[s] = "alloc" /\ head'[s] = head[s] /\ hist'[s] = hist[s]
      /\ SameSeq(s) /\ UNCHANGED content
  BY <1>1, AllocNextEffect
<1>3. pc'[s] \in {"alloc", "rollback"} /\ Continues(s)
  <2>1. pc'[s] \in {"alloc", "rollback"}
    BY <1>1, AllocNextEffect
  <2> QED BY <1>2, <2>1 DEF Continues, Written
<1>4. CASE AllocExhausted /\ blocks'[s] = blocks[s]
  <2>1. \A i \in Index : NextSlot(s, i) \in {Slot(s, i), NoBlock}
    BY <1>1, <1>2, <1>4, SlotsLess DEF SameSeq, SameRun, SameUndo
  <2> QED BY <1>1, <1>2, <1>3, <1>4, <2>1, NoNewHashes, ContentSteady
<1>5. ASSUME NEW b \in Blocks, AllocBlock(b), blocks'[s] = Append(blocks[s], b), pc'[s] = "alloc"
      PROVE  ContentInv'
  <2>1. PICK k \in Index : k = Len(blocks[s]) + 1 /\ SlotsKeptBut(s, k) /\ k > 0
    BY <1>1, <1>2, <1>5, PushSlots DEF SameSeq, SameRun, SameUndo
  <2>2. BlocksFor(Len(hist[s])) < k
    <3>1. BlocksFor(Len(hist[s])) <= Len(blocks[s])
      BY <1>2, <1>1 DEF LengthInv, RunLengths
    <3> QED BY <1>1, <2>1, <3>1
  <2>3. ~ (k <= Len(hist[s]) \div BlockSize)
    BY <1>1, <2>1, <2>2
  <2>4. ~ (k = (Len(hist[s]) \div BlockSize) + 1 /\ Len(hist[s]) % BlockSize # 0)
    BY <1>1, <2>1, <2>2, TailCeil
  <2>5. Holds(s, k)'
    <3>1. Len(hist'[s]) = Len(hist[s])
      BY <1>2
    <3>2. k # 0
      BY <2>1
    <3> QED BY <1>5, <2>3, <2>4, <3>1, <3>2 DEF Holds, Written
  <2>6. NoNewHash
    BY <1>1, <1>5, NoNewHashes
  <2>7. \A i \in Index \ {k, -1} : NextSlot(s, i) \in {Slot(s, i), NoBlock}
    BY <2>1 DEF SlotsKeptBut
  <2> QED BY <1>1, <1>2, <1>3, <2>5, <2>6, <2>7, ContentPlace
<1> QED BY <1>1, <1>4, <1>5, AllocNextEffect

-----------------------------------------------------------------------------
(* The shared tail.                                                        *)

\* The block at the tail of a history that ends inside it.
LEMMA TailHolds ==
  ASSUME TableInv, ContentInv, NEW s \in Seqs, pc[s] \in Executing \ {"evict", "note"},
         TailIndex(s) <= BlocksFor(Len(hist[s])), TailIndex(s) <= Len(blocks[s])
  PROVE  /\ Len(hist[s]) % BlockSize # 0
         /\ IsPrefix(hist[s], content[blocks[s][TailIndex(s)]])
<1>1. /\ TypeInv /\ s \in Owners /\ TailIndex(s) \in Index /\ TailIndex(s) \in Int
      /\ TailIndex(s) = (Len(hist[s]) \div BlockSize) + 1 /\ Len(hist[s]) \in Nat
      /\ Len(hist[s]) \div BlockSize \in Nat
  BY SeqShape
<1>2. head[s] < TailIndex(s)
  BY HeadBefore DEF Executing
<1>3. Slot(s, TailIndex(s)) = blocks[s][TailIndex(s)] /\ Slot(s, TailIndex(s)) # NoBlock
  BY <1>1, <1>2, TableSlot
<1>4. Len(hist[s]) % BlockSize # 0
  <2>1. Len(hist[s]) % BlockSize = 0 => BlocksFor(Len(hist[s])) = Len(hist[s]) \div BlockSize
    BY <1>1, TailFits
  <2> QED BY <1>1, <2>1
<1>5. Holds(s, TailIndex(s))
  BY <1>1, <1>3 DEF ContentInv
<1> QED BY <1>1, <1>3, <1>4, <1>5 DEF Holds, Executing

LEMMA ContentRetainTail ==
  ASSUME TableInv, TypeInv', RefInv, ContentInv, NEW s \in Seqs, RetainTail(s)
  PROVE  ContentInv'
<1>1. /\ TypeInv /\ LengthInv /\ s \in Owners /\ TailIndex(s) \in Nat /\ TailIndex(s) \in Int
      /\ Len(before[s]) \in Nat /\ Len(blocks[s]) \in Nat /\ 0 \in Index
      /\ Len(hist[s]) \div BlockSize \in Nat
  BY SeqShape
<1>2. /\ Alone(s) /\ pc[s] = "retain" /\ pc'[s] = "prepare"
      /\ RefBlock(blocks[s][TailIndex(s)]) /\ tail'[s] = blocks[s][TailIndex(s)]
      /\ dropping'[s] = dropping[s] /\ SameTable(s) /\ UNCHANGED content
  BY <1>1, RetainTailEffect
<1>3. /\ TailIndex(s) <= Len(before[s]) /\ Len(before[s]) <= Len(blocks[s])
      /\ Len(before[s]) = BlocksFor(Len(hist[s]))
  BY <1>1, <1>2 DEF TypeInv, Progress, ProgressOf, LengthInv, RunLengths, Undoable, Executing
<1>4. TailIndex(s) <= Len(blocks[s])
  BY <1>1, <1>3
<1>5. IsPrefix(hist[s], content[blocks[s][TailIndex(s)]])
  BY <1>2, <1>3, <1>4, TailHolds DEF Executing
<1>6. blocks[s][TailIndex(s)] \in Blocks
  <2>1. head[s] < TailIndex(s)
    BY <1>2, HeadBefore
  <2> QED BY <1>1, <1>4, <2>1, TableSlot
<1>7. PICK b \in Blocks : b = blocks[s][TailIndex(s)]
  BY <1>6
<1>8. NoNewHash /\ Continues(s)
  BY <1>1, <1>2, <1>7, NoNewHashes DEF Continues, SameTable, Written
<1>9. \A i \in Index \ {0, -1} : NextSlot(s, i) \in {Slot(s, i), NoBlock}
  BY <1>2 DEF NextSlot, Slot, SameTable
<1>10. Holds(s, 0)'
  <2>1. NextSlot(s, 0) = b
    BY <1>2, <1>7 DEF NextSlot
  <2>2. Slot(s, 0)' = b
    BY <2>1, SlotNext
  <2>3. hist'[s] = hist[s] /\ content' = content
    BY <1>2 DEF SameTable
  <2>4. IsPrefix(hist'[s], content'[Slot(s, 0)'])
    BY <1>5, <1>7, <2>2, <2>3
  <2>5. 0 # (Len(hist'[s]) \div BlockSize) + 1
    BY <1>1, <2>3
  <2> QED BY <1>2, <2>4, <2>5 DEF Holds, Written
<1> QED BY <1>1, <1>2, <1>8, <1>9, <1>10, ContentPlace

\* copy_shared_tail: the copy holds what the shared tail holds, and nobody
\* reads the block it was allocated in.
LEMMA ContentCopyTail ==
  ASSUME TableInv, TypeInv', RefInv, ContentInv, NEW s \in Seqs, CopyTail(s)
  PROVE  ContentInv'
<1>1. /\ TypeInv /\ LengthInv /\ s \in Owners /\ Balanced /\ StoreOK
      /\ TailIndex(s) \in Index /\ TailIndex(s) > 0 /\ TailIndex(s) \in Nat
      /\ TailIndex(s) = (Len(hist[s]) \div BlockSize) + 1 /\ Len(hist[s]) \div BlockSize \in Nat
  BY SeqShape DEF RefInv
<1>2. /\ Alone(s) /\ pc[s] = "copy" /\ head'[s] = head[s] /\ hist'[s] = hist[s]
      /\ tokens'[s] = tokens[s] /\ tail'[s] = tail[s]
  BY <1>1, CopyTailEffect
<1>3. /\ TailIndex(s) <= Len(blocks[s]) /\ dropping[s] = NoBlock
      /\ Len(blocks[s]) = BlocksFor(Len(hist[s]))
  BY <1>1, <1>2 DEF TypeInv, Progress, ProgressOf, LengthInv, LengthsOf
<1>4. head[s] < TailIndex(s)
  BY <1>2, HeadBefore
<1>5. CASE /\ AllocExhausted /\ pc'[s] = "rollback" /\ blocks'[s] = blocks[s]
           /\ dropping'[s] = dropping[s] /\ content' = content
  <2>1. Continues(s)
    BY <1>2, <1>5 DEF Continues, Written
  <2>2. \A i \in Index : NextSlot(s, i) \in {Slot(s, i), NoBlock}
    BY <1>1, <1>2, <1>5, SlotsLess
  <2> QED BY <1>1, <1>2, <1>5, <2>1, <2>2, NoNewHashes, ContentSteady
<1>6. ASSUME NEW y \in Blocks, AllocBlock(y), pc'[s] = "copied",
             content' = [content EXCEPT ![y] = content[blocks[s][TailIndex(s)]]],
             blocks'[s] = [blocks[s] EXCEPT ![TailIndex(s)] = y],
             dropping'[s] = blocks[s][TailIndex(s)]
      PROVE  ContentInv'
  <2>1. PICK k \in Index : k = TailIndex(s)
    BY <1>1
  <2>2. PICK x \in Blocks : x = blocks[s][k]
    BY <1>1, <1>3, <1>4, <2>1, TableSlot
  <2>3. Swaps(s, k, x, y)
    <3>1. k > 0 /\ head[s] < k /\ k <= Len(blocks[s])
      BY <1>1, <1>3, <1>4, <2>1
    <3>2. blocks'[s] = [blocks[s] EXCEPT ![k] = y] /\ dropping'[s] = blocks[s][k]
      BY <1>6, <2>1
    <3> QED BY <1>1, <1>2, <1>3, <2>2, <3>1, <3>2, SwapSlots
  <2>4. NoNewHash /\ refcounts[y] = 0 /\ hashes'[y] = NoHash
    BY <1>1, <1>6, AllocOK
  <2>5. \A q \in Owners : \A j \in Index : Slot(q, j) # y
    BY <1>1, <2>4, Uncounted
  <2>6. content'[y] = content[x] /\ \A c \in Blocks : c # y => content'[c] = content[c]
    <3>1. content \in [Blocks -> Seq(Token)]
      BY <1>1, Typed
    <3> QED BY <1>6, <2>1, <2>2, <3>1
  <2>7. HashedInv'
    <3> SUFFICES ASSUME NEW c \in Blocks, hashes'[c] # NoHash PROVE content'[c] = hashes'[c]
      BY DEF HashedInv
    <3>1. c # y /\ hashes'[c] = hashes[c]
      BY <2>4 DEF NoNewHash
    <3> QED BY <2>6, <3>1 DEF ContentInv, HashedInv
  <2>8. ASSUME NEW q \in Owners, NEW j \in Index, Slot(q, j) # NoBlock
        PROVE  content'[Slot(q, j)] = content[Slot(q, j)]
    <3>1. Slot(q, j) \in Blocks /\ Slot(q, j) # y
      BY <1>1, <2>5, <2>8, SlotOf
    <3> QED BY <2>6, <3>1
  <2>9. IsPrefix(hist[s], content[x])
    BY <1>2, <1>3, <2>1, <2>2, TailHolds DEF Executing
  <2>10. Continues(s)
    BY <1>2, <1>6 DEF Continues, Written
  <2>11. ASSUME NEW i \in Index, NextSlot(s, i) # NoBlock PROVE Holds(s, i)'
    <3>1. CASE i = k
      <4>1. Slot(s, i)' = y
        BY <2>3, <3>1, SlotNext DEF Swaps
      <4>2. IsPrefix(hist'[s], content'[Slot(s, i)'])
        BY <1>2, <2>6, <2>9, <4>1
      <4>3. Len(hist'[s]) = Len(hist[s]) /\ ~ (i <= Len(hist[s]) \div BlockSize)
        BY <1>1, <1>2, <2>1, <3>1
      <4> QED BY <1>6, <4>2, <4>3 DEF Holds, Written
    <3>2. CASE i = -1 /\ i # k
      BY <1>1, <3>2, NextDroppedHolds
    <3>3. CASE i # k /\ i # -1
      <4>1. NextSlot(s, i) = Slot(s, i) /\ Slot(s, i) # NoBlock /\ Holds(s, i)
        BY <1>1, <2>3, <2>11, <3>3 DEF Swaps, ContentInv
      <4>2. content'[Slot(s, i)] = content[Slot(s, i)]
        BY <1>1, <2>8, <4>1
      <4> QED BY <1>1, <2>10, <4>1, <4>2, HoldsKeeps
    <3> QED BY <3>1, <3>2, <3>3
  <2> QED BY <1>1, <1>2, <2>7, <2>8, <2>11, ContentAlone
<1> QED BY <1>1, <1>5, <1>6, CopyTailEffect

\* A rollback puts the retained tail back, with the rows begin saw.
LEMMA ContentRestoreTail ==
  ASSUME TableInv, TypeInv', RefInv, ContentInv, NEW s \in Seqs, RestoreTail(s)
  PROVE  ContentInv'
<1>1. /\ TypeInv /\ s \in Owners /\ TailIndex(s) \in Index /\ TailIndex(s) > 0 /\ 0 \in Index
      /\ TailIndex(s) = (Len(hist[s]) \div BlockSize) + 1 /\ Len(hist[s]) \div BlockSize \in Nat
  BY SeqShape
<1>2. /\ Alone(s) /\ pc[s] = "rollback" /\ pc'[s] = "restored"
      /\ Len(blocks[s]) = Len(before[s]) /\ TailReplaced(s)
      /\ RefBlock(tail[s]) /\ blocks'[s] = [blocks[s] EXCEPT ![TailIndex(s)] = tail[s]]
      /\ dropping'[s] = blocks[s][TailIndex(s)] /\ head'[s] = head[s] /\ hist'[s] = hist[s]
      /\ tokens'[s] = tokens[s] /\ tail'[s] = tail[s] /\ UNCHANGED content
  BY <1>1, RestoreTailEffect
<1>3. dropping[s] = NoBlock /\ tail[s] # NoBlock /\ TailIndex(s) <= Len(before[s])
  BY <1>1, <1>2 DEF TypeInv, Progress, ProgressOf, TailReplaced
<1>4. head[s] < TailIndex(s)
  BY <1>2, HeadBefore
<1>5. PICK k \in Index : k = TailIndex(s)
  BY <1>1
<1>6. PICK y \in Blocks : y = tail[s]
  BY <1>1, <1>3, Typed
<1>7. Swaps(s, k, blocks[s][k], y)
  <2>1. k > 0 /\ head[s] < k /\ k <= Len(blocks[s])
    BY <1>1, <1>2, <1>3, <1>4, <1>5
  <2>2. blocks'[s] = [blocks[s] EXCEPT ![k] = y] /\ dropping'[s] = blocks[s][k]
    BY <1>2, <1>5, <1>6
  <2>3. dropping[s] = NoBlock /\ head'[s] = head[s] /\ tail'[s] = tail[s] /\ TypeInv
    BY <1>1, <1>2, <1>3
  <2> QED BY <2>1, <2>2, <2>3, SwapSlots
<1>8. IsPrefix(hist[s], content[y])
  <2>1. Slot(s, 0) = y
    BY <1>6 DEF Slot
  <2>2. Slot(s, 0) # NoBlock
    BY <1>3, <1>6, <2>1
  <2>3. Holds(s, 0)
    BY <1>1, <2>2 DEF ContentInv
  <2> QED BY <1>2, <2>1, <2>3 DEF Holds
<1>9. Holds(s, k)'
  <2>1. Slot(s, k)' = y
    BY <1>7, SlotNext DEF Swaps
  <2>2. IsPrefix(hist'[s], content'[Slot(s, k)'])
    BY <1>2, <1>8, <2>1
  <2>3. Len(hist'[s]) = Len(hist[s]) /\ ~ (k <= Len(hist[s]) \div BlockSize)
    BY <1>1, <1>2, <1>5
  <2> QED BY <1>2, <2>2, <2>3 DEF Holds, Written
<1>10. NoNewHash /\ Continues(s)
  BY <1>1, <1>2, <1>6, NoNewHashes DEF Continues, Written
<1>11. \A i \in Index \ {k, -1} : NextSlot(s, i) \in {Slot(s, i), NoBlock}
  BY <1>7 DEF Swaps
<1> QED BY <1>1, <1>2, <1>9, <1>10, <1>11, ContentPlace

-----------------------------------------------------------------------------
(* Rows written, committed and hashed.                                     *)

\* A place the kernels write is live, the sequence's own and not hashed.
LEMMA WrittenPlace ==
  ASSUME TableInv, RefInv, NEW s \in Seqs, pc[s] = "alloc", NEW i \in Int,
         TailIndex(s) <= i, i <= Len(blocks[s])
  PROVE  /\ i \in Index /\ i > 0 /\ Slot(s, i) = blocks[s][i] /\ blocks[s][i] \in Blocks
         /\ Slot(s, i) # NoBlock /\ Sole(s, i) /\ hashes[blocks[s][i]] = NoHash
<1>1. /\ TypeInv /\ s \in Owners /\ TailIndex(s) = (Len(hist[s]) \div BlockSize) + 1
      /\ Len(hist[s]) \div BlockSize \in Nat /\ head[s] \in Nat
  BY SeqShape
<1>2. head[s] < i /\ i > Len(hist[s]) \div BlockSize
  BY <1>1, HeadBefore
<1>3. /\ i \in Index /\ i > 0 /\ Slot(s, i) = blocks[s][i] /\ blocks[s][i] \in Blocks
      /\ Slot(s, i) # NoBlock
  BY <1>1, <1>2, TableSlot
<1>4. Full(s) = Len(hist[s]) \div BlockSize
  BY DEF Full
<1>5. Private(s, i) /\ Unhashed(s, i)
  BY <1>2, <1>3, <1>4 DEF Private, Unhashed, Writing
<1> QED BY <1>1, <1>3, <1>5 DEF RefInv, OwnInv, PrivateInv, UnhashedInv

\* What WriteRows leaves in the blocks.
LEMMA WrittenRows ==
  ASSUME TableInv, RefInv, NEW s \in Seqs, WriteRows(s)
  PROVE  /\ \A i \in TailIndex(s) .. Len(blocks[s]) :
              content'[blocks[s][i]] = RowsTo(hist[s] \o tokens[s], i)
         /\ \A c \in Blocks : (\A i \in TailIndex(s) .. Len(blocks[s]) : blocks[s][i] # c) =>
              content'[c] = content[c]
<1> DEFINE written == TailIndex(s) .. Len(blocks[s])
           rows(i) == RowsTo(hist[s] \o tokens[s], i)
<1>1. /\ TypeInv /\ LengthInv /\ s \in Owners /\ Len(blocks[s]) \in Nat
      /\ BlocksFor(Frontier(s)) \in Nat /\ TailIndex(s) \in Nat
  BY SeqShape, SequenceType DEF TypeInv
<1>2. pc[s] = "alloc" /\ Len(blocks[s]) >= BlocksFor(Frontier(s))
  BY DEF WriteRows
<1>3. Len(blocks[s]) = BlocksFor(Frontier(s))
  <2>1. Len(blocks[s]) <= BlocksFor(Frontier(s))
    BY <1>1, <1>2 DEF LengthInv, RunLengths
  <2> QED BY <1>1, <1>2, <2>1
<1>4. content' = [b \in Blocks |->
          IF \E i \in written : blocks[s][i] = b
          THEN rows(CHOOSE i \in written : blocks[s][i] = b)
          ELSE content[b]]
  BY <1>3 DEF WriteRows, RowsTo
<1>5. ASSUME NEW i \in written
      PROVE  blocks[s][i] \in Blocks /\ \A j \in written : blocks[s][j] = blocks[s][i] => j = i
  <2>1. i \in Int /\ TailIndex(s) <= i /\ i <= Len(blocks[s])
    BY <1>1, <1>5
  <2>2. Sole(s, i) /\ Slot(s, i) = blocks[s][i] /\ blocks[s][i] \in Blocks
    BY <1>2, <2>1, WrittenPlace
  <2>3. ASSUME NEW j \in written, blocks[s][j] = blocks[s][i] PROVE j = i
    <3>1. j \in Int /\ TailIndex(s) <= j /\ j <= Len(blocks[s])
      BY <1>1, <2>3
    <3>2. Slot(s, j) = blocks[s][j] /\ j \in Index
      BY <1>2, <3>1, WrittenPlace
    <3> QED BY <1>1, <2>2, <2>3, <3>2 DEF Sole
  <2> QED BY <2>2, <2>3
<1> HIDE DEF written, rows
<1>6. ASSUME NEW i \in written PROVE content'[blocks[s][i]] = rows(i)
  <2>1. (CHOOSE j \in written : blocks[s][j] = blocks[s][i]) = i
    BY <1>5, <1>6
  <2> QED BY <1>4, <1>5, <1>6, <2>1
<1>7. ASSUME NEW c \in Blocks, \A i \in written : blocks[s][i] # c PROVE content'[c] = content[c]
  BY <1>4, <1>7
<1> QED BY <1>6, <1>7 DEF written, rows

\* The kernels write the sequence's own blocks only.
LEMMA ContentWriteRows ==
  ASSUME TableInv, TypeInv', RefInv, ContentInv, NEW s \in Seqs, WriteRows(s)
  PROVE  ContentInv'
<1>1. /\ TypeInv /\ s \in Owners /\ Len(blocks[s]) \in Nat /\ hist[s] \in Seq(Token)
      /\ tokens[s] \in Seq(Token) /\ Len(hist[s]) \in Nat /\ TailIndex(s) \in Nat
      /\ TailIndex(s) = (Len(hist[s]) \div BlockSize) + 1 /\ Len(hist[s]) \div BlockSize \in Nat
  BY SeqShape, Typed
<1>2. /\ Alone(s) /\ pc[s] = "alloc" /\ pc'[s] = "computed" /\ SameTable(s) /\ SameSeq(s)
      /\ UNCHANGED storeVars
  BY <1>1, WriteRowsEffect
<1> DEFINE written == TailIndex(s) .. Len(blocks[s])
<1>3. /\ \A i \in written : content'[blocks[s][i]] = RowsTo(hist[s] \o tokens[s], i)
      /\ \A c \in Blocks : (\A i \in written : blocks[s][i] # c) => content'[c] = content[c]
  BY WrittenRows
<1>4. \A i \in written :
        /\ i \in Index /\ i > 0 /\ Slot(s, i) = blocks[s][i] /\ Sole(s, i)
        /\ hashes[blocks[s][i]] = NoHash
  <2> SUFFICES ASSUME NEW i \in written
               PROVE  /\ i \in Index /\ i > 0 /\ Slot(s, i) = blocks[s][i] /\ Sole(s, i)
                      /\ hashes[blocks[s][i]] = NoHash
    OBVIOUS
  <2>1. i \in Int /\ TailIndex(s) <= i /\ i <= Len(blocks[s])
    BY <1>1
  <2> QED BY <1>2, <2>1, WrittenPlace
<1>5. \A i \in Index : Slot(s, i) # NoBlock /\ i \notin written => i = 0 \/ ~ (i > Len(hist[s]) \div BlockSize)
  <2> SUFFICES ASSUME NEW i \in Index, Slot(s, i) # NoBlock, i > Len(hist[s]) \div BlockSize
               PROVE  i \in written
    OBVIOUS
  <2>1. i \in Int /\ i > 0 /\ TailIndex(s) <= i
    BY <1>1 DEF Index
  <2>2. i <= Len(blocks[s])
    BY <1>1, <2>1, SlotLive
  <2> QED BY <1>1, <2>1, <2>2
<1>6. \A i \in written : ~ (i <= Len(hist[s]) \div BlockSize) /\ i > Len(hist[s]) \div BlockSize
                         /\ i \in Nat /\ i # 0
  BY <1>1
<1> HIDE DEF written
<1>7. HashedInv'
  <2> SUFFICES ASSUME NEW c \in Blocks, hashes'[c] # NoHash PROVE content'[c] = hashes'[c]
    BY DEF HashedInv
  <2>1. hashes' = hashes
    BY <1>2 DEF storeVars
  <2>2. \A i \in written : blocks[s][i] # c
    BY <1>4, <2>1
  <2> QED BY <1>3, <2>1, <2>2 DEF ContentInv, HashedInv
<1>8. ASSUME NEW q \in Owners, NEW j \in Index, Slot(q, j) # NoBlock, q # s \/ j \notin written
      PROVE  content'[Slot(q, j)] = content[Slot(q, j)]
  <2>1. Slot(q, j) \in Blocks
    BY <1>1, <1>8, SlotOf
  <2>2. \A i \in written : blocks[s][i] # Slot(q, j)
    BY <1>4, <1>8 DEF Sole
  <2> QED BY <1>3, <2>1, <2>2
<1>9. SlotsKept(s)
  BY <1>1, <1>2, SlotsSteady DEF SameTable, SameSeq, SameRun, SameUndo
<1>10. hist'[s] = hist[s] /\ tokens'[s] = tokens[s]
  BY <1>2 DEF SameTable, SameSeq, SameRun
<1>11. ASSUME NEW i \in Index, NextSlot(s, i) # NoBlock PROVE Holds(s, i)'
  <2>1. Slot(s, i)' = Slot(s, i) /\ Slot(s, i) # NoBlock /\ Holds(s, i)
    BY <1>1, <1>9, <1>11, SlotNext DEF SlotsKept, ContentInv
  <2>2. CASE i \in written
    <3>1. content'[Slot(s, i)'] = RowsTo(hist[s] \o tokens[s], i)
      BY <1>3, <1>4, <2>1, <2>2
    <3>2. IsPrefix(hist[s], RowsTo(hist[s] \o tokens[s], i))
      BY <1>1, <1>6, <2>2, RowsKeep
    <3>3. RowsTo(hist[s] \o tokens[s], i)' = RowsTo(hist[s] \o tokens[s], i)
      BY <1>10 DEF RowsTo
    <3>4. ~ (i <= Len(hist'[s]) \div BlockSize) /\ i # 0
      BY <1>6, <1>10, <2>2
    <3>5. pc'[s] = "computed" /\ hist'[s] = hist[s]
      BY <1>2, <1>10
    <3> QED BY <3>1, <3>2, <3>3, <3>4, <3>5 DEF Holds
  <2>3. CASE i \notin written
    <3>1. content'[Slot(s, i)'] = content[Slot(s, i)]
      BY <1>1, <1>8, <2>1, <2>3
    <3>2. pc[s] \notin {"match", "copying"} /\ pc'[s] = "computed" /\ hist'[s] = hist[s]
      BY <1>2, <1>10
    <3>3. HashAt(hist[s], i)' = HashAt(hist[s], i)
      BY <1>10 DEF HashAt
    <3>4. ~ (i > Len(hist'[s]) \div BlockSize)
      <4>1. i = 0 => ~ (i > Len(hist'[s]) \div BlockSize)
        BY <1>1, <1>10
      <4> QED BY <1>5, <1>10, <2>1, <2>3, <4>1
    <3> QED BY <2>1, <3>1, <3>2, <3>3, <3>4 DEF Holds
  <2> QED BY <2>2, <2>3
<1> QED BY <1>1, <1>2, <1>7, <1>8, <1>11, ContentAlone

\* note_tokens hashes a block under the tokens whose rows it holds.
LEMMA ContentNote ==
  ASSUME TableInv, TypeInv', RefInv, ContentInv, NoStaleNotes, NEW s \in Seqs, Note(s)
  PROVE  ContentInv'
<1>1. /\ TypeInv /\ s \in Owners /\ noted[s] \in Nat /\ CompletedBlocks(s) \in Nat
      /\ hist[s] \o tokens[s] \in Seq(Token) /\ hashes \in [Blocks -> Seq(Token)]
      /\ Frontier(s) = Len(hist[s] \o tokens[s])
  BY SeqShape, SequenceType, Typed DEF TypeInv
<1>2. /\ Alone(s) /\ pc[s] = "note" /\ pc'[s] = "note" /\ noted[s] < CompletedBlocks(s)
      /\ SetHash(blocks[s][noted[s] + 1], HashAt(hist[s] \o tokens[s], noted[s] + 1))
      /\ tokens'[s] = tokens[s] /\ SameTable(s) /\ SameUndo(s) /\ UNCHANGED content
  BY <1>1, NoteEffect
<1>3. PICK k \in Nat : k = noted[s] + 1
  BY <1>1
<1>4. noted[s] < k /\ k <= CompletedBlocks(s) /\ k \in Int
  BY <1>1, <1>2, <1>3
<1>5. /\ k \in Index /\ k > Len(hist[s]) \div BlockSize /\ Slot(s, k) = blocks[s][k]
      /\ blocks[s][k] \in Blocks /\ Slot(s, k) # NoBlock
  BY <1>2, <1>4, NotedPlace
<1>6. content[blocks[s][k]] = HashAt(hist[s] \o tokens[s], k)
  <2>1. content[Slot(s, k)] = RowsTo(hist[s] \o tokens[s], k)
    BY <1>1, <1>2, <1>5 DEF ContentInv, Holds, Written
  <2>2. k <= Len(hist[s] \o tokens[s]) \div BlockSize
    BY <1>1, <1>4 DEF CompletedBlocks
  <2> QED BY <1>1, <1>5, <2>1, <2>2, RowsWhole
<1>7. HashedInv'
  <2> SUFFICES ASSUME NEW c \in Blocks, hashes'[c] # NoHash PROVE content'[c] = hashes'[c]
    BY DEF HashedInv
  <2>1. hashes' = [hashes EXCEPT ![blocks[s][k]] = HashAt(hist[s] \o tokens[s], k)]
    BY <1>2, <1>3 DEF SetHash
  <2>2. CASE c = blocks[s][k]
    BY <1>1, <1>2, <1>6, <2>1, <2>2
  <2>3. CASE c # blocks[s][k]
    <3>1. hashes'[c] = hashes[c]
      BY <1>1, <2>1, <2>3
    <3> QED BY <1>2, <3>1 DEF ContentInv, HashedInv
  <2> QED BY <2>2, <2>3
<1>8. SlotsKept(s)
  BY <1>1, <1>2, SlotsSteady DEF SameTable, SameUndo
<1>9. Continues(s)
  BY <1>2 DEF Continues, SameTable
<1>10. ASSUME NEW i \in Index, NextSlot(s, i) # NoBlock PROVE Holds(s, i)'
  <2>1. NextSlot(s, i) = Slot(s, i) /\ Holds(s, i)
    BY <1>1, <1>8, <1>10 DEF SlotsKept, ContentInv
  <2> QED BY <1>1, <1>2, <1>9, <2>1, HoldsKeeps
<1> QED BY <1>1, <1>2, <1>7, <1>10, ContentAlone

\* The chunk becomes part of the history.
LEMMA ContentAdvance ==
  ASSUME TableInv, ContentInv, NEW s \in Seqs, NoteEnd(s) \/ NoteDeferred(s)
  PROVE  ContentInv'
<1>1. /\ TypeInv /\ s \in Owners /\ hist[s] \in Seq(Token) /\ tokens[s] \in Seq(Token)
      /\ hist[s] \o tokens[s] \in Seq(Token) /\ Frontier(s) = Len(hist[s] \o tokens[s])
      /\ Len(hist[s]) \in Nat /\ Frontier(s) \in Nat /\ Len(hist[s]) <= Frontier(s)
      /\ Len(hist[s]) \div BlockSize \in Nat
  BY SeqShape, SequenceType, Typed DEF TypeInv
<1>2. /\ Alone(s) /\ pc[s] = "note" /\ pc'[s] = "idle" /\ hist'[s] = hist[s] \o tokens[s]
      /\ blocks'[s] = blocks[s] /\ head'[s] = head[s] /\ tail'[s] = tail[s]
      /\ dropping'[s] = dropping[s] /\ UNCHANGED storeVars /\ UNCHANGED content
  BY <1>1, NoteEndEffect, NoteDeferredEffect DEF SameStore, storeVars
<1>3. SlotsKept(s)
  BY <1>1, <1>2, SlotsSteady
<1>4. HashedInv'
  BY <1>1, <1>2, NoNewHashes, HashedKept DEF ContentInv
<1>5. PICK full \in Nat : full = Len(hist[s]) \div BlockSize
  BY <1>1
<1>6. PICK last \in Nat : last = Len(hist[s] \o tokens[s]) \div BlockSize
  BY <1>1, DivBounds, KvPoolConstants
<1>7. full <= last
  BY <1>1, <1>5, <1>6, DivMonotone, KvPoolConstants
<1>8. ASSUME NEW i \in Index, NextSlot(s, i) # NoBlock PROVE Holds(s, i)'
  <2>1. Slot(s, i)' = Slot(s, i) /\ Slot(s, i) # NoBlock /\ Holds(s, i)
    BY <1>1, <1>3, <1>8, SlotNext DEF SlotsKept, ContentInv
  <2>2. i # 0
    BY <1>1, <1>2, <2>1 DEF Slot, TypeInv, Progress, ProgressOf
  <2>3. content'[Slot(s, i)'] = content[Slot(s, i)]
    BY <1>2, <2>1
  <2>4. ASSUME i > full PROVE content[Slot(s, i)] = RowsTo(hist[s] \o tokens[s], i) /\ i \in Nat
    <3>1. i \in Nat
      BY <2>4 DEF Index
    <3> QED BY <1>2, <1>5, <2>1, <2>4, <3>1 DEF Holds, Written
  <2>5. ASSUME i > 0, i <= last PROVE content[Slot(s, i)] = HashAt(hist[s] \o tokens[s], i)
    <3>1. i \in Nat
      BY <2>5 DEF Index
    <3>2. CASE i <= full
      <4>1. content[Slot(s, i)] = HashAt(hist[s], i)
        BY <1>2, <1>5, <2>1, <2>5, <3>2 DEF Holds
      <4> QED BY <1>1, <1>5, <3>1, <3>2, <4>1, HashAtConcat
    <3>3. CASE i > full
      BY <1>1, <1>6, <2>4, <2>5, <3>3, RowsWhole
    <3> QED BY <3>1, <3>2, <3>3
  <2>6. ASSUME i = last + 1 PROVE IsPrefix(hist[s] \o tokens[s], content[Slot(s, i)])
    <3>1. i > full /\ i > last
      BY <1>7, <2>6
    <3>2. content[Slot(s, i)] = RowsTo(hist[s] \o tokens[s], i) /\ i \in Nat
      BY <2>4, <3>1
    <3>3. RowsTo(hist[s] \o tokens[s], i) = hist[s] \o tokens[s]
      BY <1>1, <1>6, <3>1, <3>2, RowsAll
    <3> QED BY <1>1, <3>2, <3>3, PrefixSelf
  <2>7. HashAt(hist[s], i)' = HashAt(hist[s] \o tokens[s], i)
    BY <1>2 DEF HashAt
  <2>8. Len(hist'[s]) \div BlockSize = last
    BY <1>2, <1>6
  <2>9. pc'[s] = "idle" /\ hist'[s] = hist[s] \o tokens[s]
    BY <1>2
  <2> QED BY <2>2, <2>3, <2>5, <2>6, <2>7, <2>8, <2>9 DEF Holds, Written
<1> QED BY <1>1, <1>2, <1>4, <1>8, ContentAlone

\* publish_deferred_prefixes indexes complete blocks under their own tokens.
LEMMA ContentPublish ==
  ASSUME TableInv, TypeInv', RefInv, RefInv', ContentInv, NEW s \in Seqs, Publish(s)
  PROVE  ContentInv'
<1>1. TypeInv /\ s \in Owners /\ StoreOK /\ StoreOK'
  BY SeqShape DEF RefInv
<1>2. /\ Alone(s) /\ pc[s] = "idle" /\ pc'[s] = "idle" /\ InstallMetadata(metadata[s])
      /\ SameTable(s) /\ SameRun(s) /\ UNCHANGED content
  BY <1>1, PublishEffect
<1>3. HashedInv'
  <2> SUFFICES ASSUME NEW c \in Blocks, hashes'[c] # NoHash PROVE content'[c] = hashes'[c]
    BY DEF HashedInv
  <2>1. <<hashes'[c], c>> \in byHash'
    BY <1>1 DEF StoreOK
  <2>2. byHash' = byHash \cup ToSet(metadata[s])
    BY <1>2 DEF InstallMetadata
  <2>3. CASE <<hashes'[c], c>> \in byHash
    <3>1. hashes'[c] = hashes[c]
      BY <1>1, <2>3 DEF StoreOK
    <3> QED BY <1>2, <3>1 DEF ContentInv, HashedInv
  <2>4. CASE <<hashes'[c], c>> \in ToSet(metadata[s])
    <3>1. PICK k \in DOMAIN metadata[s] : metadata[s][k] = <<hashes'[c], c>>
      BY <2>4 DEF ToSet
    <3>2. PICK i \in Index : /\ i > 0 /\ i <= Len(hist[s]) \div BlockSize
                             /\ metadata[s][k] = <<HashAt(hist[s], i), Slot(s, i)>>
                             /\ Slot(s, i) # NoBlock
      BY <1>2, <3>1, ListedPlace
    <3>3. Slot(s, i) = c /\ HashAt(hist[s], i) = hashes'[c]
      BY <3>1, <3>2
    <3>4. Holds(s, i)
      BY <1>1, <3>2 DEF ContentInv
    <3> QED BY <1>2, <3>2, <3>3, <3>4 DEF Holds
  <2> QED BY <2>1, <2>2, <2>3, <2>4
<1>4. SlotsKept(s)
  BY <1>1, <1>2, SlotsSteady DEF SameTable, SameRun, SameUndo
<1>5. Continues(s)
  BY <1>2 DEF Continues, SameTable, Written
<1>6. ASSUME NEW i \in Index, NextSlot(s, i) # NoBlock PROVE Holds(s, i)'
  <2>1. NextSlot(s, i) = Slot(s, i) /\ Holds(s, i)
    BY <1>1, <1>4, <1>6 DEF SlotsKept, ContentInv
  <2> QED BY <1>1, <1>2, <1>5, <2>1, HoldsKeeps
<1> QED BY <1>1, <1>2, <1>3, <1>6, ContentAlone

-----------------------------------------------------------------------------
(* Copies.                                                                 *)

LEMMA ContentStartsCopy ==
  ASSUME TypeInv, ContentInv, NEW from \in Owners, NEW to \in Owners, StartsCopy(from, to)
  PROVE  ContentInv'
<1>1. /\ from # to /\ pc[from] = "idle" /\ pc'[from] \in {"lent", "idle"} /\ pc'[to] = "copying"
      /\ SameTable(from) /\ (from \in Seqs => SameSeq(from))
      /\ \A q \in Owners \ {from, to} : Kept(q)
      /\ hashes' = hashes /\ content' = content
  BY DEF StartsCopy, SameStore
<1>2. HashedInv'
  BY <1>1 DEF ContentInv, HashedInv
<1>3. ASSUME NEW q \in Owners, NEW i \in Index, NextSlot(q, i) # NoBlock PROVE Holds(q, i)'
  <2>1. CASE q = to
    BY <1>1, <2>1 DEF Holds, Written
  <2>2. CASE q # to
    <3>1. SlotsKept(q)
      BY <1>1, <2>2, KeptSlots, SlotsSteady DEF SameTable, SameSeq, SameRun, SameUndo
    <3>2. Continues(q)
      BY <1>1, <2>2 DEF Kept, SameTable, SameSeq, SameRun, Continues, Written
    <3>3. NextSlot(q, i) = Slot(q, i) /\ Holds(q, i)
      BY <1>3, <3>1 DEF SlotsKept, ContentInv
    <3> QED BY <1>1, <3>2, <3>3, HoldsKeeps
  <2> QED BY <2>1, <2>2
<1> QED BY <1>2, <1>3, SlotNext DEF ContentInv

LEMMA ContentCopyRef ==
  ASSUME TypeInv, ContentInv, NEW o \in Owners, CopyRef(o)
  PROVE  ContentInv'
<1>1. /\ Alone(o) /\ pc'[o] = "copying" /\ UNCHANGED content
      /\ RefBlock(blocks[source[o]][Len(blocks[o]) + 1])
  BY CopyRefEffect
<1>2. HashedInv'
  BY <1>1 DEF RefBlock, ContentInv, HashedInv
<1>3. \A i \in Index : Holds(o, i)'
  BY <1>1 DEF Holds, Written
<1> QED BY <1>1, <1>2, <1>3, ContentAlone

\* A copy reads its source's blocks, and they hold the history it is given.
LEMMA ContentEndsCopy ==
  ASSUME TableInv, ContentInv, NEW o \in Owners, EndsCopy(o, source[o])
  PROVE  ContentInv'
<1>1. PICK src \in Owners \ {o} : src = source[o]
  BY DEF EndsCopy
<1>2. /\ pc[o] = "copying" /\ pc[src] \in {"lent", "idle"} /\ pc'[o] = "idle" /\ pc'[src] = "idle"
      /\ Len(blocks[o]) = Len(blocks[src])
      /\ hist'[o] = hist[src] /\ blocks'[o] = blocks[o] /\ head'[o] = head[o]
      /\ (o \in Seqs => SameSeq(o))
      /\ SameTable(src) /\ (src \in Seqs => SameSeq(src))
      /\ \A q \in Owners \ {src, o} : Kept(q)
      /\ hashes' = hashes /\ content' = content
  BY <1>1 DEF EndsCopy, SameStore
<1>3. HashedInv'
  BY <1>2 DEF ContentInv, HashedInv
<1>4. TypeInv /\ LengthInv /\ WindowInv
  BY DEF TableInv
<1>5. ASSUME NEW q \in Owners, NEW i \in Index, NextSlot(q, i) # NoBlock PROVE Holds(q, i)'
  <2>1. CASE q # o
    <3>1. SlotsKept(q)
      BY <1>2, <1>4, <2>1, KeptSlots, SlotsSteady DEF SameTable, SameSeq, SameRun, SameUndo
    <3>2. Continues(q)
      BY <1>2, <2>1 DEF Kept, SameTable, SameSeq, SameRun, Continues, Written
    <3>3. NextSlot(q, i) = Slot(q, i) /\ Holds(q, i)
      BY <1>5, <3>1 DEF SlotsKept, ContentInv
    <3> QED BY <1>2, <3>2, <3>3, HoldsKeeps
  <2>2. CASE q = o
    <3>1. SlotsKept(o)
      BY <1>2, SlotsSteady DEF SameSeq, SameRun, SameUndo
    <3>2. Slot(o, i) # NoBlock /\ Slot(o, i)' = Slot(o, i)
      BY <1>5, <2>2, <3>1, SlotNext DEF SlotsKept
    <3>3. i > 0
      BY <1>2, <1>4, <3>2 DEF Slot, TypeInv, Progress, ProgressOf, Executing
    <3>4. head[o] < i /\ i <= Len(blocks[o]) /\ Slot(o, i) = blocks[o][i] /\ i \in 1 .. Len(blocks[o])
      <4>1. head[o] < i /\ i <= Len(blocks[o]) /\ Slot(o, i) = blocks[o][i]
        BY <1>4, <3>2, <3>3, SlotLive
      <4>2. Len(blocks[o]) \in Nat
        BY OwnerShape
      <4> QED BY <3>3, <4>1, <4>2 DEF Index
    <3>5. blocks[o][i] = blocks[src][i]
      BY <1>1, <1>2, <1>4, <3>4 DEF LengthInv, LengthsOf
    <3>6. head[src] < i /\ i <= Len(blocks[src]) /\ i \in Int
      BY <1>1, <1>2, <1>4, <3>4 DEF WindowInv, Behind
    <3>7. Slot(src, i) = blocks[src][i] /\ Slot(src, i) # NoBlock
      BY <1>4, <3>6, TableSlot
    <3>8. Holds(src, i)
      BY <3>7 DEF ContentInv
    <3>9. HashAt(hist[o], i)' = HashAt(hist[src], i)
      BY <1>2 DEF HashAt
    <3>10. content'[Slot(o, i)'] = content[Slot(src, i)]
      BY <1>2, <3>2, <3>4, <3>5, <3>7
    <3> QED BY <1>2, <2>2, <3>3, <3>8, <3>9, <3>10 DEF Holds, Written
  <2> QED BY <2>1, <2>2
<1> QED BY <1>3, <1>5, SlotNext DEF ContentInv

-----------------------------------------------------------------------------
(* Theorems.                                                               *)

\* An immutable prefix executes nothing.
HandleInv == \A p \in Handles : pc[p] \in {Unused, "idle", "copying", "return"}

LEMMA HandleStep ==
  ASSUME TypeInv, HandleInv, [Next]_vars
  PROVE  HandleInv'
<1> SUFFICES ASSUME NEW p \in Handles PROVE pc'[p] \in {Unused, "idle", "copying", "return"}
  BY DEF HandleInv
<1>1. p \in Owners /\ p \notin Seqs /\ pc[p] \in {Unused, "idle", "copying", "return"}
  BY KvPoolConstants DEF Owners, HandleInv
<1>2. \A s \in Seqs : Alone(s) => pc'[p] = pc[p]
  BY <1>1 DEF Alone, Kept
<1>3. CASE Quiet
  BY <1>1, <1>3 DEF Quiet, Kept
<1>4. ASSUME NEW s \in Seqs,
             \/ NewSequence(s) \/ Publish(s) \/ MatchTake(s) \/ MatchEnd(s)
             \/ (\E t \in Chunks(MaxLen) : MatchBegin(s, t))
             \/ (\E t \in Chunks(MaxChunk) : ExecBegin(s, t))
      PROVE  Alone(s)
  BY <1>4, NewSequenceEffect, PublishEffect, MatchTakeEffect, MatchEndEffect,
     MatchBeginEffect, ExecBeginEffect
<1>5. ASSUME NEW s \in Seqs, Execution(s) PROVE Alone(s)
  <2>1. CASE RetainTail(s) \/ Prepare(s) \/ CopyTail(s) \/ DropReplaced(s)
    BY <2>1, RetainTailEffect, PrepareEffect, CopyTailEffect, DropReplacedEffect
  <2>2. CASE AllocNext(s) \/ WriteRows(s) \/ Fail(s) \/ Commit(s)
    BY <2>2, AllocNextEffect, WriteRowsEffect, FailEffect, CommitEffect
  <2>3. CASE Evict(s) \/ CommitEnd(s) \/ Note(s) \/ NoteEnd(s) \/ NoteDeferred(s)
    BY <2>3, EvictEffect, CommitEndEffect, NoteEffect, NoteEndEffect, NoteDeferredEffect
  <2>4. CASE RollbackBlock(s) \/ RestoreTail(s) \/ RollbackEnd(s)
    BY <2>4, RollbackBlockEffect, RestoreTailEffect, RollbackEndEffect
  <2> QED BY <1>5, <2>1, <2>2, <2>3, <2>4 DEF Execution
<1>6. ASSUME NEW o \in Owners, StartsReturn(o) \/ Returning(o) \/ CopyRef(o)
      PROVE  Alone(o) /\ pc'[o] \in {Unused, "copying", "return"}
  BY <1>6, ReturnBlockEffect, ReturnEndEffect, CopyRefEffect DEF StartsReturn, Returning
<1>7. ASSUME NEW from \in Owners, NEW to \in Owners, StartsCopy(from, to)
      PROVE  pc'[p] \in {pc[p], "idle", "copying"}
  BY <1>1, <1>7 DEF StartsCopy, Kept
<1>8. ASSUME NEW o \in Owners, EndsCopy(o, source[o])
      PROVE  pc'[p] \in {pc[p], "idle"}
  BY <1>1, <1>8 DEF EndsCopy, Kept
<1>9. ASSUME NEW o \in Owners, StartsReturn(o) \/ Returning(o) \/ CopyRef(o)
      PROVE  pc'[p] \in {Unused, "copying", "return", pc[p]}
  BY <1>1, <1>6, <1>9 DEF Alone, Kept
<1> QED BY NextCases, <1>1, <1>2, <1>3, <1>4, <1>5, <1>7, <1>8, <1>9

LEMMA ContentExecution ==
  ASSUME TableInv, TypeInv', RefInv, ContentInv, NoStaleNotes, NEW s \in Seqs, Execution(s)
  PROVE  ContentInv'
  BY ContentEasy, ContentRetainTail, ContentCopyTail, ContentRestoreTail, ContentAllocNext,
     ContentWriteRows, ContentNote, ContentAdvance DEF Execution

LEMMA ContentStep ==
  ASSUME TableInv, TypeInv', RefInv, RefInv', ContentInv, NoStaleNotes, [Next]_vars
  PROVE  ContentInv'
<1>0. TypeInv
  BY DEF TableInv
<1>1. CASE Quiet
  BY <1>0, <1>1, ContentQuiet
<1>2. CASE \E s \in Seqs : NewSequence(s)
  BY <1>0, <1>2, ContentNewSequence
<1>3. CASE \E s \in Seqs : Publish(s)
  BY <1>3, ContentPublish
<1>4. CASE \E s \in Seqs : \E t \in Chunks(MaxLen) : MatchBegin(s, t)
  BY <1>0, <1>4, ContentMatchBegin
<1>5. CASE \E s \in Seqs : \E t \in Chunks(MaxChunk) : ExecBegin(s, t)
  BY <1>0, <1>5, ContentExecBegin
<1>6. CASE \E s \in Seqs : MatchTake(s)
  BY <1>6, ContentMatchTake
<1>7. CASE \E s \in Seqs : MatchEnd(s)
  BY <1>7, ContentMatchEnd
<1>8. CASE \E s \in Seqs : Execution(s)
  BY <1>8, ContentExecution
<1>9. CASE \E o \in Owners : StartsReturn(o) \/ Returning(o)
  BY <1>0, <1>9, ContentReturn DEF Returning
<1>10. CASE \E from, to \in Owners : StartsCopy(from, to)
  BY <1>0, <1>10, ContentStartsCopy
<1>11. CASE \E o \in Owners : CopyRef(o)
  BY <1>0, <1>11, ContentCopyRef
<1>12. CASE \E o \in Owners : EndsCopy(o, source[o])
  BY <1>12, ContentEndsCopy
<1> QED BY <1>0, NextCases, <1>1, <1>2, <1>3, <1>4, <1>5, <1>6, <1>7, <1>8, <1>9, <1>10, <1>11,
           <1>12

LEMMA ContentInit == Init => ContentInv /\ HandleInv
<1> SUFFICES ASSUME Init PROVE ContentInv /\ HandleInv
  OBVIOUS
<1>1. ASSUME NEW o \in Owners, NEW i \in Index PROVE Slot(o, i) = NoBlock
  <2>1. blocks[o] = <<>> /\ (o \in Seqs => tail[o] = NoBlock /\ dropping[o] = NoBlock)
    BY DEF Init
  <2>2. ~ (i > 0 /\ i <= Len(blocks[o]))
    BY <2>1 DEF Index
  <2> QED BY <2>1, <2>2 DEF Slot
<1>2. HashedInv
  BY DEF Init, HashedInv
<1>3. HandleInv
  BY DEF Init, HandleInv, Owners
<1> QED BY <1>1, <1>2, <1>3 DEF ContentInv

LEMMA ContentInvariant == NoStaleNotes /\ Spec => [](TableInv /\ RefInv /\ ContentInv /\ HandleInv)
<1> DEFINE Base == TableInv /\ RefInv
           Inv == ContentInv /\ HandleInv
<1>1. Init => Inv
  BY ContentInit
<1>2. NoStaleNotes /\ Base /\ Base' /\ Inv /\ [Next]_vars => Inv'
  <2> SUFFICES ASSUME NoStaleNotes, Base, Base', Inv, [Next]_vars PROVE Inv'
    OBVIOUS
  <2>1. TypeInv /\ TypeInv' /\ RefInv'
    BY DEF TableInv
  <2>2. ContentInv'
    BY <2>1, ContentStep
  <2>3. HandleInv'
    BY <2>1, HandleStep
  <2> QED BY <2>2, <2>3
<1>3. NoStaleNotes => NoStaleNotes'
  BY DEF NoStaleNotes
<1>4. NoStaleNotes /\ Spec => []Base
  BY RefInvariant
<1> HIDE DEF Base, Inv
<1>5. NoStaleNotes /\ Spec => [](Base /\ Inv)
  BY <1>1, <1>2, <1>3, <1>4, PTL DEF Spec
<1>6. Base /\ Inv => TableInv /\ RefInv /\ ContentInv /\ HandleInv
  BY DEF Base, Inv
<1> QED BY <1>5, <1>6, PTL

\* The prefix cache never serves stale rows: whatever sequences are written,
\* rolled back, evicted and reallocated, a block that by_hash indexes holds
\* the rows of exactly the tokens it is indexed under.
THEOREM CacheCorrect == NoStaleNotes /\ Spec => []CacheContent
<1>1. TableInv /\ RefInv /\ ContentInv => CacheContent
  <2> SUFFICES ASSUME TypeInv, StoreOK, HashedInv, NEW e \in byHash PROVE content[e[2]] = e[1]
    BY DEF TableInv, RefInv, ContentInv, CacheContent
  <2>1. e[2] \in Blocks /\ e[1] = hashes[e[2]] /\ e[1] # NoHash
    BY Typed DEF StoreOK
  <2> QED BY <2>1 DEF HashedInv
<1> QED BY <1>1, ContentInvariant, PTL

\* The live table is at least as long as the history needs.
LEMMA HistoryFits ==
  ASSUME TableInv, HandleInv, NEW o \in Owners, pc[o] \notin {Unused, "match", "copying", "return"}
  PROVE  BlocksFor(Len(hist[o])) <= Len(blocks[o])
<1>1. TypeInv /\ LengthInv /\ Len(blocks[o]) \in Nat /\ BlocksFor(Len(hist[o])) \in Nat
  <2>1. TypeInv /\ LengthInv /\ Len(blocks[o]) \in Nat
    BY OwnerShape
  <2>2. hist[o] \in Seq(Token)
    BY <2>1, Typed
  <2>3. Len(hist[o]) \in Nat
    BY <2>2
  <2> QED BY <2>1, <2>3, BlocksForType
<1>2. pc[o] \in SeqPcs
  BY <1>1, Typed
<1>3. CASE pc[o] \in {"idle", "lent", "retain", "prepare", "copy", "copied"}
  BY <1>1, <1>3 DEF LengthInv, LengthsOf
<1>4. CASE o \in Seqs /\ pc[o] \in {"alloc", "computed", "evict", "note"}
  BY <1>1, <1>4 DEF LengthInv, RunLengths
<1>5. CASE o \in Seqs /\ pc[o] \in {"rollback", "restored"}
  <2>1. Len(before[o]) = BlocksFor(Len(hist[o])) /\ Len(before[o]) <= Len(blocks[o])
    BY <1>1, <1>5 DEF LengthInv, RunLengths, TypeInv, Progress, ProgressOf, Undoable, Executing
  <2> QED BY <2>1
<1>6. o \notin Seqs => pc[o] = "idle"
  BY DEF HandleInv, Owners
<1> QED BY <1>2, <1>3, <1>4, <1>5, <1>6 DEF SeqPcs

\* What a sequence or a prefix attends to is its own history: while others
\* share its blocks, copy on write, roll back, evict or reuse freed blocks,
\* each live block of an owner holds the rows of the owner's own tokens.
THEOREM HistoryCorrect == NoStaleNotes /\ Spec => []OwnHistory
<1>1. TableInv /\ ContentInv /\ HandleInv => OwnHistory
  <2> SUFFICES ASSUME TableInv, ContentInv, HandleInv, NEW o \in Owners,
                      pc[o] \notin {Unused, "return"},
                      NEW i \in (head[o] + 1) .. BlocksFor(Len(hist[o]))
               PROVE  IsPrefix(RowsTo(hist[o], i), content[blocks[o][i]])
    BY DEF OwnHistory, RowsTo
  <2>1. /\ TypeInv /\ LengthInv /\ hist[o] \in Seq(Token) /\ Len(hist[o]) \in Nat
        /\ head[o] \in Nat /\ Len(blocks[o]) \in Nat
    BY OwnerShape, Typed
  <2>2. /\ BlocksFor(Len(hist[o])) \in Nat /\ Len(hist[o]) \div BlockSize \in Nat
        /\ BlocksFor(Len(hist[o])) <= (Len(hist[o]) \div BlockSize) + 1
        /\ Len(hist[o]) % BlockSize = 0 => BlocksFor(Len(hist[o])) = Len(hist[o]) \div BlockSize
    BY <2>1, TailFits
  <2>3. i \in Nat /\ head[o] < i /\ i <= BlocksFor(Len(hist[o])) /\ i > 0
    BY <2>1, <2>2
  <2>4. pc[o] \notin {"match", "copying"}
    <3> SUFFICES ASSUME pc[o] \in {"match", "copying"} PROVE FALSE
      OBVIOUS
    <3>1. Len(hist[o]) = 0
      BY <2>1 DEF LengthInv, LengthsOf
    <3>2. BlocksFor(0) = 0
      <4>1. 0 * BlockSize = 0
        BY KvPoolConstants
      <4> QED BY <4>1, WholeBlocks
    <3> QED BY <2>3, <3>1, <3>2
  <2>5. i <= Len(blocks[o])
    BY <2>1, <2>2, <2>3, <2>4, HistoryFits
  <2>6. i \in Index /\ Slot(o, i) = blocks[o][i] /\ Slot(o, i) # NoBlock
    BY <2>1, <2>3, <2>5, TableSlot
  <2>7. Holds(o, i)
    BY <2>6 DEF ContentInv
  <2>8. CASE i <= Len(hist[o]) \div BlockSize
    <3>1. content[blocks[o][i]] = HashAt(hist[o], i)
      BY <2>3, <2>4, <2>6, <2>7, <2>8 DEF Holds
    <3>2. HashAt(hist[o], i) \in Seq(Token) /\ RowsTo(hist[o], i) = HashAt(hist[o], i)
      BY <2>1, <2>3, <2>8, HashAtType, RowsWhole
    <3> QED BY <3>1, <3>2, PrefixSelf
  <2>9. CASE i > Len(hist[o]) \div BlockSize
    <3>1. i = (Len(hist[o]) \div BlockSize) + 1 /\ Len(hist[o]) % BlockSize # 0
      BY <2>2, <2>3, <2>9
    <3>2. IsPrefix(hist[o], content[blocks[o][i]])
      BY <2>4, <2>6, <2>7, <3>1 DEF Holds
    <3> QED BY <2>1, <2>3, <2>9, <3>2, RowsAll
  <2> QED BY <2>2, <2>3, <2>8, <2>9
<1> QED BY <1>1, ContentInvariant, PTL
=============================================================================
