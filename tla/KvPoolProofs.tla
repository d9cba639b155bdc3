---------------------------- MODULE KvPoolProofs ----------------------------
(***************************************************************************)
(* Proofs about the paged key/value pool.                                  *)
(***************************************************************************)
EXTENDS KvPool, TLAPS, FiniteSetTheorems, SequenceTheorems

Executing == {"retain", "prepare", "copy", "copied", "alloc", "computed",
              "evict", "note", "rollback", "restored"}
Undoable == Executing \ {"evict", "note"}

\* What the running operation of a sequence knows about its block table.
ProgressOf(s) ==
  /\ pc[s] = "match" =>
       Len(tokens[s]) > 0 /\ Len(blocks[s]) <= Matchable(s)
  /\ pc[s] \in Undoable =>
       head[s] <= Len(before[s]) /\ Len(before[s]) <= Len(blocks[s])
  /\ pc[s] = "retain" => TailIndex(s) <= Len(before[s])
  /\ pc[s] = "copy" => TailIndex(s) <= Len(blocks[s])
  /\ tail[s] # NoBlock =>
       /\ pc[s] \in Executing \ {"retain", "note"}
       /\ TailIndex(s) <= Len(before[s])
  /\ dropping[s] # NoBlock <=> pc[s] \in {"copied", "restored"}
  /\ pc[s] = "note" => noted[s] <= CompletedBlocks(s)
  /\ pc[s] \in {"computed", "evict", "note"} =>
       BlocksFor(Frontier(s)) <= Len(blocks[s])
Progress == \A s \in Seqs : ProgressOf(s)

\* An owner that is being copied from does nothing else meanwhile.
Lending ==
  \A o \in Owners : pc[o] = "copying" =>
    /\ source[o] \in Owners \ {o}
    /\ o \in Handles => source[o] \in Seqs
    /\ source[o] \in Handles => pc[source[o]] = "idle"
    /\ source[o] \in Seqs =>
         /\ pc[source[o]] = "lent"
         /\ \A q \in Owners : pc[q] = "copying" /\ source[q] = source[o] => q = o

TypeInv == TypeOK /\ Progress /\ Lending

-----------------------------------------------------------------------------
(* Arithmetic of block indices.                                            *)

LEMMA NatSum ==
  ASSUME NEW m \in Nat, NEW n \in Nat
  PROVE  m + n \in Nat /\ m <= m + n
  OBVIOUS

LEMMA DivBounds ==
  ASSUME NEW n \in Nat, NEW d \in Nat \ {0}
  PROVE  /\ n \div d \in Nat
         /\ d * (n \div d) <= n
         /\ n < d * ((n \div d) + 1)
  OBVIOUS

LEMMA DivMonotone ==
  ASSUME NEW m \in Nat, NEW n \in Nat, m <= n, NEW d \in Nat \ {0}
  PROVE  m \div d <= n \div d
<1> DEFINE p == m \div d
           q == n \div d
<1>1. p \in Nat /\ q \in Nat /\ d * p <= m /\ n < d * (q + 1)
  BY DivBounds
<1>2. d * p < d * (q + 1)
  BY <1>1
<1> HIDE DEF p, q
<1>3. SUFFICES ASSUME p >= q + 1 PROVE FALSE
  BY <1>1 DEF p, q
<1>4. d * p >= d * (q + 1)
  BY <1>1, <1>3
<1> QED
  BY <1>1, <1>2, <1>4

LEMMA CompletedFit ==
  ASSUME NEW n \in Nat
  PROVE  n \div BlockSize <= BlocksFor(n)
  BY KvPoolConstants, DivMonotone DEF BlocksFor

LEMMA BlockEndFits ==
  ASSUME NEW n \in Nat, NEW i \in Nat, i <= n \div BlockSize
  PROVE  i * BlockSize \in Nat /\ i * BlockSize <= n
<1> DEFINE q == n \div BlockSize
<1>1. q \in Nat /\ BlockSize * q <= n
  BY KvPoolConstants, DivBounds
<1> HIDE DEF q
<1>2. BlockSize * i <= BlockSize * q /\ BlockSize * i = i * BlockSize
  BY <1>1, KvPoolConstants DEF q
<1> QED
  BY <1>1, <1>2, KvPoolConstants

-----------------------------------------------------------------------------
(* The store operations keep the types.                                    *)

LEMMA RefType ==
  ASSUME StoreType, NEW b \in Blocks, RefBlock(b)
  PROVE  StoreType'
  BY DEF StoreType, RefBlock

LEMMA UnrefType ==
  ASSUME StoreType, NEW b \in Blocks, UnrefBlock(b)
  PROVE  StoreType'
  BY DEF StoreType, UnrefBlock

LEMMA AllocType ==
  ASSUME StoreType, NEW b \in Blocks, AllocBlock(b)
  PROVE  StoreType'
<1>1. lru' \in Seq(Blocks)
  <2>1. CASE AllocFree(b)
    BY <2>1 DEF AllocFree, StoreType
  <2>2. CASE AllocCached(b)
    <3>1. PICK i \in 1 .. Len(lru) : lru' = SubSeq(lru, i + 1, Len(lru))
      BY <2>2 DEF AllocCached
    <3>2. \A j \in (i + 1) .. Len(lru) : lru[j] \in Blocks
      BY DEF StoreType
    <3> QED
      BY <3>1, <3>2, SubSeqProperties DEF StoreType
  <2> QED
    BY <2>1, <2>2 DEF AllocBlock
<1> QED
  BY <1>1 DEF StoreType, AllocBlock, AllocFree, AllocCached, NoHash

LEMMA ExhaustedType ==
  ASSUME StoreType, AllocExhausted
  PROVE  StoreType'
  BY DEF StoreType, AllocExhausted

LEMMA SetHashType ==
  ASSUME StoreType, NEW b \in Blocks, NEW h \in Seq(Token), SetHash(b, h)
  PROVE  StoreType'
  BY DEF StoreType, SetHash

LEMMA InstallType ==
  ASSUME StoreType, NEW m \in Seq(Seq(Token) \X Blocks), InstallMetadata(m)
  PROVE  StoreType'
<1>1. \A i \in 1 .. Len(m) : m[i][1] \in Seq(Token) /\ m[i][2] \in Blocks
  OBVIOUS
<1>2. hashes' \in [Blocks -> Seq(Token)]
  BY <1>1 DEF InstallMetadata, StoreType
<1>3. ToSet(m) \subseteq Seq(Token) \X Blocks
  BY DEF ToSet
<1> QED
  BY <1>2, <1>3 DEF StoreType, InstallMetadata

-----------------------------------------------------------------------------
(* Block tables.                                                           *)

LEMMA PrefixOf ==
  ASSUME NEW S, NEW t \in Seq(S), NEW n \in Nat, n <= Len(t)
  PROVE  /\ SubSeq(t, 1, n) \in Seq(S)
         /\ Len(SubSeq(t, 1, n)) = n
         /\ \A i \in 1 .. n : SubSeq(t, 1, n)[i] = t[i]
<1>1. \A i \in 1 .. n : t[i] \in S
  OBVIOUS
<1> QED
  BY <1>1, SubSeqProperties

LEMMA PopTable ==
  ASSUME NEW t \in Seq(Blocks), Len(t) > 0
  PROVE  /\ Front(t) \in Seq(Blocks)
         /\ Len(Front(t)) = Len(t) - 1
         /\ \A i \in 1 .. Len(t) - 1 : Front(t)[i] = t[i]
         /\ Last(t) \in Blocks
<1>1. Len(t) - 1 \in Nat /\ Len(t) - 1 <= Len(t)
  OBVIOUS
<1>2. Front(t) = SubSeq(t, 1, Len(t) - 1) /\ Last(t) = t[Len(t)]
  BY DEF Front, Last
<1>3. /\ SubSeq(t, 1, Len(t) - 1) \in Seq(Blocks)
      /\ Len(SubSeq(t, 1, Len(t) - 1)) = Len(t) - 1
      /\ \A i \in 1 .. (Len(t) - 1) : SubSeq(t, 1, Len(t) - 1)[i] = t[i]
  BY <1>1, PrefixOf
<1>4. Last(t) \in Blocks
  BY <1>2
<1> QED
  BY <1>2, <1>3, <1>4

LEMMA ReplaceEntry ==
  ASSUME NEW t \in Seq(Blocks), NEW i \in 1 .. Len(t), NEW b \in Blocks
  PROVE  /\ [t EXCEPT ![i] = b] \in Seq(Blocks)
         /\ Len([t EXCEPT ![i] = b]) = Len(t)
  OBVIOUS

LEMMA HashAtType ==
  ASSUME NEW t \in Seq(Token), NEW i \in Nat, i <= Len(t) \div BlockSize
  PROVE  HashAt(t, i) \in Seq(Token) /\ Len(HashAt(t, i)) = i * BlockSize
  BY BlockEndFits, PrefixOf DEF HashAt

LEMMA ChunkType ==
  ASSUME NEW n \in Nat, NEW t \in Chunks(n)
  PROVE  t \in Seq(Token) /\ Len(t) > 0 /\ Len(t) <= n
  BY DEF Chunks, SeqOf

\* The derived quantities of a sequence are natural numbers.
LEMMA SequenceType ==
  ASSUME TypeOK, NEW s \in Seqs
  PROVE  /\ s \in Owners
         /\ blocks[s] \in Seq(Blocks) /\ before[s] \in Seq(Blocks)
         /\ hist[s] \in Seq(Token) /\ tokens[s] \in Seq(Token)
         /\ head[s] \in Nat /\ head[s] <= Len(blocks[s])
         /\ TailIndex(s) \in Nat \ {0}
         /\ Frontier(s) \in Nat /\ Len(hist[s]) <= Frontier(s)
         /\ Frontier(s) = Len(hist[s] \o tokens[s])
         /\ hist[s] \o tokens[s] \in Seq(Token)
         /\ CompletedBlocks(s) \in Nat /\ BlocksFor(Frontier(s)) \in Nat
         /\ Len(blocks[s]) \in Nat /\ Len(before[s]) \in Nat
         /\ Len(hist[s]) \in Nat /\ Len(tokens[s]) \in Nat
<1>1. /\ s \in Owners
      /\ blocks[s] \in Seq(Blocks) /\ before[s] \in Seq(Blocks)
      /\ hist[s] \in Seq(Token) /\ tokens[s] \in Seq(Token)
      /\ head[s] \in Nat /\ head[s] <= Len(blocks[s])
  BY DEF TypeOK, TableType, RunType, Owners
<1>2. Len(hist[s]) \in Nat /\ Len(tokens[s]) \in Nat
  BY <1>1
<1>10. Len(blocks[s]) \in Nat /\ Len(before[s]) \in Nat
  BY <1>1
<1>3. /\ Len(hist[s] \o tokens[s]) = Len(hist[s]) + Len(tokens[s])
      /\ hist[s] \o tokens[s] \in Seq(Token)
  BY <1>1, ConcatProperties
<1>8. Frontier(s) \in Nat /\ Len(hist[s]) <= Frontier(s)
  BY <1>2, NatSum DEF Frontier
<1>9. Frontier(s) + BlockSize - 1 \in Nat
  <2>1. BlockSize \in Nat /\ BlockSize >= 1
    BY KvPoolConstants
  <2> QED
    BY ONLY <1>8, <2>1
<1>4. Len(hist[s]) \div BlockSize \in Nat /\ Frontier(s) \div BlockSize \in Nat
  BY ONLY <1>2, <1>8, DivBounds, KvPoolConstants
<1>5. (Frontier(s) + BlockSize - 1) \div BlockSize \in Nat
  BY ONLY <1>9, DivBounds, KvPoolConstants
<1>6. TailIndex(s) \in Nat \ {0}
  BY ONLY <1>4 DEF TailIndex
<1>7. CompletedBlocks(s) \in Nat /\ BlocksFor(Frontier(s)) \in Nat
  BY ONLY <1>4, <1>5 DEF CompletedBlocks, BlocksFor
<1> QED
  BY <1>1, <1>2, <1>3, <1>6, <1>7, <1>8, <1>10 DEF Frontier

\* A sequence whose own state a step leaves alone makes no progress.
LEMMA ProgressFrame ==
  ASSUME NEW q \in Seqs, ProgressOf(q),
         pc'[q] = pc[q], head'[q] = head[q], blocks'[q] = blocks[q],
         hist'[q] = hist[q], tokens'[q] = tokens[q], before'[q] = before[q],
         tail'[q] = tail[q], dropping'[q] = dropping[q], noted'[q] = noted[q]
  PROVE  ProgressOf(q)'
  BY DEF ProgressOf, TailIndex, Frontier, Matchable, CompletedBlocks, CompletedBlocks

\* Outside a transaction there is nothing to undo.
LEMMA ProgressAtRest ==
  ASSUME NEW q \in Seqs, pc'[q] \notin Executing \cup {"match"},
         tail'[q] = NoBlock, dropping'[q] = NoBlock
  PROVE  ProgressOf(q)'
  BY DEF ProgressOf, Executing, Undoable

-----------------------------------------------------------------------------
(* Every action keeps the types.                                           *)

LEMMA NewSequenceType ==
  ASSUME TypeInv, NEW s \in Seqs, NewSequence(s)
  PROVE  TypeInv'
<1>1. StoreType'
  BY DEF TypeInv, TypeOK, StoreType, NewSequence, storeVars
<1>2. TableType'
  BY DEF TypeInv, TypeOK, TableType, NewSequence, SeqPcs, Unused, vars,
     storeVars, tableVars, runVars, lifeVars, Goto, Owners
<1>3. RunType'
  BY DEF TypeInv, TypeOK, RunType, NewSequence, vars, storeVars, tableVars,
     runVars, lifeVars, Goto, Owners
<1>4. Progress'
  <2> SUFFICES ASSUME NEW q \in Seqs PROVE ProgressOf(q)'
    BY DEF Progress
  <2>1. CASE q # s
    BY <2>1, ProgressFrame DEF TypeInv, TypeOK, TableType, RunType,
       Progress, NewSequence, Owners, Goto, tableVars, runVars, lifeVars, Unused
  <2>2. CASE q = s
    BY <2>2, ProgressAtRest DEF TypeInv, TypeOK, TableType, RunType,
       Progress, ProgressOf, NewSequence, Executing, Owners, Goto, tableVars, runVars, lifeVars, Unused
  <2> QED
    BY <2>1, <2>2
<1>5. Lending'
  BY KvPoolConstants DEF TypeInv, TypeOK, TableType, Lending, NewSequence,
     Unused, vars, storeVars, tableVars, runVars, lifeVars, Goto, Owners
<1> QED
  BY <1>1, <1>2, <1>3, <1>4, <1>5 DEF TypeInv, TypeOK

LEMMA MatchBeginType ==
  ASSUME TypeInv, NEW s \in Seqs, NEW t \in Seq(Token), Len(t) > 0, MatchBegin(s, t)
  PROVE  TypeInv'
<1>a. blocks[s] = <<>> /\ Len(t) \in Nat
  BY DEF MatchBegin
<1>b. Len(t) - 1 \in Nat
  BY <1>a
<1>c. (Len(t) - 1) \div BlockSize \in Nat
  BY <1>b, DivBounds, KvPoolConstants
<1>1. StoreType'
  BY DEF TypeInv, TypeOK, StoreType, MatchBegin, storeVars
<1>2. TableType'
  BY DEF TypeInv, TypeOK, TableType, MatchBegin, SeqPcs, Unused, vars,
     storeVars, tableVars, runVars, lifeVars, Goto, Owners
<1>3. RunType'
  BY DEF TypeInv, TypeOK, RunType, MatchBegin, vars, storeVars, tableVars,
     runVars, lifeVars, Goto, Owners
<1>4. Progress'
  <2> SUFFICES ASSUME NEW q \in Seqs PROVE ProgressOf(q)'
    BY DEF Progress
  <2>1. CASE q # s
    BY <2>1, ProgressFrame DEF TypeInv, TypeOK, TableType, RunType, Progress,
       MatchBegin, Owners, Goto, tableVars, runVars, lifeVars
  <2>2. CASE q = s
    <3>1. /\ Len(blocks'[s]) = 0 /\ tokens'[s] = t /\ Matchable(s)' \in Nat
          /\ pc'[s] = "match" /\ tail'[s] = NoBlock /\ dropping'[s] = NoBlock
      BY <1>a, <1>c DEF TypeInv, TypeOK, TableType, RunType, Progress, ProgressOf,
         MatchBegin, Matchable, Goto, Owners, Executing, tableVars
    <3> QED
      BY <2>2, <3>1 DEF ProgressOf, Executing, Undoable
  <2> QED
    BY <2>1, <2>2
<1>5. Lending'
  BY KvPoolConstants DEF TypeInv, TypeOK, TableType, Lending, MatchBegin,
     Unused, vars, storeVars, tableVars, runVars, lifeVars, Goto, Owners
<1> QED
  BY <1>1, <1>2, <1>3, <1>4, <1>5 DEF TypeInv, TypeOK

LEMMA MatchTakeType ==
  ASSUME TypeInv, NEW s \in Seqs, MatchTake(s)
  PROVE  TypeInv'
<1>a. PICK b \in Blocks :
        TakeBlock(HashAt(tokens[s], Len(blocks[s]) + 1), b) /\ Push(s, b)
  BY DEF MatchTake
<1>b. /\ blocks' = [blocks EXCEPT ![s] = Append(blocks[s], b)]
      /\ Append(blocks[s], b) \in Seq(Blocks)
      /\ Len(Append(blocks[s], b)) = Len(blocks[s]) + 1
  <2>1. blocks[s] \in Seq(Blocks)
    BY SequenceType DEF TypeInv
  <2> QED
    BY <1>a, <2>1, AppendProperties DEF Push
<1>1. StoreType'
  BY <1>a, RefType DEF TypeInv, TypeOK, TakeBlock
<1>2. TableType'
  BY <1>b, SequenceType DEF TypeInv, TypeOK, TableType, MatchTake, Owners
<1>3. RunType'
  BY DEF TypeInv, TypeOK, RunType, MatchTake, vars, storeVars, tableVars,
     runVars, lifeVars, Goto, Owners
<1>4. Progress'
  <2>1. Len(blocks[s]) + 1 <= Matchable(s)
    <3>1. Len(tokens[s]) > 0 /\ Len(tokens[s]) \in Nat /\ Len(blocks[s]) \in Nat
      BY SequenceType DEF TypeInv, Progress, ProgressOf, MatchTake
    <3>2. Len(tokens[s]) - 1 \in Nat
      BY <3>1
    <3>3. Matchable(s) \in Nat
      BY <3>2, DivBounds, KvPoolConstants DEF Matchable
    <3> QED
      BY <3>1, <3>3 DEF MatchTake
  <2> QED
    BY <1>b, <2>1 DEF TypeInv, TypeOK, TableType, RunType, Progress, ProgressOf, MatchTake,
       Executing, Undoable, TailIndex, Frontier, Matchable, CompletedBlocks, runVars, lifeVars,
       Owners
<1>5. Lending'
  BY DEF TypeInv, Lending, MatchTake
<1> QED
  BY <1>1, <1>2, <1>3, <1>4, <1>5 DEF TypeInv, TypeOK

LEMMA MatchEndType ==
  ASSUME TypeInv, NEW s \in Seqs, MatchEnd(s)
  PROVE  TypeInv'
<1>a. HashAt(tokens[s], Len(blocks[s])) \in Seq(Token)
  <2>1. /\ Len(tokens[s]) > 0 /\ Len(tokens[s]) \in Nat /\ Len(blocks[s]) \in Nat
        /\ Len(blocks[s]) <= Matchable(s)
    BY SequenceType DEF TypeInv, Progress, ProgressOf, MatchEnd
  <2>2. Len(tokens[s]) - 1 \in Nat /\ Len(tokens[s]) - 1 <= Len(tokens[s])
    BY <2>1
  <2>3. /\ Matchable(s) \in Nat /\ Len(tokens[s]) \div BlockSize \in Nat
        /\ Matchable(s) <= Len(tokens[s]) \div BlockSize
    BY <2>1, <2>2, DivBounds, DivMonotone, KvPoolConstants DEF Matchable
  <2>4. Len(blocks[s]) <= Len(tokens[s]) \div BlockSize
    BY <2>1, <2>3
  <2> QED
    BY <2>1, <2>4, SequenceType, HashAtType DEF TypeInv
<1>1. StoreType'
  BY DEF TypeInv, TypeOK, StoreType, MatchEnd, storeVars
<1>2. TableType'
  BY <1>a DEF TypeInv, TypeOK, TableType, MatchEnd, SeqPcs, Goto, Owners
<1>3. RunType'
  BY DEF TypeInv, TypeOK, RunType, MatchEnd, vars, storeVars, tableVars,
     runVars, lifeVars, Goto, Owners
<1>4. Progress'
  <2> SUFFICES ASSUME NEW q \in Seqs PROVE ProgressOf(q)'
    BY DEF Progress
  <2>1. CASE q # s
    BY <2>1, ProgressFrame DEF TypeInv, TypeOK, TableType, RunType,
       Progress, MatchEnd, Owners, Goto, tableVars, runVars, lifeVars, Unused
  <2>2. CASE q = s
    BY <2>2, ProgressAtRest DEF TypeInv, TypeOK, TableType, RunType,
       Progress, ProgressOf, MatchEnd, Executing, Owners, Goto, tableVars, runVars, lifeVars, Unused
  <2> QED
    BY <2>1, <2>2
<1>5. Lending'
  BY KvPoolConstants DEF TypeInv, TypeOK, TableType, Lending, MatchEnd,
     Unused, vars, storeVars, tableVars, runVars, lifeVars, Goto, Owners
<1> QED
  BY <1>1, <1>2, <1>3, <1>4, <1>5 DEF TypeInv, TypeOK

LEMMA ExecBeginType ==
  ASSUME TypeInv, NEW s \in Seqs, NEW t \in Seq(Token), ExecBegin(s, t)
  PROVE  TypeInv'
<1>1. StoreType'
  BY DEF TypeInv, TypeOK, StoreType, ExecBegin, storeVars, TailShared, HasTail
<1>2. TableType'
  BY DEF TypeInv, TypeOK, TableType, ExecBegin, SeqPcs, Unused, vars,
     storeVars, tableVars, runVars, lifeVars, Goto, Owners, TailShared,
     HasTail
<1>3. RunType'
  BY DEF TypeInv, TypeOK, TableType, RunType, ExecBegin, lifeVars, Owners
<1>4. Progress'
  <2> SUFFICES ASSUME NEW q \in Seqs PROVE ProgressOf(q)'
    BY DEF Progress
  <2>1. CASE q # s
    BY <2>1, ProgressFrame DEF TypeInv, TypeOK, TableType, RunType, Progress,
       ExecBegin, Owners, Goto, tableVars, runVars, lifeVars
  <2>2. CASE q = s
    <3>1. /\ before'[s] = blocks[s] /\ blocks' = blocks /\ head' = head
          /\ tail'[s] = tail[s] /\ dropping'[s] = dropping[s] /\ hist' = hist
          /\ pc[s] = "idle" /\ pc'[s] \in {"retain", "prepare"}
          /\ pc'[s] = "retain" => TailIndex(s) <= Len(blocks[s])
      BY DEF TypeInv, TypeOK, TableType, RunType, ExecBegin, Goto, Owners,
         tableVars, TailShared, HasTail
    <3>2. TailIndex(s)' = TailIndex(s)
      BY <3>1 DEF TailIndex
    <3>3. head[s] <= Len(blocks[s]) /\ Len(blocks[s]) \in Nat
      BY SequenceType DEF TypeInv
    <3> QED
      BY <2>2, <3>1, <3>2, <3>3
         DEF TypeInv, Progress, ProgressOf, Executing, Undoable
  <2> QED
    BY <2>1, <2>2
<1>5. Lending'
  BY KvPoolConstants DEF TypeInv, TypeOK, TableType, Lending, ExecBegin,
     Unused, vars, storeVars, tableVars, runVars, lifeVars, Goto, Owners,
     TailShared, HasTail
<1> QED
  BY <1>1, <1>2, <1>3, <1>4, <1>5 DEF TypeInv, TypeOK

LEMMA RetainTailType ==
  ASSUME TypeInv, NEW s \in Seqs, RetainTail(s)
  PROVE  TypeInv'
<1> DEFINE b == blocks[s][TailIndex(s)]
<1>0. TailIndex(s) \in Nat \ {0}
  BY SequenceType DEF TypeInv
<1>1. b \in Blocks
  <2>1. TailIndex(s) <= Len(before[s]) /\ Len(before[s]) <= Len(blocks[s])
    BY DEF TypeInv, Progress, ProgressOf, RetainTail, Undoable, Executing
  <2>2. blocks[s] \in Seq(Blocks) /\ before[s] \in Seq(Blocks)
    BY DEF TypeInv, TypeOK, TableType, RunType, Owners
  <2> QED
    BY <1>0, <2>1, <2>2
<1>2. StoreType'
  BY <1>1, RefType DEF TypeInv, TypeOK, RetainTail
<1>3. TableType' /\ RunType'
  BY <1>1 DEF TypeInv, TypeOK, TableType, RunType, RetainTail, Goto, SeqPcs, tableVars, lifeVars
<1>4. Progress'
  BY <1>1, KvPoolConstants DEF TypeInv, TypeOK, TableType, RunType, Progress, ProgressOf, RetainTail, Goto, SeqPcs, tableVars, lifeVars, Executing, Undoable, TailIndex, Frontier, Matchable, CompletedBlocks, Matchable, Owners
<1>5. Lending'
  BY DEF TypeInv, TypeOK, TableType, Lending, RetainTail, Goto, tableVars, lifeVars, Owners
<1> QED
  BY <1>2, <1>3, <1>4, <1>5 DEF TypeInv, TypeOK

LEMMA PrepareType ==
  ASSUME TypeInv, NEW s \in Seqs, Prepare(s)
  PROVE  TypeInv'
<1>2. StoreType'
  BY DEF TypeInv, TypeOK, StoreType, Prepare, storeVars
<1>3. TableType' /\ RunType'
  BY DEF TypeInv, TypeOK, TableType, RunType, Prepare, Goto, SeqPcs, tableVars, lifeVars, runVars
<1>4. Progress'
  <2> SUFFICES ASSUME NEW q \in Seqs PROVE ProgressOf(q)'
    BY DEF Progress
  <2>1. CASE q # s
    BY <2>1, ProgressFrame DEF TypeInv, TypeOK, TableType, RunType, Progress,
       Prepare, Owners, Goto, tableVars, runVars, lifeVars
  <2>2. CASE q = s
    <3>1. TailIndex(s)' = TailIndex(s)
      BY DEF Prepare, tableVars, TailIndex
    <3>2. TailShared(s) => TailIndex(s) <= Len(blocks[s])
      BY DEF TailShared, HasTail
    <3> QED
      BY <2>2, <3>1, <3>2 DEF TypeInv, TypeOK, TableType, Progress, ProgressOf,
         Prepare, Executing, Undoable, Goto, Owners, tableVars, runVars
  <2> QED
    BY <2>1, <2>2
<1>5. Lending'
  BY DEF TypeInv, TypeOK, TableType, Lending, Prepare, Goto, tableVars, lifeVars, Owners
<1> QED
  BY <1>2, <1>3, <1>4, <1>5 DEF TypeInv, TypeOK

LEMMA CopyTailType ==
  ASSUME TypeInv, NEW s \in Seqs, CopyTail(s)
  PROVE  TypeInv'
<1>a. /\ TailIndex(s) \in 1 .. Len(blocks[s])
      /\ blocks[s][TailIndex(s)] \in Blocks
  <2>1. TailIndex(s) <= Len(blocks[s])
    BY DEF TypeInv, Progress, ProgressOf, CopyTail
  <2>2. TailIndex(s) \in Nat \ {0} /\ blocks[s] \in Seq(Blocks)
    BY SequenceType DEF TypeInv
  <2> QED
    BY <2>1, <2>2
<1>b. \/ \E b \in Blocks :
           /\ AllocBlock(b)
           /\ content' = [content EXCEPT ![b] = content[blocks[s][TailIndex(s)]]]
           /\ blocks' = [blocks EXCEPT ![s] =
                           [blocks[s] EXCEPT ![TailIndex(s)] = b]]
           /\ dropping' = [dropping EXCEPT ![s] = blocks[s][TailIndex(s)]]
           /\ pc' = [pc EXCEPT ![s] = "copied"]
      \/ /\ AllocExhausted /\ UNCHANGED <<content, blocks, dropping>>
         /\ pc' = [pc EXCEPT ![s] = "rollback"]
  BY DEF CopyTail, Goto
<1>c. /\ blocks' \in [Owners -> Seq(Blocks)]
      /\ \A o \in Owners : Len(blocks'[o]) = Len(blocks[o])
  <2>1. CASE UNCHANGED blocks
    BY <2>1 DEF TypeInv, TypeOK, TableType
  <2>2. ASSUME NEW b \in Blocks,
               blocks' = [blocks EXCEPT ![s] =
                            [blocks[s] EXCEPT ![TailIndex(s)] = b]]
        PROVE  <1>c!1 /\ <1>c!2
    <3>1. /\ [blocks[s] EXCEPT ![TailIndex(s)] = b] \in Seq(Blocks)
          /\ Len([blocks[s] EXCEPT ![TailIndex(s)] = b]) = Len(blocks[s])
      BY <1>a, SequenceType, ReplaceEntry DEF TypeInv
    <3> QED
      BY <2>2, <3>1 DEF TypeInv, TypeOK, TableType
  <2> QED
    BY <1>b, <2>1, <2>2
<1>1. StoreType'
  BY <1>b, AllocType, ExhaustedType DEF TypeInv, TypeOK
<1>2. TableType'
  BY <1>b, <1>c DEF TypeInv, TypeOK, TableType, CopyTail, SeqPcs, Owners
<1>3. RunType'
  BY <1>a, <1>b DEF TypeInv, TypeOK, RunType, CopyTail, lifeVars
<1>4. Progress'
  <2> SUFFICES ASSUME NEW q \in Seqs PROVE ProgressOf(q)'
    BY DEF Progress
  <2>1. CASE q # s
    BY <2>1, <1>b, ProgressFrame DEF TypeInv, TypeOK, TableType, RunType, Progress,
       CopyTail, Owners, Goto, tableVars, runVars, lifeVars
  <2>2. CASE q = s
    <3>1. TailIndex(s)' = TailIndex(s)
      BY DEF CopyTail, TailIndex
    <3>2. Len(blocks'[s]) = Len(blocks[s]) /\ pc[s] = "copy"
      BY <1>c, SequenceType DEF TypeInv, CopyTail
    <3> QED
      BY <1>a, <1>b, <2>2, <3>1, <3>2, KvPoolConstants
         DEF TypeInv, TypeOK, TableType, RunType, Progress, ProgressOf, CopyTail,
         Executing, Undoable, Owners
  <2> QED
    BY <2>1, <2>2
<1>5. Lending'
  <2>1. /\ pc \in [Owners -> SeqPcs] /\ s \in Owners /\ source' = source /\ Lending
        /\ pc[s] = "copy"
    BY DEF TypeInv, TypeOK, TableType, CopyTail, Owners
  <2>2. /\ pc'[s] \in {"copied", "rollback"}
        /\ \A o \in Owners : o # s => pc'[o] = pc[o]
    BY <1>b, <2>1
  <2> QED
    BY <2>1, <2>2 DEF Lending, Owners
<1> QED
  BY <1>1, <1>2, <1>3, <1>4, <1>5 DEF TypeInv, TypeOK

LEMMA DropReplacedType ==
  ASSUME TypeInv, NEW s \in Seqs, DropReplaced(s)
  PROVE  TypeInv'
<1>a. dropping[s] \in Blocks
  BY DEF TypeInv, TypeOK, RunType, Progress, ProgressOf, DropReplaced
<1>1. StoreType'
  BY <1>a, UnrefType DEF TypeInv, TypeOK, DropReplaced
<1>2. TableType'
  BY DEF TypeInv, TypeOK, TableType, DropReplaced, SeqPcs, Unused, vars,
     storeVars, tableVars, runVars, lifeVars, Goto, Owners
<1>3. RunType'
  BY DEF TypeInv, TypeOK, RunType, DropReplaced, vars, storeVars, tableVars,
     runVars, lifeVars, Goto, Owners
<1>4. Progress'
  <2> SUFFICES ASSUME NEW q \in Seqs PROVE ProgressOf(q)'
    BY DEF Progress
  <2>1. CASE q # s
    BY <2>1, ProgressFrame DEF TypeInv, TypeOK, TableType, RunType, Progress,
       DropReplaced, Owners, Goto, tableVars, runVars, lifeVars
  <2>2. CASE q = s
    <3>1. /\ TailIndex(s)' = TailIndex(s) /\ pc[s] \in {"copied", "restored"}
          /\ pc'[s] \in {"alloc", "rollback"} /\ dropping'[s] = NoBlock
          /\ UNCHANGED <<head, blocks, before, tail>>
      BY DEF TypeInv, TypeOK, TableType, RunType, DropReplaced, Goto, Owners,
         TailIndex, tableVars
    <3> QED
      BY <2>2, <3>1 DEF TypeInv, Progress, ProgressOf, Executing, Undoable
  <2> QED
    BY <2>1, <2>2
<1>5. Lending'
  BY KvPoolConstants DEF TypeInv, TypeOK, TableType, Lending, DropReplaced,
     Unused, vars, storeVars, tableVars, runVars, lifeVars, Goto, Owners
<1> QED
  BY <1>1, <1>2, <1>3, <1>4, <1>5 DEF TypeInv, TypeOK

LEMMA AllocNextType ==
  ASSUME TypeInv, NEW s \in Seqs, AllocNext(s)
  PROVE  TypeInv'
<1>b. \/ \E b \in Blocks :
           /\ AllocBlock(b) /\ UNCHANGED pc
           /\ blocks' = [blocks EXCEPT ![s] = Append(blocks[s], b)]
      \/ /\ AllocExhausted /\ UNCHANGED blocks
         /\ pc' = [pc EXCEPT ![s] = "rollback"]
  BY DEF AllocNext, Goto, Push
<1>c. /\ blocks' \in [Owners -> Seq(Blocks)]
      /\ \A o \in Owners : Len(blocks'[o]) >= Len(blocks[o])
  <2>1. CASE UNCHANGED blocks
    BY <2>1 DEF TypeInv, TypeOK, TableType
  <2>2. ASSUME NEW b \in Blocks,
               blocks' = [blocks EXCEPT ![s] = Append(blocks[s], b)]
        PROVE  <1>c!1 /\ <1>c!2
    <3>1. blocks[s] \in Seq(Blocks) /\ Len(blocks[s]) \in Nat
      BY SequenceType DEF TypeInv
    <3>2. /\ Append(blocks[s], b) \in Seq(Blocks)
          /\ Len(Append(blocks[s], b)) = Len(blocks[s]) + 1
      BY <3>1, AppendProperties
    <3>3. \A o \in Owners : Len(blocks[o]) \in Nat
      BY DEF TypeInv, TypeOK, TableType
    <3>4. /\ blocks'[s] = Append(blocks[s], b)
          /\ \A o \in Owners \ {s} : blocks'[o] = blocks[o]
          /\ blocks' \in [Owners -> Seq(Blocks)]
      BY <2>2, <3>2, SequenceType DEF TypeInv, TypeOK, TableType
    <3>5. ASSUME NEW o \in Owners PROVE Len(blocks'[o]) >= Len(blocks[o])
      BY <3>1, <3>2, <3>3, <3>4
    <3> QED
      BY <3>4, <3>5
  <2> QED
    BY <1>b, <2>1, <2>2
<1>1. StoreType'
  BY <1>b, AllocType, ExhaustedType DEF TypeInv, TypeOK
<1>2. TableType'
  BY <1>b, <1>c DEF TypeInv, TypeOK, TableType, AllocNext, SeqPcs, Owners
<1>3. RunType'
  BY DEF TypeInv, TypeOK, RunType, AllocNext, vars, storeVars, tableVars,
     runVars, lifeVars, Goto, Owners
<1>4. Progress'
  <2> SUFFICES ASSUME NEW q \in Seqs PROVE ProgressOf(q)'
    BY DEF Progress
  <2>1. CASE q # s
    BY <2>1, <1>b, ProgressFrame DEF TypeInv, TypeOK, TableType, RunType, Progress,
       AllocNext, Owners, Goto, tableVars, runVars, lifeVars
  <2>2. CASE q = s
    <3>1. TailIndex(s)' = TailIndex(s) /\ pc[s] = "alloc"
      BY DEF AllocNext, TailIndex
    <3>2. /\ Len(blocks'[s]) >= Len(blocks[s]) /\ Len(blocks[s]) \in Nat
          /\ Len(blocks'[s]) \in Nat /\ Len(before[s]) \in Nat
      <4>1. blocks'[s] \in Seq(Blocks) /\ Len(blocks'[s]) >= Len(blocks[s])
        BY <1>c, SequenceType DEF TypeInv
      <4>2. Len(blocks'[s]) \in Nat
        BY <4>1
      <4> QED
        BY <4>1, <4>2, SequenceType DEF TypeInv
    <3>3. pc'[s] \in {"alloc", "rollback"}
      BY <1>b, <3>1 DEF TypeInv, TypeOK, TableType, Owners
    <3>4. /\ head'[s] = head[s] /\ before'[s] = before[s] /\ tail'[s] = tail[s]
          /\ dropping'[s] = dropping[s]
      BY DEF AllocNext, runVars
    <3>5. Len(before[s]) <= Len(blocks'[s]) /\ head[s] <= Len(before[s])
      BY <3>1, <3>2 DEF TypeInv, Progress, ProgressOf, Executing, Undoable
    <3> QED
      BY <2>2, <3>1, <3>3, <3>4, <3>5
         DEF TypeInv, Progress, ProgressOf, Executing, Undoable
  <2> QED
    BY <2>1, <2>2
<1>5. Lending'
  BY <1>b DEF TypeInv, TypeOK, TableType, Lending, AllocNext, Owners
<1> QED
  BY <1>1, <1>2, <1>3, <1>4, <1>5 DEF TypeInv, TypeOK

LEMMA WriteRowsType ==
  ASSUME TypeInv, NEW s \in Seqs, WriteRows(s)
  PROVE  TypeInv'
<1>a. content' \in [Blocks -> Seq(Token)]
  <2> DEFINE all == hist[s] \o tokens[s]
             written == TailIndex(s) .. BlocksFor(Frontier(s))
             rows(b) == LET i == CHOOSE i \in written : blocks[s][i] = b
                        IN  SubSeq(all, 1, Smaller(Len(all), i * BlockSize))
  <2>1. content' = [b \in Blocks |-> IF \E i \in written : blocks[s][i] = b
                                     THEN rows(b) ELSE content[b]]
    BY DEF WriteRows
  <2>2. ASSUME NEW b \in Blocks, \E i \in written : blocks[s][i] = b
        PROVE  rows(b) \in Seq(Token)
    <3>1. PICK i : i \in written
                   /\ rows(b) = SubSeq(all, 1, Smaller(Len(all), i * BlockSize))
      BY <2>2
    <3>2. /\ TailIndex(s) \in Nat \ {0} /\ BlocksFor(Frontier(s)) \in Nat
          /\ all \in Seq(Token)
      BY SequenceType DEF TypeInv
    <3>3. i * BlockSize \in Nat /\ Len(all) \in Nat
      <4>1. i \in Nat /\ BlockSize \in Nat
        BY <3>1, <3>2, KvPoolConstants
      <4> HIDE DEF all
      <4> QED
        BY ONLY <4>1, <3>2
    <3>4. /\ Smaller(Len(all), i * BlockSize) \in Nat
          /\ Smaller(Len(all), i * BlockSize) <= Len(all)
      <4> HIDE DEF all
      <4> QED
        BY ONLY <3>3 DEF Smaller
    <3> HIDE DEF all
    <3> QED
      BY <3>1, <3>2, <3>4, PrefixOf
  <2> HIDE DEF written, rows
  <2> QED
    BY <2>1, <2>2 DEF TypeInv, TypeOK, RunType
<1>1. StoreType'
  BY DEF TypeInv, TypeOK, StoreType, WriteRows, storeVars
<1>2. TableType'
  BY DEF TypeInv, TypeOK, TableType, WriteRows, SeqPcs, Unused, vars,
     storeVars, tableVars, runVars, lifeVars, Goto, Owners
<1>3. RunType'
  BY <1>a DEF TypeInv, TypeOK, RunType, WriteRows, runVars, lifeVars
<1>4. Progress'
  <2>1. BlocksFor(Frontier(s)) <= Len(blocks[s])
    BY SequenceType DEF TypeInv, WriteRows
  <2> QED
    BY <2>1 DEF TypeInv, TypeOK, TableType, Progress, ProgressOf, WriteRows, Executing,
       Undoable, TailIndex, Frontier, Matchable, CompletedBlocks, Goto, tableVars, runVars, Owners
<1>5. Lending'
  BY KvPoolConstants DEF TypeInv, TypeOK, TableType, Lending, WriteRows,
     Unused, vars, storeVars, tableVars, runVars, lifeVars, Goto, Owners
<1> QED
  BY <1>1, <1>2, <1>3, <1>4, <1>5 DEF TypeInv, TypeOK

LEMMA FailType ==
  ASSUME TypeInv, NEW s \in Seqs, Fail(s)
  PROVE  TypeInv'
<1>1. StoreType'
  BY DEF TypeInv, TypeOK, StoreType, Fail, storeVars
<1>2. TableType'
  BY DEF TypeInv, TypeOK, TableType, Fail, SeqPcs, Unused, vars, storeVars,
     tableVars, runVars, lifeVars, Goto, Owners
<1>3. RunType'
  BY DEF TypeInv, TypeOK, RunType, Fail, vars, storeVars, tableVars, runVars,
     lifeVars, Goto, Owners
<1>4. Progress'
  BY KvPoolConstants DEF TypeInv, TypeOK, TableType, RunType, Progress,
     ProgressOf, Fail, Executing, Undoable, TailIndex, Frontier, Matchable, CompletedBlocks,
     Unused, vars, storeVars, tableVars, runVars, lifeVars, Goto, Owners
<1>5. Lending'
  BY KvPoolConstants DEF TypeInv, TypeOK, TableType, Lending, Fail, Unused,
     vars, storeVars, tableVars, runVars, lifeVars, Goto, Owners
<1> QED
  BY <1>1, <1>2, <1>3, <1>4, <1>5 DEF TypeInv, TypeOK

LEMMA CommitType ==
  ASSUME TypeInv, NEW s \in Seqs, Commit(s)
  PROVE  TypeInv'
<1>1. StoreType'
  BY DEF TypeInv, TypeOK, StoreType, Commit, storeVars
<1>2. TableType'
  BY DEF TypeInv, TypeOK, TableType, Commit, SeqPcs, Unused, vars, storeVars,
     tableVars, runVars, lifeVars, Goto, Owners
<1>3. RunType'
  BY DEF TypeInv, TypeOK, RunType, Commit, vars, storeVars, tableVars,
     runVars, lifeVars, Goto, Owners
<1>4. Progress'
  BY KvPoolConstants DEF TypeInv, TypeOK, TableType, RunType, Progress,
     ProgressOf, Commit, Executing, Undoable, TailIndex, Frontier, Matchable, CompletedBlocks,
     Unused, vars, storeVars, tableVars, runVars, lifeVars, Goto, Owners
<1>5. Lending'
  BY KvPoolConstants DEF TypeInv, TypeOK, TableType, Lending, Commit, Unused,
     vars, storeVars, tableVars, runVars, lifeVars, Goto, Owners
<1> QED
  BY <1>1, <1>2, <1>3, <1>4, <1>5 DEF TypeInv, TypeOK

LEMMA EvictType ==
  ASSUME TypeInv, NEW s \in Seqs, Evict(s)
  PROVE  TypeInv'
<1>a. /\ head[s] + 1 \in 1 .. Len(blocks[s])
      /\ blocks[s][head[s] + 1] \in Blocks
  <2>1. head[s] < Len(blocks[s]) /\ blocks[s] \in Seq(Blocks) /\ head[s] \in Nat
    BY SequenceType DEF TypeInv, Evict, CanEvict
  <2> QED
    BY <2>1
<1>1. StoreType'
  BY <1>a, UnrefType DEF TypeInv, TypeOK, Evict
<1>2. TableType'
  BY <1>a DEF TypeInv, TypeOK, TableType, Evict, Owners
<1>3. RunType'
  BY DEF TypeInv, TypeOK, RunType, Evict, vars, storeVars, tableVars, runVars,
     lifeVars, Goto, Owners
<1>4. Progress'
  BY KvPoolConstants DEF TypeInv, TypeOK, TableType, RunType, Progress,
     ProgressOf, Evict, Executing, Undoable, TailIndex, Frontier, Matchable, CompletedBlocks,
     Unused, vars, storeVars, tableVars, runVars, lifeVars, Goto, Owners
<1>5. Lending'
  BY KvPoolConstants DEF TypeInv, TypeOK, TableType, Lending, Evict, Unused,
     vars, storeVars, tableVars, runVars, lifeVars, Goto, Owners
<1> QED
  BY <1>1, <1>2, <1>3, <1>4, <1>5 DEF TypeInv, TypeOK

LEMMA CommitEndType ==
  ASSUME TypeInv, NEW s \in Seqs, CommitEnd(s)
  PROVE  TypeInv'
<1>a. tail[s] # NoBlock => tail[s] \in Blocks
  BY DEF TypeInv, TypeOK, RunType
<1>b. Len(hist[s]) \div BlockSize \in Nat
  BY SequenceType, DivBounds, KvPoolConstants DEF TypeInv
<1>c. tail[s] # NoBlock => UnrefBlock(tail[s])
  BY DEF CommitEnd
<1>d. tail[s] = NoBlock => UNCHANGED storeVars
  BY DEF CommitEnd
<1>1. StoreType'
  <2>1. CASE tail[s] = NoBlock
    BY <1>d, <2>1 DEF TypeInv, TypeOK, StoreType, storeVars
  <2>2. CASE tail[s] # NoBlock
    BY <1>a, <1>c, <2>2, UnrefType DEF TypeInv, TypeOK
  <2> QED
    BY <2>1, <2>2
<1>2. TableType'
  BY DEF TypeInv, TypeOK, TableType, CommitEnd, SeqPcs, Unused, vars,
     storeVars, tableVars, runVars, lifeVars, Goto, Owners
<1>3. RunType'
  BY <1>b DEF TypeInv, TypeOK, RunType, CommitEnd, tableVars, lifeVars
<1>4. Progress'
  <2> SUFFICES ASSUME NEW q \in Seqs PROVE ProgressOf(q)'
    BY DEF Progress
  <2>1. CASE q # s
    BY <2>1, ProgressFrame DEF TypeInv, TypeOK, TableType, RunType, Progress,
       CommitEnd, Owners, Goto, tableVars, runVars, lifeVars
  <2>2. CASE q = s
    <3>1. /\ pc[s] = "evict" /\ pc'[s] = "note"
          /\ tail'[s] = NoBlock /\ dropping'[s] = NoBlock
          /\ noted'[s] = Len(hist[s]) \div BlockSize
          /\ UNCHANGED <<head, blocks, hist, tokens>>
      BY DEF TypeInv, TypeOK, TableType, RunType, Progress, ProgressOf, CommitEnd,
         Goto, Owners, tableVars
    <3>2. Len(hist[s]) \div BlockSize <= CompletedBlocks(s)
      BY SequenceType, DivMonotone, KvPoolConstants DEF TypeInv, CompletedBlocks
    <3>3. /\ CompletedBlocks(s)' = CompletedBlocks(s)
          /\ BlocksFor(Frontier(s))' = BlocksFor(Frontier(s))
      BY <3>1 DEF CompletedBlocks, BlocksFor, Frontier
    <3> QED
      BY <2>2, <3>1, <3>2, <3>3
         DEF TypeInv, Progress, ProgressOf, Executing, Undoable
  <2> QED
    BY <2>1, <2>2
<1>5. Lending'
  BY KvPoolConstants DEF TypeInv, TypeOK, TableType, Lending, CommitEnd,
     Unused, vars, storeVars, tableVars, runVars, lifeVars, Goto, Owners
<1> QED
  BY <1>1, <1>2, <1>3, <1>4, <1>5 DEF TypeInv, TypeOK

LEMMA NoteType ==
  ASSUME TypeInv, NEW s \in Seqs, Note(s)
  PROVE  TypeInv'
<1>a. /\ noted[s] + 1 \in Nat
      /\ noted[s] + 1 <= CompletedBlocks(s)
  <2>1. noted[s] \in Nat /\ noted[s] < CompletedBlocks(s)
    BY DEF TypeInv, TypeOK, RunType, Note
  <2>2. CompletedBlocks(s) \in Nat
    BY SequenceType DEF TypeInv
  <2> QED
    BY <2>1, <2>2
<1>b. blocks[s][noted[s] + 1] \in Blocks
  <2>1. CompletedBlocks(s) <= BlocksFor(Frontier(s))
    BY SequenceType, CompletedFit DEF TypeInv, CompletedBlocks
  <2>2. BlocksFor(Frontier(s)) <= Len(blocks[s])
    BY DEF TypeInv, Progress, ProgressOf, Note
  <2>3. /\ CompletedBlocks(s) \in Nat /\ BlocksFor(Frontier(s)) \in Nat
        /\ blocks[s] \in Seq(Blocks)
    BY SequenceType DEF TypeInv
  <2>4. noted[s] \in Nat
    BY DEF TypeInv, TypeOK, RunType
  <2>5. noted[s] + 1 \in 1 .. Len(blocks[s])
    BY <1>a, <2>1, <2>2, <2>3, <2>4
  <2> QED
    BY <2>3, <2>5
<1>c. HashAt(hist[s] \o tokens[s], noted[s] + 1) \in Seq(Token)
  BY <1>a, SequenceType, HashAtType DEF TypeInv, CompletedBlocks
<1>1. StoreType'
  BY <1>b, <1>c, SetHashType DEF TypeInv, TypeOK, Note
<1>2. TableType'
  BY DEF TypeInv, TypeOK, TableType, Note, SeqPcs, Unused, vars, storeVars,
     tableVars, runVars, lifeVars, Goto, Owners
<1>3. RunType'
  BY <1>a DEF TypeInv, TypeOK, RunType, Note, lifeVars
<1>4. Progress'
  <2> SUFFICES ASSUME NEW q \in Seqs PROVE ProgressOf(q)'
    BY DEF Progress
  <2>1. CASE q # s
    BY <2>1, ProgressFrame DEF TypeInv, TypeOK, TableType, RunType, Progress,
       Note, Owners, Goto, tableVars, runVars, lifeVars
  <2>2. CASE q = s
    <3>1. /\ pc[s] = "note" /\ noted'[s] = noted[s] + 1
          /\ UNCHANGED <<pc, head, blocks, hist, tokens, before, tail, dropping>>
      BY DEF TypeInv, TypeOK, RunType, Note, tableVars
    <3>2. /\ CompletedBlocks(s)' = CompletedBlocks(s)
          /\ BlocksFor(Frontier(s))' = BlocksFor(Frontier(s))
      BY <3>1 DEF CompletedBlocks, BlocksFor, Frontier
    <3> QED
      BY <1>a, <2>2, <3>1, <3>2
         DEF TypeInv, Progress, ProgressOf, Executing, Undoable
  <2> QED
    BY <2>1, <2>2
<1>5. Lending'
  BY KvPoolConstants DEF TypeInv, TypeOK, TableType, Lending, Note, Unused,
     vars, storeVars, tableVars, runVars, lifeVars, Goto, Owners
<1> QED
  BY <1>1, <1>2, <1>3, <1>4, <1>5 DEF TypeInv, TypeOK

LEMMA NoteEndType ==
  ASSUME TypeInv, NEW s \in Seqs, NoteEnd(s)
  PROVE  TypeInv'
<1>a. /\ hist' = [hist EXCEPT ![s] = hist[s] \o tokens[s]]
      /\ hist[s] \o tokens[s] \in Seq(Token)
  BY SequenceType DEF TypeInv, AdvanceCursor, NoteEnd
<1>1. StoreType'
  BY DEF TypeInv, TypeOK, StoreType, NoteEnd, storeVars, AdvanceCursor
<1>2. TableType'
  BY <1>a DEF TypeInv, TypeOK, TableType, NoteEnd, AdvanceCursor, SeqPcs, Goto, Owners
<1>3. RunType'
  BY DEF TypeInv, TypeOK, RunType, NoteEnd, vars, storeVars, tableVars,
     runVars, lifeVars, Goto, Owners, AdvanceCursor
<1>4. Progress'
  BY <1>a, KvPoolConstants DEF TypeInv, TypeOK, TableType, RunType, Progress, ProgressOf, NoteEnd,
     AdvanceCursor, Executing, Undoable, TailIndex, Frontier, Matchable, CompletedBlocks, Goto,
     Owners
<1>5. Lending'
  BY KvPoolConstants DEF TypeInv, TypeOK, TableType, Lending, NoteEnd, Unused,
     vars, storeVars, tableVars, runVars, lifeVars, Goto, Owners,
     AdvanceCursor
<1> QED
  BY <1>1, <1>2, <1>3, <1>4, <1>5 DEF TypeInv, TypeOK

LEMMA NoteDeferredType ==
  ASSUME TypeInv, NEW s \in Seqs, NoteDeferred(s)
  PROVE  TypeInv'
<1>a. /\ hist' = [hist EXCEPT ![s] = hist[s] \o tokens[s]]
      /\ hist[s] \o tokens[s] \in Seq(Token)
  BY SequenceType DEF TypeInv, AdvanceCursor, NoteDeferred

<1>b. metadata' \in [Seqs -> Seq(Seq(Token) \X Blocks)]
  <2> DEFINE pair(i) == <<HashAt(hist[s] \o tokens[s], noted[s] + i),
                          blocks[s][noted[s] + i]>>
             more == [i \in 1 .. (CompletedBlocks(s) - noted[s]) |-> pair(i)]
  <2>0. /\ CompletedBlocks(s) \in Nat /\ BlocksFor(Frontier(s)) \in Nat
        /\ blocks[s] \in Seq(Blocks) /\ noted[s] \in Nat
        /\ CompletedBlocks(s) <= BlocksFor(Frontier(s))
        /\ BlocksFor(Frontier(s)) <= Len(blocks[s])
    BY SequenceType, CompletedFit
       DEF TypeInv, TypeOK, RunType, Progress, ProgressOf, NoteDeferred, CompletedBlocks
  <2>1. ASSUME NEW i \in 1 .. (CompletedBlocks(s) - noted[s])
        PROVE  pair(i) \in Seq(Token) \X Blocks
    <3>1. /\ noted[s] + i \in Nat /\ noted[s] + i <= CompletedBlocks(s)
          /\ noted[s] + i \in 1 .. Len(blocks[s])
      BY <2>0
    <3>2. blocks[s][noted[s] + i] \in Blocks
      BY <2>0, <3>1
    <3>3. HashAt(hist[s] \o tokens[s], noted[s] + i) \in Seq(Token)
      BY <3>1, SequenceType, HashAtType DEF TypeInv, CompletedBlocks
    <3> QED
      BY <3>2, <3>3
  <2>2. more \in Seq(Seq(Token) \X Blocks)
    <3> HIDE DEF pair
    <3>1. noted[s] <= CompletedBlocks(s)
      BY DEF TypeInv, Progress, ProgressOf, NoteDeferred
    <3>2. CompletedBlocks(s) - noted[s] \in Nat
      BY <2>0, <3>1
    <3> QED
      BY <2>1, <3>2, IsASeq
  <2>3. metadata' = [metadata EXCEPT ![s] = metadata[s] \o more]
    BY DEF NoteDeferred
  <2>4. metadata[s] \in Seq(Seq(Token) \X Blocks)
    BY DEF TypeInv, TypeOK, RunType
  <2> HIDE DEF more
  <2>5. metadata[s] \o more \in Seq(Seq(Token) \X Blocks)
    BY <2>2, <2>4, ConcatProperties
  <2> QED
    BY <2>3, <2>5 DEF TypeInv, TypeOK, RunType
<1>1. StoreType'
  BY DEF TypeInv, TypeOK, StoreType, NoteDeferred, storeVars, AdvanceCursor
<1>2. TableType'
  BY <1>a DEF TypeInv, TypeOK, TableType, NoteDeferred, AdvanceCursor, SeqPcs, Goto, Owners
<1>3. RunType'
  BY <1>b DEF TypeInv, TypeOK, RunType, NoteDeferred, AdvanceCursor, Goto, Owners
<1>4. Progress'
  BY <1>a, KvPoolConstants DEF TypeInv, TypeOK, TableType, RunType, Progress, ProgressOf, NoteDeferred,
     AdvanceCursor, Executing, Undoable, TailIndex, Frontier, Matchable, CompletedBlocks, Goto,
     Owners
<1>5. Lending'
  BY KvPoolConstants DEF TypeInv, TypeOK, TableType, Lending, NoteDeferred,
     Unused, vars, storeVars, tableVars, runVars, lifeVars, Goto, Owners,
     AdvanceCursor
<1> QED
  BY <1>1, <1>2, <1>3, <1>4, <1>5 DEF TypeInv, TypeOK

LEMMA PublishType ==
  ASSUME TypeInv, NEW s \in Seqs, Publish(s)
  PROVE  TypeInv'
<1>1. StoreType'
  BY InstallType DEF TypeInv, TypeOK, RunType, Publish
<1>2. TableType'
  BY DEF TypeInv, TypeOK, TableType, Publish, SeqPcs, Unused, vars, storeVars,
     tableVars, runVars, lifeVars, Goto, Owners
<1>3. RunType'
  BY DEF TypeInv, TypeOK, RunType, Publish, vars, storeVars, tableVars,
     runVars, lifeVars, Goto, Owners
<1>4. Progress'
  BY KvPoolConstants DEF TypeInv, TypeOK, TableType, RunType, Progress,
     ProgressOf, Publish, Executing, Undoable, TailIndex, Frontier, Matchable, CompletedBlocks,
     Unused, vars, storeVars, tableVars, runVars, lifeVars, Goto, Owners
<1>5. Lending'
  BY KvPoolConstants DEF TypeInv, TypeOK, TableType, Lending, Publish, Unused,
     vars, storeVars, tableVars, runVars, lifeVars, Goto, Owners
<1> QED
  BY <1>1, <1>2, <1>3, <1>4, <1>5 DEF TypeInv, TypeOK

LEMMA RollbackBlockType ==
  ASSUME TypeInv, NEW s \in Seqs, RollbackBlock(s)
  PROVE  TypeInv'
<1>0. /\ s \in Owners /\ blocks[s] \in Seq(Blocks) /\ before[s] \in Seq(Blocks)
      /\ head[s] \in Nat /\ head[s] <= Len(before[s])
      /\ Len(blocks[s]) > Len(before[s])
  BY SequenceType
     DEF TypeInv, Progress, ProgressOf, RollbackBlock, Undoable, Executing
<1>00. Len(blocks[s]) \in Nat /\ Len(before[s]) \in Nat
  BY <1>0
<1>a. /\ Len(blocks[s]) > 0
      /\ head[s] <= Len(blocks[s]) - 1 /\ Len(before[s]) <= Len(blocks[s]) - 1
  BY <1>0, <1>00
<1>b. /\ blocks' = [blocks EXCEPT ![s] = Front(blocks[s])]
      /\ Front(blocks[s]) \in Seq(Blocks)
      /\ Len(Front(blocks[s])) = Len(blocks[s]) - 1
      /\ Last(blocks[s]) \in Blocks
  BY <1>0, <1>a, PopTable DEF RollbackBlock, Pop
<1>1. StoreType'
  BY <1>b, UnrefType DEF TypeInv, TypeOK, RollbackBlock
<1>2. TableType'
  BY <1>0, <1>a, <1>b DEF TypeInv, TypeOK, TableType, RollbackBlock
<1>3. RunType'
  BY DEF TypeInv, TypeOK, RunType, RollbackBlock, vars, storeVars, tableVars,
     runVars, lifeVars, Goto, Owners
<1>4. Progress'
  BY <1>0, <1>a, <1>b DEF TypeInv, TypeOK, TableType, RunType, Progress, ProgressOf,
     RollbackBlock, Executing, Undoable, TailIndex, Frontier, Matchable, CompletedBlocks,
     runVars, Owners
<1>5. Lending'
  BY DEF TypeInv, Lending, RollbackBlock
<1> QED
  BY <1>1, <1>2, <1>3, <1>4, <1>5 DEF TypeInv, TypeOK

LEMMA RestoreTailType ==
  ASSUME TypeInv, NEW s \in Seqs, RestoreTail(s)
  PROVE  TypeInv'
<1>a. /\ tail[s] \in Blocks /\ TailIndex(s) <= Len(before[s])
      /\ Len(before[s]) = Len(blocks[s])
  BY DEF TypeInv, TypeOK, RunType, Progress, ProgressOf, RestoreTail, TailReplaced
<1>b. /\ TailIndex(s) \in 1 .. Len(blocks[s])
      /\ blocks[s] \in Seq(Blocks) /\ blocks[s][TailIndex(s)] \in Blocks
  <2>1. TailIndex(s) \in Nat \ {0} /\ blocks[s] \in Seq(Blocks)
    BY SequenceType DEF TypeInv
  <2> QED
    BY <1>a, <2>1
<1>c. /\ blocks' = [blocks EXCEPT ![s] = [blocks[s] EXCEPT ![TailIndex(s)] = tail[s]]]
      /\ [blocks[s] EXCEPT ![TailIndex(s)] = tail[s]] \in Seq(Blocks)
      /\ Len([blocks[s] EXCEPT ![TailIndex(s)] = tail[s]]) = Len(blocks[s])
  BY <1>a, <1>b, ReplaceEntry DEF RestoreTail
<1>1. StoreType'
  BY <1>a, RefType DEF TypeInv, TypeOK, RestoreTail
<1>2. TableType'
  BY <1>c DEF TypeInv, TypeOK, TableType, RestoreTail, SeqPcs, Goto, Owners
<1>3. RunType'
  BY <1>b DEF TypeInv, TypeOK, RunType, RestoreTail, lifeVars
<1>4. Progress'
  BY <1>b, <1>c, KvPoolConstants DEF TypeInv, TypeOK, TableType, RunType,
     Progress, ProgressOf, RestoreTail, Executing, Undoable, TailIndex, Frontier, Matchable, CompletedBlocks,
     Goto, Owners
<1>5. Lending'
  BY KvPoolConstants DEF TypeInv, TypeOK, TableType, Lending, RestoreTail,
     Unused, vars, storeVars, tableVars, runVars, lifeVars, Goto, Owners
<1> QED
  BY <1>1, <1>2, <1>3, <1>4, <1>5 DEF TypeInv, TypeOK

LEMMA RollbackEndType ==
  ASSUME TypeInv, NEW s \in Seqs, RollbackEnd(s)
  PROVE  TypeInv'
<1>a. tail[s] # NoBlock => tail[s] \in Blocks /\ UnrefBlock(tail[s])
  BY DEF TypeInv, TypeOK, RunType, RollbackEnd
<1>b. tail[s] = NoBlock => UNCHANGED storeVars
  BY DEF RollbackEnd
<1>1. StoreType'
  <2>1. CASE tail[s] = NoBlock
    BY <1>b, <2>1 DEF TypeInv, TypeOK, StoreType, storeVars
  <2>2. CASE tail[s] # NoBlock
    BY <1>a, <2>2, UnrefType DEF TypeInv, TypeOK
  <2> QED
    BY <2>1, <2>2
<1>2. TableType'
  BY DEF TypeInv, TypeOK, TableType, RollbackEnd, SeqPcs, Unused, vars,
     storeVars, tableVars, runVars, lifeVars, Goto, Owners
<1>3. RunType'
  BY DEF TypeInv, TypeOK, RunType, RollbackEnd, vars, storeVars, tableVars,
     runVars, lifeVars, Goto, Owners
<1>4. Progress'
  <2> SUFFICES ASSUME NEW q \in Seqs PROVE ProgressOf(q)'
    BY DEF Progress
  <2>1. CASE q # s
    BY <2>1, ProgressFrame DEF TypeInv, TypeOK, TableType, RunType,
       Progress, RollbackEnd, Owners, Goto, tableVars, runVars, lifeVars, Unused
  <2>2. CASE q = s
    BY <2>2, ProgressAtRest DEF TypeInv, TypeOK, TableType, RunType,
       Progress, ProgressOf, RollbackEnd, Executing, Owners, Goto, tableVars, runVars, lifeVars, Unused
  <2> QED
    BY <2>1, <2>2
<1>5. Lending'
  BY KvPoolConstants DEF TypeInv, TypeOK, TableType, Lending, RollbackEnd,
     Unused, vars, storeVars, tableVars, runVars, lifeVars, Goto, Owners
<1> QED
  BY <1>1, <1>2, <1>3, <1>4, <1>5 DEF TypeInv, TypeOK

LEMMA RequestReleaseType ==
  ASSUME TypeInv, NEW s \in Seqs, RequestRelease(s)
  PROVE  TypeInv'
<1>1. StoreType'
  BY DEF TypeInv, TypeOK, StoreType, RequestRelease, storeVars
<1>2. TableType'
  BY DEF TypeInv, TypeOK, TableType, RequestRelease, SeqPcs, Unused, vars,
     storeVars, tableVars, runVars, lifeVars, Goto, Owners
<1>3. RunType'
  BY DEF TypeInv, TypeOK, RunType, RequestRelease, vars, storeVars, tableVars,
     runVars, lifeVars, Goto, Owners
<1>4. Progress'
  BY ProgressFrame DEF TypeInv, Progress, RequestRelease, tableVars, runVars
<1>5. Lending'
  BY KvPoolConstants DEF TypeInv, TypeOK, TableType, Lending, RequestRelease,
     Unused, vars, storeVars, tableVars, runVars, lifeVars, Goto, Owners
<1> QED
  BY <1>1, <1>2, <1>3, <1>4, <1>5 DEF TypeInv, TypeOK

LEMMA ReturnBeginType ==
  ASSUME TypeInv, NEW s \in Seqs, ReturnBegin(s)
  PROVE  TypeInv'
<1>1. StoreType'
  BY DEF TypeInv, TypeOK, StoreType, ReturnBegin, storeVars
<1>2. TableType'
  BY DEF TypeInv, TypeOK, TableType, ReturnBegin, SeqPcs, Unused, vars,
     storeVars, tableVars, runVars, lifeVars, Goto, Owners
<1>3. RunType'
  BY DEF TypeInv, TypeOK, RunType, ReturnBegin, vars, storeVars, tableVars,
     runVars, lifeVars, Goto, Owners
<1>4. Progress'
  <2> SUFFICES ASSUME NEW q \in Seqs PROVE ProgressOf(q)'
    BY DEF Progress
  <2>1. CASE q # s
    BY <2>1, ProgressFrame DEF TypeInv, TypeOK, TableType, RunType,
       Progress, ReturnBegin, Owners, Goto, tableVars, runVars, lifeVars, Unused
  <2>2. CASE q = s
    BY <2>2, ProgressAtRest DEF TypeInv, TypeOK, TableType, RunType,
       Progress, ProgressOf, ReturnBegin, Executing, Owners, Goto, tableVars, runVars, lifeVars, Unused
  <2> QED
    BY <2>1, <2>2
<1>5. Lending'
  BY KvPoolConstants DEF TypeInv, TypeOK, TableType, Lending, ReturnBegin,
     Unused, vars, storeVars, tableVars, runVars, lifeVars, Goto, Owners
<1> QED
  BY <1>1, <1>2, <1>3, <1>4, <1>5 DEF TypeInv, TypeOK

LEMMA DropPrefixType ==
  ASSUME TypeInv, NEW p \in Handles, DropPrefix(p)
  PROVE  TypeInv'
<1>1. StoreType'
  BY DEF TypeInv, TypeOK, StoreType, DropPrefix, storeVars
<1>2. TableType'
  BY DEF TypeInv, TypeOK, TableType, DropPrefix, SeqPcs, Unused, vars,
     storeVars, tableVars, runVars, lifeVars, Goto, Owners
<1>3. RunType'
  BY DEF TypeInv, TypeOK, RunType, DropPrefix, vars, storeVars, tableVars,
     runVars, lifeVars, Goto, Owners
<1>4. Progress'
  BY ProgressFrame, KvPoolConstants DEF TypeInv, TypeOK, TableType, Progress,
     DropPrefix, Goto, Owners, tableVars, runVars
<1>5. Lending'
  BY KvPoolConstants DEF TypeInv, TypeOK, TableType, Lending, DropPrefix,
     Unused, vars, storeVars, tableVars, runVars, lifeVars, Goto, Owners
<1> QED
  BY <1>1, <1>2, <1>3, <1>4, <1>5 DEF TypeInv, TypeOK

LEMMA ReturnBlockType ==
  ASSUME TypeInv, NEW o \in Owners, ReturnBlock(o)
  PROVE  TypeInv'
<1>0. blocks[o] \in Seq(Blocks) /\ head[o] \in Nat /\ head[o] < Len(blocks[o])
  BY DEF TypeInv, TypeOK, TableType, ReturnBlock
<1>00. Len(blocks[o]) \in Nat
  BY <1>0
<1>a. Len(blocks[o]) > 0 /\ head[o] <= Len(blocks[o]) - 1
  BY <1>0, <1>00
<1>b. /\ blocks' = [blocks EXCEPT ![o] = Front(blocks[o])]
      /\ Front(blocks[o]) \in Seq(Blocks)
      /\ Len(Front(blocks[o])) = Len(blocks[o]) - 1
      /\ Last(blocks[o]) \in Blocks
  BY <1>0, <1>a, PopTable DEF ReturnBlock, Pop
<1>1. StoreType'
  BY <1>b, UnrefType DEF TypeInv, TypeOK, ReturnBlock
<1>2. TableType'
  BY <1>0, <1>a, <1>b DEF TypeInv, TypeOK, TableType, ReturnBlock
<1>3. RunType'
  BY DEF TypeInv, TypeOK, RunType, ReturnBlock, vars, storeVars, tableVars,
     runVars, lifeVars, Goto, Owners
<1>4. Progress'
  BY <1>b DEF TypeInv, TypeOK, TableType, RunType, Progress, ProgressOf, ReturnBlock,
     Executing, Undoable, TailIndex, Frontier, Matchable, CompletedBlocks, runVars, Owners
<1>5. Lending'
  BY DEF TypeInv, Lending, ReturnBlock
<1> QED
  BY <1>1, <1>2, <1>3, <1>4, <1>5 DEF TypeInv, TypeOK

LEMMA ReturnEndType ==
  ASSUME TypeInv, NEW o \in Owners, ReturnEnd(o)
  PROVE  TypeInv'
<1>1. StoreType'
  BY DEF TypeInv, TypeOK, StoreType, ReturnEnd, storeVars, ResetHead,
     DiscardMetadata
<1>2. TableType'
  <2>1. /\ blocks' = [blocks EXCEPT ![o] = <<>>]
        /\ head' = [head EXCEPT ![o] = 0]
        /\ hist' = [hist EXCEPT ![o] = <<>>]
        /\ pc' = [pc EXCEPT ![o] = Unused] /\ source' = source
    BY DEF ReturnEnd, Goto, ResetHead
  <2>2. \A q \in Owners : head'[q] <= Len(blocks'[q])
    BY <2>1 DEF TypeInv, TypeOK, TableType
  <2> QED
    BY <2>1, <2>2 DEF TypeInv, TypeOK, TableType, SeqPcs, Unused
<1>3. RunType'
  <2>1. metadata' \in [Seqs -> Seq(Seq(Token) \X Blocks)]
    BY DEF TypeInv, TypeOK, RunType, ReturnEnd, DiscardMetadata
  <2>2. deferring' \in [Seqs -> BOOLEAN]
    <3>1. \A x \in Seqs : (IF x = o THEN x \in SessionSeqs ELSE deferring[x]) \in BOOLEAN
      <4> TAKE x \in Seqs
      <4>1. (x \in SessionSeqs) \in BOOLEAN /\ deferring[x] \in BOOLEAN
        BY DEF TypeInv, TypeOK, RunType
      <4>2. CASE x = o
        BY <4>1, <4>2, Zenon
      <4>3. CASE x # o
        BY <4>1, <4>3, Zenon
      <4> QED
        BY <4>2, <4>3, Zenon
    <3> QED
      BY <3>1, Zenon DEF ReturnEnd
  <2>3. released' \in [Seqs -> BOOLEAN]
    BY Zenon DEF TypeInv, TypeOK, RunType, ReturnEnd
  <2> QED
    BY <2>1, <2>2, <2>3 DEF TypeInv, TypeOK, RunType, ReturnEnd, runVars
<1>4. Progress'
  <2>1. /\ pc' = [pc EXCEPT ![o] = Unused] /\ head' = [head EXCEPT ![o] = 0]
        /\ blocks' = [blocks EXCEPT ![o] = <<>>]
        /\ hist' = [hist EXCEPT ![o] = <<>>] /\ UNCHANGED runVars
        /\ pc[o] = "return"
    BY DEF ReturnEnd, Goto, ResetHead
  <2> SUFFICES ASSUME NEW q \in Seqs PROVE ProgressOf(q)'
    BY DEF Progress
  <2>2. CASE q # o
    BY <2>1, <2>2, ProgressFrame DEF TypeInv, TypeOK, TableType, Progress,
       Owners, runVars
  <2>3. CASE q = o
    BY <2>1, <2>3, ProgressAtRest DEF TypeInv, TypeOK, TableType, Progress,
       ProgressOf, Executing, Owners, runVars, Unused
  <2> QED
    BY <2>2, <2>3
<1>5. Lending'
  BY KvPoolConstants DEF TypeInv, TypeOK, TableType, Lending, ReturnEnd,
     Unused, vars, storeVars, tableVars, runVars, lifeVars, Goto, Owners,
     ResetHead, DiscardMetadata
<1> QED
  BY <1>1, <1>2, <1>3, <1>4, <1>5 DEF TypeInv, TypeOK

LEMMA SnapshotBeginType ==
  ASSUME TypeInv, NEW s \in Seqs, NEW p \in Handles, SnapshotBegin(s, p)
  PROVE  TypeInv'
<1>a. /\ s \in Owners /\ p \in Owners /\ s # p
      /\ head[s] \in Nat /\ head[s] <= Len(blocks[s])
      /\ blocks[s] \in Seq(Blocks)
  BY KvPoolConstants DEF TypeInv, TypeOK, TableType, Owners
<1>b. /\ blocks' = [blocks EXCEPT ![p] = SubSeq(blocks[s], 1, head[s])]
      /\ SubSeq(blocks[s], 1, head[s]) \in Seq(Blocks)
      /\ Len(SubSeq(blocks[s], 1, head[s])) = head[s]
      /\ head' = [head EXCEPT ![p] = head[s]]
      /\ source' = [source EXCEPT ![p] = s]
      /\ hist' = hist /\ UNCHANGED <<storeVars, content, runVars, lifeVars>>
  BY <1>a, PrefixOf DEF SnapshotBegin, CopyFrom
<1>c. /\ pc' = [pc EXCEPT ![s] = "lent", ![p] = "copying"]
      /\ pc[s] = "idle" /\ pc[p] = Unused
  BY DEF SnapshotBegin
<1>d. /\ pc'[s] = "lent" /\ pc'[p] = "copying"
      /\ \A o \in Owners \ {s, p} : pc'[o] = pc[o]
      /\ pc' \in [Owners -> SeqPcs]
  BY <1>a, <1>c DEF TypeInv, TypeOK, TableType, SeqPcs
<1>1. StoreType'
  BY <1>b DEF TypeInv, TypeOK, StoreType, storeVars
<1>2. TableType'
  <2>1. \A o \in Owners : head'[o] <= Len(blocks'[o])
    BY <1>a, <1>b DEF TypeInv, TypeOK, TableType
  <2> QED
    BY <1>a, <1>b, <1>d, <2>1 DEF TypeInv, TypeOK, TableType
<1>3. RunType'
  BY <1>b DEF TypeInv, TypeOK, RunType, runVars, lifeVars
<1>4. Progress'
  BY <1>a, <1>b, KvPoolConstants DEF TypeInv, TypeOK, TableType, RunType,
     Progress, ProgressOf, SnapshotBegin, Executing, Undoable, TailIndex, Frontier, Matchable, CompletedBlocks,
     Unused, Goto, runVars, lifeVars, Owners
<1>5. Lending'
  <2> SUFFICES ASSUME NEW o \in Owners, pc'[o] = "copying"
               PROVE  /\ source'[o] \in Owners \ {o}
                      /\ o \in Handles => source'[o] \in Seqs
                      /\ source'[o] \in Handles => pc'[source'[o]] = "idle"
                      /\ source'[o] \in Seqs =>
                           /\ pc'[source'[o]] = "lent"
                           /\ \A q \in Owners :
                                pc'[q] = "copying" /\ source'[q] = source'[o] => q = o
    BY DEF Lending
  <2>1. \A q \in Owners : pc[q] = "copying" => q # s /\ q # p /\ source[q] # s
    BY <1>c, KvPoolConstants DEF TypeInv, Lending, Unused
  <2>2. source'[p] = s /\ \A q \in Owners \ {p} : source'[q] = source[q]
    BY <1>a, <1>b DEF TypeInv, TypeOK, TableType
  <2>3. CASE o = p
    BY <1>a, <1>d, <2>1, <2>2, <2>3, KvPoolConstants
  <2>4. CASE o # p
    <3>1. pc[o] = "copying" /\ o # s /\ source'[o] = source[o] /\ source[o] # s
      BY <1>d, <2>1, <2>2, <2>4
    <3>2. source[o] # p
      BY <1>c, <3>1, KvPoolConstants DEF TypeInv, Lending, Unused
    <3> QED
      BY <1>d, <2>1, <2>2, <3>1, <3>2 DEF TypeInv, Lending
  <2> QED
    BY <2>3, <2>4
<1> QED
  BY <1>1, <1>2, <1>3, <1>4, <1>5 DEF TypeInv, TypeOK

LEMMA ForkBeginType ==
  ASSUME TypeInv, NEW p \in Handles, NEW s \in Seqs, ForkBegin(p, s)
  PROVE  TypeInv'
<1>a. /\ p \in Owners /\ s \in Owners /\ p # s
      /\ head[p] \in Nat /\ head[p] <= Len(blocks[p])
      /\ blocks[p] \in Seq(Blocks)
  BY KvPoolConstants DEF TypeInv, TypeOK, TableType, Owners
<1>b. /\ blocks' = [blocks EXCEPT ![s] = SubSeq(blocks[p], 1, head[p])]
      /\ SubSeq(blocks[p], 1, head[p]) \in Seq(Blocks)
      /\ Len(SubSeq(blocks[p], 1, head[p])) = head[p]
      /\ head' = [head EXCEPT ![s] = head[p]]
      /\ source' = [source EXCEPT ![s] = p]
      /\ hist' = hist /\ UNCHANGED <<storeVars, content, runVars, lifeVars>>
  BY <1>a, PrefixOf DEF ForkBegin, CopyFrom
<1>1. StoreType'
  BY <1>b DEF TypeInv, TypeOK, StoreType, storeVars
<1>2. TableType'
  BY <1>a, <1>b DEF TypeInv, TypeOK, TableType, ForkBegin, SeqPcs, Goto
<1>3. RunType'
  BY <1>b DEF TypeInv, TypeOK, RunType, runVars, lifeVars
<1>4. Progress'
  BY <1>a, <1>b, KvPoolConstants DEF TypeInv, TypeOK, TableType, RunType,
     Progress, ProgressOf, ForkBegin, Executing, Undoable, TailIndex, Frontier, Matchable, CompletedBlocks,
     Unused, Goto, runVars, lifeVars, Owners
<1>5. Lending'
  BY <1>a, <1>b, KvPoolConstants DEF TypeInv, TypeOK, TableType, Lending,
     ForkBegin, Unused, Goto, Owners
<1> QED
  BY <1>1, <1>2, <1>3, <1>4, <1>5 DEF TypeInv, TypeOK

LEMMA CopyRefType ==
  ASSUME TypeInv, NEW o \in Owners, CopyRef(o)
  PROVE  TypeInv'
<1> DEFINE from == blocks[source[o]]
           b == from[Len(blocks[o]) + 1]
<1>a. b \in Blocks
  <2>1. source[o] \in Owners
    BY DEF TypeInv, Lending, CopyRef
  <2>2. /\ from \in Seq(Blocks) /\ blocks[o] \in Seq(Blocks)
        /\ Len(blocks[o]) < Len(from)
    BY <2>1 DEF TypeInv, TypeOK, TableType, CopyRef
  <2>3. Len(from) \in Nat /\ Len(blocks[o]) \in Nat
    BY <2>2
  <2>4. Len(blocks[o]) + 1 \in 1 .. Len(from)
    BY <2>2, <2>3
  <2> QED
    BY <2>2, <2>4
<1> HIDE DEF b
<1>b. /\ blocks' = [blocks EXCEPT ![o] = Append(blocks[o], b)]
      /\ Append(blocks[o], b) \in Seq(Blocks)
      /\ Len(Append(blocks[o], b)) = Len(blocks[o]) + 1
  BY <1>a, AppendProperties DEF TypeInv, TypeOK, TableType, CopyRef, Push, b
<1>c. RefBlock(b)
  BY DEF CopyRef, b
<1>1. StoreType'
  BY <1>a, <1>c, RefType DEF TypeInv, TypeOK
<1>2. TableType'
  BY <1>b DEF TypeInv, TypeOK, TableType, CopyRef
<1>3. RunType'
  BY DEF TypeInv, TypeOK, RunType, CopyRef, vars, storeVars, tableVars,
     runVars, lifeVars, Goto, Owners
<1>4. Progress'
  BY <1>b DEF TypeInv, TypeOK, TableType, RunType, Progress, ProgressOf, CopyRef, Executing,
     Undoable, TailIndex, Frontier, Matchable, CompletedBlocks, runVars, Owners
<1>5. Lending'
  BY DEF TypeInv, Lending, CopyRef
<1> QED
  BY <1>1, <1>2, <1>3, <1>4, <1>5 DEF TypeInv, TypeOK

LEMMA CopyEndType ==
  ASSUME TypeInv, NEW o \in Owners, CopyEnd(o)
  PROVE  TypeInv'
<1>a. /\ source[o] \in Owners \ {o}
      /\ source[o] \in Handles => pc[source[o]] = "idle"
      /\ source[o] \in Seqs =>
           /\ pc[source[o]] = "lent"
           /\ \A q \in Owners : pc[q] = "copying" /\ source[q] = source[o] => q = o
      /\ pc[o] = "copying"
  BY DEF TypeInv, Lending, CopyEnd
<1>1. StoreType'
  BY DEF TypeInv, TypeOK, StoreType, CopyEnd, storeVars
<1>2. TableType'
  BY <1>a DEF TypeInv, TypeOK, TableType, CopyEnd, SeqPcs
<1>3. RunType'
  BY DEF TypeInv, TypeOK, RunType, CopyEnd, vars, storeVars, tableVars,
     runVars, lifeVars, Goto, Owners
<1>4. Progress'
  BY <1>a, KvPoolConstants DEF TypeInv, TypeOK, TableType, RunType, Progress, ProgressOf,
     CopyEnd, Executing, Undoable, TailIndex, Frontier, Matchable, CompletedBlocks, runVars, Owners
<1>5. Lending'
  BY <1>a, KvPoolConstants DEF TypeInv, TypeOK, TableType, Lending, CopyEnd, Owners
<1> QED
  BY <1>1, <1>2, <1>3, <1>4, <1>5 DEF TypeInv, TypeOK

-----------------------------------------------------------------------------
(* The invariant.                                                          *)

LEMMA TypeInit == Init => TypeInv
<1> SUFFICES ASSUME Init PROVE TypeInv
  OBVIOUS
<1>1. StoreType
  BY DEF Init, StoreType, NoHash
<1>2. TableType
  BY DEF Init, TableType, SeqPcs, Unused
<1>3. deferring \in [Seqs -> BOOLEAN] /\ released \in [Seqs -> BOOLEAN]
  <2>1. \A s \in Seqs : (s \in SessionSeqs) \in BOOLEAN
    OBVIOUS
  <2> QED
    BY <2>1, Zenon DEF Init
<1>4. RunType
  BY <1>3 DEF Init, RunType
<1>5. Progress
  BY DEF Init, Progress, ProgressOf, Executing, Undoable, Unused, Owners
<1>6. Lending
  BY DEF Init, Lending, Unused
<1> QED
  BY <1>1, <1>2, <1>4, <1>5, <1>6 DEF TypeInv, TypeOK

LEMMA TypeStep == TypeInv /\ [Next]_vars => TypeInv'
<1> SUFFICES ASSUME TypeInv, [Next]_vars PROVE TypeInv'
  OBVIOUS
<1>1. CASE UNCHANGED vars
  <2>1. UNCHANGED <<storeVars, content, pc, tableVars, runVars, lifeVars>>
    BY <1>1 DEF vars
  <2>2. StoreType' /\ TableType'
    BY <2>1 DEF TypeInv, TypeOK, StoreType, TableType, storeVars, tableVars
  <2>3. RunType'
    BY <2>1 DEF TypeInv, TypeOK, RunType, runVars, lifeVars
  <2>4. Progress'
    BY <2>1, ProgressFrame DEF TypeInv, Progress, tableVars, runVars
  <2>5. Lending'
    BY <2>1 DEF TypeInv, Lending, tableVars
  <2> QED
    BY <2>2, <2>3, <2>4, <2>5 DEF TypeInv, TypeOK
<1>2. CASE Client
  <2>1. ASSUME NEW s \in Seqs, NEW prompt \in Chunks(MaxLen), MatchBegin(s, prompt)
        PROVE  TypeInv'
    BY <2>1, ChunkType, MatchBeginType, KvPoolConstants
  <2>2. ASSUME NEW s \in Seqs, NEW t \in Chunks(MaxChunk), ExecBegin(s, t)
        PROVE  TypeInv'
    BY <2>2, ChunkType, ExecBeginType, KvPoolConstants
  <2> QED
    BY <1>2, <2>1, <2>2, NewSequenceType, RequestReleaseType, PublishType,
       SnapshotBeginType, ForkBeginType, DropPrefixType DEF Client
<1>3. ASSUME NEW s \in Seqs, Matching(s) \/ Execution(s) \/ ReturnBegin(s)
      PROVE  TypeInv'
  BY <1>3, MatchTakeType, MatchEndType, ReturnBeginType, RetainTailType,
     PrepareType, CopyTailType, DropReplacedType, AllocNextType, WriteRowsType,
     FailType, CommitType, EvictType, CommitEndType, NoteType, NoteEndType,
     NoteDeferredType, RollbackBlockType, RestoreTailType, RollbackEndType
     DEF Matching, Execution
<1>4. ASSUME NEW o \in Owners, Returning(o) \/ Copying(o)
      PROVE  TypeInv'
  BY <1>4, ReturnBlockType, ReturnEndType, CopyRefType, CopyEndType
     DEF Returning, Copying
<1> QED
  BY <1>1, <1>2, <1>3, <1>4 DEF Next

\* Every reachable state of the pool is well typed: block tables, hashes and
\* metadata only ever name blocks of the pool, and kv_evict never moves head
\* past the block table (SeqState, BlockStore).
THEOREM TypeCorrect == Spec => []TypeOK
<1>1. TypeInv => TypeOK
  BY DEF TypeInv
<1> QED
  BY <1>1, TypeInit, TypeStep, PTL DEF Spec
=============================================================================
