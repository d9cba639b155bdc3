-------------------------- MODULE KvPoolTableProofs --------------------------
(***************************************************************************)
(* Block tables of the key/value pool: what one step does to the owner     *)
(* that takes it and to the others, how long the tables are, and how far   *)
(* the window has moved.                                                   *)
(***************************************************************************)
EXTENDS KvPoolProofs

-----------------------------------------------------------------------------
(* Steps of one owner.                                                     *)

SameTable(o) ==
  blocks'[o] = blocks[o] /\ head'[o] = head[o] /\ hist'[o] = hist[o] /\ source'[o] = source[o]
SameUndo(s) == before'[s] = before[s] /\ tail'[s] = tail[s] /\ dropping'[s] = dropping[s]
SameRun(s) == tokens'[s] = tokens[s] /\ SameUndo(s) /\ noted'[s] = noted[s]
SameMeta(s) == metadata'[s] = metadata[s] /\ deferring'[s] = deferring[s]
SameSeq(s) == SameRun(s) /\ SameMeta(s)
SameStore == UNCHANGED <<free, refcounts, hashes, byHash, lru, content>>

Kept(q) ==
  /\ pc'[q] = pc[q] /\ SameTable(q)
  /\ q \in Seqs => SameSeq(q)

\* o takes a step that nobody else takes part in.
Alone(o) ==
  \A q \in Owners \ {o} : Kept(q) /\ (pc[q] = "copying" => source[q] # o)

LEMMA OwnerKinds == \A o : o \in Owners <=> o \in Seqs \/ o \in Handles
  BY DEF Owners

\* Unfolding the variables of a step.
LEMMA Typed ==
  ASSUME TypeInv
  PROVE  /\ free \subseteq Blocks /\ refcounts \in [Blocks -> Nat]
         /\ hashes \in [Blocks -> Seq(Token)] /\ byHash \subseteq Seq(Token) \X Blocks
         /\ lru \in Seq(Blocks) /\ content \in [Blocks -> Seq(Token)]
         /\ pc \in [Owners -> SeqPcs] /\ blocks \in [Owners -> Seq(Blocks)]
         /\ head \in [Owners -> Nat] /\ hist \in [Owners -> Seq(Token)]
         /\ source \in [Owners -> Owners \cup {NoOwner}]
         /\ tokens \in [Seqs -> Seq(Token)] /\ before \in [Seqs -> Seq(Blocks)]
         /\ tail \in [Seqs -> Blocks \cup {NoBlock}]
         /\ dropping \in [Seqs -> Blocks \cup {NoBlock}] /\ noted \in [Seqs -> Nat]
         /\ metadata \in [Seqs -> Seq(Seq(Token) \X Blocks)]
         /\ deferring \in [Seqs -> BOOLEAN]
         /\ \A o \in Owners : head[o] <= Len(blocks[o])
         /\ Seqs \subseteq Owners
  BY DEF TypeInv, TypeOK, StoreType, TableType, RunType, Owners

LEMMA SourceIdle ==
  ASSUME TypeInv, NEW q \in Owners, pc[q] = "copying"
  PROVE  /\ source[q] \in Owners \ {q}
         /\ source[q] \in Seqs => pc[source[q]] = "lent"
         /\ source[q] \notin Seqs => pc[source[q]] = "idle" /\ q \in Seqs
  BY KvPoolConstants DEF TypeInv, Lending, Owners

LEMMA AloneIf ==
  ASSUME TypeInv, NEW o \in Owners, \A q \in Owners \ {o} : Kept(q),
         pc[o] # "lent", o \in Seqs \/ pc[o] # "idle"
  PROVE  Alone(o)
  BY SourceIdle DEF Alone

LEMMA NewSequenceEffect ==
  ASSUME TypeInv, NEW s \in Seqs, NewSequence(s)
  PROVE  /\ Alone(s) /\ pc[s] = Unused /\ pc'[s] = "idle"
         /\ SameTable(s) /\ SameSeq(s) /\ SameStore
<1> USE DEF NewSequence, Goto, SameTable, SameUndo, SameRun, SameMeta, SameSeq, SameStore, Kept,
       storeVars, tableVars, runVars, lifeVars, Unused
<1>1. \A q \in Owners \ {s} : Kept(q)
  BY Typed
<1>2. pc[s] = Unused /\ pc'[s] = "idle"
  BY Typed
<1> QED BY <1>1, <1>2, Typed, AloneIf

LEMMA MatchBeginEffect ==
  ASSUME TypeInv, NEW s \in Seqs, NEW t, MatchBegin(s, t)
  PROVE  /\ Alone(s) /\ pc[s] = "idle" /\ pc'[s] = "match"
         /\ blocks[s] = <<>> /\ hist[s] = <<>> /\ tokens'[s] = t
         /\ SameTable(s) /\ SameUndo(s) /\ noted'[s] = noted[s] /\ SameMeta(s) /\ SameStore
<1> USE DEF MatchBegin, Goto, SameTable, SameUndo, SameRun, SameMeta, SameSeq, SameStore, Kept,
       storeVars, tableVars, runVars, lifeVars
<1>1. \A q \in Owners \ {s} : Kept(q)
  BY Typed
<1>2. pc[s] = "idle" /\ pc'[s] = "match"
  BY Typed
<1> QED BY <1>1, <1>2, Typed, AloneIf

LEMMA MatchTakeEffect ==
  ASSUME TypeInv, NEW s \in Seqs, MatchTake(s)
  PROVE  /\ Alone(s) /\ pc[s] = "match" /\ pc'[s] = "match"
         /\ Len(blocks[s]) < Matchable(s)
         /\ \E b \in Blocks :
              /\ <<HashAt(tokens[s], Len(blocks[s]) + 1), b>> \in byHash /\ RefBlock(b)
              /\ blocks'[s] = Append(blocks[s], b)
         /\ head'[s] = head[s] /\ hist'[s] = hist[s] /\ source'[s] = source[s]
         /\ SameSeq(s) /\ UNCHANGED content
<1> USE DEF MatchTake, Push, TakeBlock, SameTable, SameUndo, SameRun, SameMeta, SameSeq, Kept,
       runVars, lifeVars
<1>1. \A q \in Owners \ {s} : Kept(q)
  BY Typed
<1>2. pc[s] = "match" /\ pc'[s] = "match"
  BY Typed
<1> QED BY <1>1, <1>2, Typed, AloneIf

LEMMA MatchEndEffect ==
  ASSUME TypeInv, NEW s \in Seqs, MatchEnd(s)
  PROVE  /\ Alone(s) /\ pc[s] = "match" /\ pc'[s] = "idle"
         /\ hist'[s] = HashAt(tokens[s], Len(blocks[s])) /\ tokens'[s] = <<>>
         /\ blocks'[s] = blocks[s] /\ head'[s] = head[s] /\ source'[s] = source[s]
         /\ SameUndo(s) /\ noted'[s] = noted[s] /\ SameMeta(s) /\ SameStore
<1> USE DEF MatchEnd, Goto, SameTable, SameUndo, SameRun, SameMeta, SameSeq, SameStore, Kept,
       storeVars, lifeVars
<1>1. \A q \in Owners \ {s} : Kept(q)
  BY Typed
<1>2. pc[s] = "match" /\ pc'[s] = "idle"
  BY Typed
<1> QED BY <1>1, <1>2, Typed, AloneIf

LEMMA ExecBeginEffect ==
  ASSUME TypeInv, NEW s \in Seqs, NEW t, ExecBegin(s, t)
  PROVE  /\ Alone(s) /\ pc[s] = "idle"
         /\ pc'[s] = IF TailShared(s) THEN "retain" ELSE "prepare"
         /\ tokens'[s] = t /\ before'[s] = blocks[s]
         /\ tail'[s] = tail[s] /\ dropping'[s] = dropping[s] /\ noted'[s] = noted[s]
         /\ SameTable(s) /\ SameMeta(s) /\ SameStore
<1> USE DEF ExecBegin, Goto, SameTable, SameUndo, SameRun, SameMeta, SameSeq, SameStore, Kept,
       storeVars, tableVars, runVars, lifeVars
<1>1. \A q \in Owners \ {s} : Kept(q)
  BY Typed
<1>2. pc[s] = "idle" /\ pc'[s] = IF TailShared(s) THEN "retain" ELSE "prepare"
  BY Typed
<1> QED BY <1>1, <1>2, Typed, AloneIf

LEMMA RetainTailEffect ==
  ASSUME TypeInv, NEW s \in Seqs, RetainTail(s)
  PROVE  /\ Alone(s) /\ pc[s] = "retain" /\ pc'[s] = "prepare"
         /\ RefBlock(blocks[s][TailIndex(s)]) /\ tail'[s] = blocks[s][TailIndex(s)]
         /\ tokens'[s] = tokens[s] /\ before'[s] = before[s] /\ dropping'[s] = dropping[s]
         /\ noted'[s] = noted[s] /\ SameTable(s) /\ SameMeta(s) /\ UNCHANGED content
<1> USE DEF RetainTail, Goto, SameTable, SameUndo, SameRun, SameMeta, SameSeq, Kept,
       tableVars, runVars, lifeVars
<1>1. \A q \in Owners \ {s} : Kept(q)
  BY Typed
<1>2. pc[s] = "retain" /\ pc'[s] = "prepare"
  BY Typed
<1> QED BY <1>1, <1>2, Typed, AloneIf

LEMMA PrepareEffect ==
  ASSUME TypeInv, NEW s \in Seqs, Prepare(s)
  PROVE  /\ Alone(s) /\ pc[s] = "prepare"
         /\ pc'[s] \in {"rollback", "copy", "alloc"}
         /\ pc'[s] = "copy" => TailShared(s)
         /\ pc'[s] = "alloc" => ~ TailShared(s)
         /\ SameTable(s) /\ SameSeq(s) /\ SameStore
<1> USE DEF Prepare, Goto, SameTable, SameUndo, SameRun, SameMeta, SameSeq, SameStore, Kept,
       storeVars, tableVars, runVars, lifeVars
<1>1. \A q \in Owners \ {s} : Kept(q)
  BY Typed
<1>2. /\ pc[s] = "prepare" /\ pc'[s] \in {"rollback", "copy", "alloc"}
      /\ pc'[s] = "copy" => TailShared(s)
      /\ pc'[s] = "alloc" => ~ TailShared(s)
  BY Typed
<1> QED BY <1>1, <1>2, Typed, AloneIf

LEMMA CopyTailEffect ==
  ASSUME TypeInv, NEW s \in Seqs, CopyTail(s)
  PROVE  /\ Alone(s) /\ pc[s] = "copy" /\ head'[s] = head[s] /\ hist'[s] = hist[s]
         /\ source'[s] = source[s] /\ tokens'[s] = tokens[s] /\ before'[s] = before[s]
         /\ tail'[s] = tail[s] /\ noted'[s] = noted[s] /\ SameMeta(s)
         /\ \/ \E b \in Blocks :
                 /\ AllocBlock(b) /\ pc'[s] = "copied"
                 /\ content' = [content EXCEPT ![b] = content[blocks[s][TailIndex(s)]]]
                 /\ blocks'[s] = [blocks[s] EXCEPT ![TailIndex(s)] = b]
                 /\ dropping'[s] = blocks[s][TailIndex(s)]
            \/ /\ AllocExhausted /\ pc'[s] = "rollback"
               /\ UNCHANGED content /\ blocks'[s] = blocks[s] /\ dropping'[s] = dropping[s]
<1> USE DEF CopyTail, Goto, SameTable, SameUndo, SameRun, SameMeta, SameSeq, SameStore, Kept,
       storeVars, tableVars, runVars, lifeVars
<1>1. \A q \in Owners \ {s} : Kept(q)
  BY Typed
<1>2. pc[s] = "copy"
  BY Typed
<1> QED BY <1>1, <1>2, Typed, AloneIf

LEMMA DropReplacedEffect ==
  ASSUME TypeInv, NEW s \in Seqs, DropReplaced(s)
  PROVE  /\ Alone(s) /\ pc[s] \in {"copied", "restored"}
         /\ pc'[s] = IF pc[s] = "copied" THEN "alloc" ELSE "rollback"
         /\ UnrefBlock(dropping[s]) /\ dropping'[s] = NoBlock /\ SameTable(s)
         /\ tokens'[s] = tokens[s] /\ before'[s] = before[s] /\ tail'[s] = tail[s]
         /\ noted'[s] = noted[s] /\ SameMeta(s) /\ UNCHANGED content
<1> USE DEF DropReplaced, Goto, SameTable, SameUndo, SameRun, SameMeta, SameSeq, SameStore, Kept,
       storeVars, tableVars, runVars, lifeVars
<1>1. \A q \in Owners \ {s} : Kept(q)
  BY Typed
<1>2. /\ pc[s] \in {"copied", "restored"}
      /\ pc'[s] = IF pc[s] = "copied" THEN "alloc" ELSE "rollback"
  BY Typed
<1> QED BY <1>1, <1>2, Typed, AloneIf

LEMMA AllocNextEffect ==
  ASSUME TypeInv, NEW s \in Seqs, AllocNext(s)
  PROVE  /\ Alone(s) /\ pc[s] = "alloc" /\ Len(blocks[s]) < BlocksFor(Frontier(s))
         /\ \/ /\ pc'[s] = "alloc"
               /\ \E b \in Blocks : AllocBlock(b) /\ blocks'[s] = Append(blocks[s], b)
            \/ AllocExhausted /\ pc'[s] = "rollback" /\ blocks'[s] = blocks[s]
         /\ head'[s] = head[s] /\ hist'[s] = hist[s] /\ source'[s] = source[s]
         /\ SameSeq(s) /\ UNCHANGED content
<1> USE DEF AllocNext, Goto, SameTable, SameUndo, SameRun, SameMeta, SameSeq, SameStore, Kept,
       storeVars, tableVars, runVars, lifeVars, Push
<1>1. \A q \in Owners \ {s} : Kept(q)
  BY Typed
<1>2. pc[s] = "alloc"
  BY Typed
<1> QED BY <1>1, <1>2, Typed, AloneIf

LEMMA WriteRowsEffect ==
  ASSUME TypeInv, NEW s \in Seqs, WriteRows(s)
  PROVE  /\ Alone(s) /\ pc[s] = "alloc" /\ pc'[s] = "computed"
         /\ Len(blocks[s]) >= BlocksFor(Frontier(s))
         /\ SameTable(s) /\ SameSeq(s) /\ UNCHANGED storeVars
<1> USE DEF WriteRows, Goto, SameTable, SameUndo, SameRun, SameMeta, SameSeq, SameStore, Kept,
       storeVars, tableVars, runVars, lifeVars
<1>1. \A q \in Owners \ {s} : Kept(q)
  BY Typed
<1>2. pc[s] = "alloc" /\ pc'[s] = "computed"
  BY Typed
<1> QED BY <1>1, <1>2, Typed, AloneIf

LEMMA FailEffect ==
  ASSUME TypeInv, NEW s \in Seqs, Fail(s)
  PROVE  /\ Alone(s) /\ pc[s] \in {"prepare", "alloc", "computed"} /\ pc'[s] = "rollback"
         /\ SameTable(s) /\ SameSeq(s) /\ SameStore
<1> USE DEF Fail, Goto, SameTable, SameUndo, SameRun, SameMeta, SameSeq, SameStore, Kept,
       storeVars, tableVars, runVars, lifeVars
<1>1. \A q \in Owners \ {s} : Kept(q)
  BY Typed
<1>2. pc[s] \in {"prepare", "alloc", "computed"} /\ pc'[s] = "rollback"
  BY Typed
<1> QED BY <1>1, <1>2, Typed, AloneIf

LEMMA CommitEffect ==
  ASSUME TypeInv, NEW s \in Seqs, Commit(s)
  PROVE  /\ Alone(s) /\ pc[s] = "computed" /\ pc'[s] = "evict"
         /\ SameTable(s) /\ SameSeq(s) /\ SameStore
<1> USE DEF Commit, Goto, SameTable, SameUndo, SameRun, SameMeta, SameSeq, SameStore, Kept,
       storeVars, tableVars, runVars, lifeVars
<1>1. \A q \in Owners \ {s} : Kept(q)
  BY Typed
<1>2. pc[s] = "computed" /\ pc'[s] = "evict"
  BY Typed
<1> QED BY <1>1, <1>2, Typed, AloneIf

LEMMA EvictEffect ==
  ASSUME TypeInv, NEW s \in Seqs, Evict(s)
  PROVE  /\ Alone(s) /\ pc[s] = "evict" /\ pc'[s] = "evict" /\ CanEvict(s)
         /\ UnrefBlock(blocks[s][head[s] + 1]) /\ head'[s] = head[s] + 1
         /\ blocks'[s] = blocks[s] /\ hist'[s] = hist[s] /\ source'[s] = source[s]
         /\ SameSeq(s) /\ UNCHANGED content
<1> USE DEF Evict, Goto, SameTable, SameUndo, SameRun, SameMeta, SameSeq, SameStore, Kept,
       storeVars, tableVars, runVars, lifeVars
<1>1. \A q \in Owners \ {s} : Kept(q)
  BY Typed
<1>2. pc[s] = "evict" /\ pc'[s] = "evict"
  BY Typed
<1> QED BY <1>1, <1>2, Typed, AloneIf

LEMMA CommitEndEffect ==
  ASSUME TypeInv, NEW s \in Seqs, CommitEnd(s)
  PROVE  /\ Alone(s) /\ pc[s] = "evict" /\ pc'[s] = "note" /\ ~ CanEvict(s)
         /\ tail[s] = NoBlock => UNCHANGED storeVars
         /\ tail[s] # NoBlock => UnrefBlock(tail[s])
         /\ tail'[s] = NoBlock /\ noted'[s] = Len(hist[s]) \div BlockSize /\ SameTable(s)
         /\ tokens'[s] = tokens[s] /\ before'[s] = before[s] /\ dropping'[s] = dropping[s]
         /\ SameMeta(s) /\ UNCHANGED content
<1> USE DEF CommitEnd, Goto, SameTable, SameUndo, SameRun, SameMeta, SameSeq, SameStore, Kept,
       storeVars, tableVars, runVars, lifeVars
<1>1. \A q \in Owners \ {s} : Kept(q)
  BY Typed
<1>2. pc[s] = "evict" /\ pc'[s] = "note"
  BY Typed
<1> QED BY <1>1, <1>2, Typed, AloneIf

LEMMA NoteEffect ==
  ASSUME TypeInv, NEW s \in Seqs, Note(s)
  PROVE  /\ Alone(s) /\ pc[s] = "note" /\ pc'[s] = "note" /\ ~ deferring[s]
         /\ noted[s] < CompletedBlocks(s)
         /\ SetHash(blocks[s][noted[s] + 1], HashAt(hist[s] \o tokens[s], noted[s] + 1))
         /\ noted'[s] = noted[s] + 1 /\ SameTable(s) /\ tokens'[s] = tokens[s] /\ SameUndo(s)
         /\ SameMeta(s) /\ UNCHANGED content
<1> USE DEF Note, Goto, SameTable, SameUndo, SameRun, SameMeta, SameSeq, SameStore, Kept,
       storeVars, tableVars, runVars, lifeVars
<1>1. \A q \in Owners \ {s} : Kept(q)
  BY Typed
<1>2. pc[s] = "note" /\ pc'[s] = "note"
  BY Typed
<1> QED BY <1>1, <1>2, Typed, AloneIf

LEMMA NoteEndEffect ==
  ASSUME TypeInv, NEW s \in Seqs, NoteEnd(s)
  PROVE  /\ Alone(s) /\ pc[s] = "note" /\ pc'[s] = "idle" /\ ~ deferring[s]
         /\ noted[s] = CompletedBlocks(s)
         /\ hist'[s] = hist[s] \o tokens[s] /\ tokens'[s] = <<>> /\ before'[s] = <<>>
         /\ noted'[s] = 0 /\ blocks'[s] = blocks[s] /\ head'[s] = head[s]
         /\ source'[s] = source[s] /\ tail'[s] = tail[s] /\ dropping'[s] = dropping[s]
         /\ SameMeta(s) /\ SameStore
<1> USE DEF NoteEnd, Goto, SameTable, SameUndo, SameRun, SameMeta, SameSeq, SameStore, Kept,
       storeVars, tableVars, runVars, lifeVars, AdvanceCursor
<1>1. \A q \in Owners \ {s} : Kept(q)
  BY Typed
<1>2. pc[s] = "note" /\ pc'[s] = "idle"
  BY Typed
<1> QED BY <1>1, <1>2, Typed, AloneIf

LEMMA NoteDeferredEffect ==
  ASSUME TypeInv, NEW s \in Seqs, NoteDeferred(s)
  PROVE  /\ Alone(s) /\ pc[s] = "note" /\ pc'[s] = "idle" /\ deferring[s]
         /\ metadata'[s] = metadata[s] \o
              [i \in 1 .. (CompletedBlocks(s) - noted[s]) |->
                 <<HashAt(hist[s] \o tokens[s], noted[s] + i), blocks[s][noted[s] + i]>>]
         /\ hist'[s] = hist[s] \o tokens[s] /\ tokens'[s] = <<>> /\ before'[s] = <<>>
         /\ noted'[s] = 0 /\ blocks'[s] = blocks[s] /\ head'[s] = head[s]
         /\ source'[s] = source[s] /\ tail'[s] = tail[s] /\ dropping'[s] = dropping[s]
         /\ deferring'[s] = deferring[s] /\ SameStore
<1> USE DEF NoteDeferred, Goto, SameTable, SameUndo, SameRun, SameMeta, SameSeq, SameStore, Kept,
       storeVars, tableVars, runVars, lifeVars, AdvanceCursor
<1>1. \A q \in Owners \ {s} : Kept(q)
  BY Typed
<1>2. pc[s] = "note" /\ pc'[s] = "idle"
  BY Typed
<1> QED BY <1>1, <1>2, Typed, AloneIf

LEMMA PublishEffect ==
  ASSUME TypeInv, NEW s \in Seqs, Publish(s)
  PROVE  /\ Alone(s) /\ pc[s] = "idle" /\ pc'[s] = "idle" /\ deferring[s]
         /\ InstallMetadata(metadata[s]) /\ metadata'[s] = <<>> /\ deferring'[s] = FALSE
         /\ SameTable(s) /\ SameRun(s) /\ UNCHANGED content
<1> USE DEF Publish, Goto, SameTable, SameUndo, SameRun, SameMeta, SameSeq, SameStore, Kept,
       storeVars, tableVars, runVars, lifeVars
<1>1. \A q \in Owners \ {s} : Kept(q)
  BY Typed
<1>2. pc[s] = "idle" /\ pc'[s] = "idle"
  BY Typed
<1> QED BY <1>1, <1>2, Typed, AloneIf

LEMMA RollbackBlockEffect ==
  ASSUME TypeInv, NEW s \in Seqs, RollbackBlock(s)
  PROVE  /\ Alone(s) /\ pc[s] = "rollback" /\ pc'[s] = "rollback"
         /\ Len(blocks[s]) > Len(before[s])
         /\ UnrefBlock(Last(blocks[s])) /\ blocks'[s] = Front(blocks[s])
         /\ head'[s] = head[s] /\ hist'[s] = hist[s] /\ source'[s] = source[s]
         /\ SameSeq(s) /\ UNCHANGED content
<1> USE DEF RollbackBlock, Goto, SameTable, SameUndo, SameRun, SameMeta, SameSeq, SameStore, Kept,
       storeVars, tableVars, runVars, lifeVars, Pop
<1>1. \A q \in Owners \ {s} : Kept(q)
  BY Typed
<1>2. pc[s] = "rollback" /\ pc'[s] = "rollback"
  BY Typed
<1> QED BY <1>1, <1>2, Typed, AloneIf

LEMMA RestoreTailEffect ==
  ASSUME TypeInv, NEW s \in Seqs, RestoreTail(s)
  PROVE  /\ Alone(s) /\ pc[s] = "rollback" /\ pc'[s] = "restored"
         /\ Len(blocks[s]) = Len(before[s]) /\ TailReplaced(s)
         /\ RefBlock(tail[s]) /\ blocks'[s] = [blocks[s] EXCEPT ![TailIndex(s)] = tail[s]]
         /\ dropping'[s] = blocks[s][TailIndex(s)]
         /\ head'[s] = head[s] /\ hist'[s] = hist[s] /\ source'[s] = source[s]
         /\ tokens'[s] = tokens[s] /\ before'[s] = before[s] /\ tail'[s] = tail[s]
         /\ noted'[s] = noted[s] /\ SameMeta(s) /\ UNCHANGED content
<1> USE DEF RestoreTail, Goto, SameTable, SameUndo, SameRun, SameMeta, SameSeq, SameStore, Kept,
       storeVars, tableVars, runVars, lifeVars
<1>1. \A q \in Owners \ {s} : Kept(q)
  BY Typed
<1>2. pc[s] = "rollback" /\ pc'[s] = "restored"
  BY Typed
<1> QED BY <1>1, <1>2, Typed, AloneIf

LEMMA RollbackEndEffect ==
  ASSUME TypeInv, NEW s \in Seqs, RollbackEnd(s)
  PROVE  /\ Alone(s) /\ pc[s] = "rollback" /\ pc'[s] = "idle"
         /\ Len(blocks[s]) = Len(before[s]) /\ ~ TailReplaced(s)
         /\ tail[s] = NoBlock => UNCHANGED storeVars
         /\ tail[s] # NoBlock => UnrefBlock(tail[s])
         /\ tail'[s] = NoBlock /\ tokens'[s] = <<>> /\ before'[s] = <<>>
         /\ dropping'[s] = dropping[s] /\ noted'[s] = noted[s] /\ SameTable(s)
         /\ SameMeta(s) /\ UNCHANGED content
<1> USE DEF RollbackEnd, Goto, SameTable, SameUndo, SameRun, SameMeta, SameSeq, SameStore, Kept,
       storeVars, tableVars, runVars, lifeVars
<1>1. \A q \in Owners \ {s} : Kept(q)
  BY Typed
<1>2. pc[s] = "rollback" /\ pc'[s] = "idle"
  BY Typed
<1> QED BY <1>1, <1>2, Typed, AloneIf

\* Nothing but flags changes.
Quiet == (\A q \in Owners : Kept(q)) /\ SameStore

LEMMA StutterEffect ==
  ASSUME TypeInv, UNCHANGED vars
  PROVE  Quiet
  BY DEF vars, Quiet, SameTable, SameUndo, SameRun, SameMeta, SameSeq, SameStore, Kept,
     storeVars, tableVars, runVars, lifeVars

LEMMA RequestReleaseEffect ==
  ASSUME TypeInv, NEW s \in Seqs, RequestRelease(s)
  PROVE  Quiet
  BY DEF RequestRelease, Quiet, SameTable, SameUndo, SameRun, SameMeta, SameSeq, SameStore,
     Kept, storeVars, tableVars, runVars, lifeVars

\* A sequence or a prefix starts to give its blocks back.
StartsReturn(o) ==
  /\ Alone(o) /\ pc[o] = "idle" /\ pc'[o] = "return"
  /\ SameTable(o) /\ (o \in Seqs => SameSeq(o)) /\ SameStore

LEMMA ReturnBeginEffect ==
  ASSUME TypeInv, NEW s \in Seqs, ReturnBegin(s)
  PROVE  StartsReturn(s)
<1> USE DEF ReturnBegin, Goto, SameTable, SameUndo, SameRun, SameMeta, SameSeq, SameStore, Kept,
       storeVars, tableVars, runVars, lifeVars
<1>1. \A q \in Owners \ {s} : Kept(q)
  BY Typed
<1>2. pc[s] = "idle" /\ pc'[s] = "return"
  BY Typed
<1> QED BY <1>1, <1>2, Typed, AloneIf DEF StartsReturn

LEMMA DropPrefixEffect ==
  ASSUME TypeInv, NEW p \in Handles, DropPrefix(p)
  PROVE  p \in Owners /\ StartsReturn(p)
<1> USE DEF DropPrefix, Goto, SameTable, SameUndo, SameRun, SameMeta, SameSeq, SameStore, Kept,
       storeVars, tableVars, runVars, lifeVars
<1>1. p \in Owners /\ p \notin Seqs
  BY KvPoolConstants DEF Owners
<1>2. \A q \in Owners \ {p} : Kept(q)
  BY Typed
<1>3. pc[p] = "idle" /\ pc'[p] = "return"
  BY <1>1, Typed
<1>4. ASSUME NEW q \in Owners, pc[q] = "copying" PROVE source[q] # p
  BY <1>1, <1>4, SourceIdle
<1> QED BY <1>1, <1>2, <1>3, <1>4 DEF StartsReturn, Alone

LEMMA ReturnBlockEffect ==
  ASSUME TypeInv, NEW o \in Owners, ReturnBlock(o)
  PROVE  /\ Alone(o) /\ pc[o] = "return" /\ pc'[o] = "return"
         /\ Len(blocks[o]) > head[o]
         /\ UnrefBlock(Last(blocks[o])) /\ blocks'[o] = Front(blocks[o])
         /\ head'[o] = head[o] /\ hist'[o] = hist[o] /\ source'[o] = source[o]
         /\ (o \in Seqs => SameSeq(o)) /\ UNCHANGED content
<1> USE DEF ReturnBlock, Pop, Goto, SameTable, SameUndo, SameRun, SameMeta, SameSeq, SameStore,
       Kept, storeVars, tableVars, runVars, lifeVars
<1>1. \A q \in Owners \ {o} : Kept(q)
  BY Typed
<1>2. pc[o] = "return" /\ pc'[o] = "return"
  BY Typed
<1> QED BY <1>1, <1>2, Typed, AloneIf

LEMMA ReturnEndEffect ==
  ASSUME TypeInv, NEW o \in Owners, ReturnEnd(o)
  PROVE  /\ Alone(o) /\ pc[o] = "return" /\ pc'[o] = Unused
         /\ Len(blocks[o]) <= head[o]
         /\ blocks'[o] = <<>> /\ hist'[o] = <<>> /\ head'[o] = 0 /\ source'[o] = source[o]
         /\ o \in Seqs => SameRun(o) /\ metadata'[o] = <<>>
                          /\ (deferring'[o] <=> o \in SessionSeqs)
         /\ SameStore
<1> USE DEF ReturnEnd, ResetHead, DiscardMetadata, Goto, SameTable, SameUndo, SameRun, SameMeta,
       SameSeq, SameStore, Kept, storeVars, tableVars, runVars, lifeVars
<1>1. \A q \in Owners \ {o} : Kept(q)
  BY Typed
<1>2. pc[o] = "return" /\ pc'[o] = Unused
  BY Typed
<1> QED BY <1>1, <1>2, Typed, AloneIf

\* A snapshot or a fork begins: to copies from.
StartsCopy(from, to) ==
  /\ from \in Owners /\ to \in Owners /\ from # to
  /\ pc[from] = "idle" /\ pc[to] = Unused /\ pc'[to] = "copying"
  /\ from \in Seqs => pc'[from] = "lent"
  /\ from \notin Seqs => pc'[from] = "idle"
  /\ from \notin SessionSeqs /\ to \notin SessionSeqs
  /\ SameTable(from) /\ (from \in Seqs => SameSeq(from))
  /\ source'[to] = from /\ head'[to] = head[from]
  /\ blocks'[to] = SubSeq(blocks[from], 1, head[from])
  /\ hist'[to] = hist[to] /\ (to \in Seqs => SameSeq(to))
  /\ \A q \in Owners \ {from, to} : Kept(q)
  /\ \A q \in Owners : pc[q] = "copying" =>
        /\ q # from /\ q # to /\ source[q] # to
        /\ source[q] = from => from \notin Seqs
  /\ SameStore

LEMMA CopiedFrom ==
  ASSUME TypeInv, NEW from \in Owners, NEW to \in Owners, pc[from] = "idle", pc[to] = Unused,
         NEW q \in Owners, pc[q] = "copying"
  PROVE  /\ q # from /\ q # to /\ source[q] # to
         /\ source[q] = from => from \notin Seqs
  BY SourceIdle DEF Unused

LEMMA SnapshotBeginEffect ==
  ASSUME TypeInv, NEW s \in Seqs, NEW p \in Handles, SnapshotBegin(s, p)
  PROVE  StartsCopy(s, p)
<1> USE DEF SnapshotBegin, CopyFrom, SameTable, SameUndo, SameRun, SameMeta, SameSeq, SameStore,
       Kept, storeVars, runVars, lifeVars
<1>1. /\ s \in Owners /\ p \in Owners /\ s # p /\ p \notin Seqs
      /\ s \notin SessionSeqs /\ p \notin SessionSeqs
  BY KvPoolConstants DEF Owners
<1>2. \A q \in Owners \ {s, p} : Kept(q)
  BY <1>1, Typed
<1>3. pc[s] = "idle" /\ pc[p] = Unused
  BY DEF Unused
<1>4. pc'[s] = "lent" /\ pc'[p] = "copying"
  BY <1>1, Typed
<1>5. /\ source'[p] = s /\ head'[p] = head[s]
      /\ blocks'[p] = SubSeq(blocks[s], 1, head[s])
      /\ hist'[p] = hist[p] /\ SameTable(s) /\ SameSeq(s) /\ SameStore
  BY <1>1, Typed
<1> QED BY <1>1, <1>2, <1>3, <1>4, <1>5, CopiedFrom DEF StartsCopy

LEMMA ForkBeginEffect ==
  ASSUME TypeInv, NEW s \in Seqs, NEW p \in Handles, ForkBegin(p, s)
  PROVE  StartsCopy(p, s)
<1> USE DEF ForkBegin, CopyFrom, Goto, SameTable, SameUndo, SameRun, SameMeta, SameSeq,
       SameStore, Kept, storeVars, runVars, lifeVars
<1>1. /\ s \in Owners /\ p \in Owners /\ s # p /\ p \notin Seqs
      /\ s \notin SessionSeqs /\ p \notin SessionSeqs
  BY KvPoolConstants DEF Owners
<1>2. \A q \in Owners \ {s, p} : Kept(q)
  BY <1>1, Typed
<1>3. pc[p] = "idle" /\ pc[s] = Unused
  BY DEF Unused
<1>4. pc'[p] = "idle" /\ pc'[s] = "copying"
  BY <1>1, Typed
<1>5. /\ source'[s] = p /\ head'[s] = head[p]
      /\ blocks'[s] = SubSeq(blocks[p], 1, head[p])
      /\ hist'[s] = hist[s] /\ SameTable(p) /\ SameSeq(s) /\ SameStore
  BY <1>1, Typed
<1> QED BY <1>1, <1>2, <1>3, <1>4, <1>5, CopiedFrom DEF StartsCopy

LEMMA CopyRefEffect ==
  ASSUME TypeInv, NEW o \in Owners, CopyRef(o)
  PROVE  /\ Alone(o) /\ pc[o] = "copying" /\ pc'[o] = "copying"
         /\ Len(blocks[o]) < Len(blocks[source[o]])
         /\ RefBlock(blocks[source[o]][Len(blocks[o]) + 1])
         /\ blocks'[o] = Append(blocks[o], blocks[source[o]][Len(blocks[o]) + 1])
         /\ head'[o] = head[o] /\ hist'[o] = hist[o] /\ source'[o] = source[o]
         /\ (o \in Seqs => SameSeq(o)) /\ UNCHANGED content
<1> USE DEF CopyRef, Push, SameTable, SameUndo, SameRun, SameMeta, SameSeq, SameStore,
       Kept, storeVars, tableVars, runVars, lifeVars
<1>1. \A q \in Owners \ {o} : Kept(q)
  BY Typed
<1>2. pc[o] = "copying" /\ pc'[o] = "copying"
  BY Typed
<1> QED BY <1>1, <1>2, Typed, AloneIf

\* A snapshot or a fork is complete: o and the owner it copied are idle.
EndsCopy(o, from) ==
  /\ from \in Owners /\ from # o /\ pc[o] = "copying" /\ source[o] = from
  /\ pc[from] = (IF from \in Seqs THEN "lent" ELSE "idle")
  /\ pc'[o] = "idle" /\ pc'[from] = "idle"
  /\ Len(blocks[o]) = Len(blocks[from])
  /\ hist'[o] = hist[from] /\ blocks'[o] = blocks[o] /\ head'[o] = head[o]
  /\ o \in Seqs => SameSeq(o)
  /\ SameTable(from) /\ (from \in Seqs => SameSeq(from))
  /\ \A q \in Owners \ {from, o} : Kept(q)
  /\ \A q \in Owners \ {o} : pc[q] = "copying" =>
        /\ q # from /\ source[q] # o
        /\ source[q] = from => from \notin Seqs
  /\ SameStore

LEMMA CopyEndEffect ==
  ASSUME TypeInv, NEW o \in Owners, CopyEnd(o)
  PROVE  EndsCopy(o, source[o])
<1> USE DEF CopyEnd, SameTable, SameUndo, SameRun, SameMeta, SameSeq, SameStore,
       Kept, storeVars, tableVars, runVars, lifeVars
<1>1. pc[o] = "copying"
  OBVIOUS
<1>2. /\ source[o] \in Owners /\ source[o] # o
      /\ pc[source[o]] = (IF source[o] \in Seqs THEN "lent" ELSE "idle")
  BY <1>1, SourceIdle
<1>3. \A q \in Owners \ {source[o], o} : Kept(q)
  BY <1>2, Typed
<1>4. pc'[o] = "idle" /\ pc'[source[o]] = "idle"
  BY <1>2, Typed
<1>5. /\ SameTable(source[o]) /\ (source[o] \in Seqs => SameSeq(source[o])) /\ SameStore
      /\ Len(blocks[o]) = Len(blocks[source[o]])
      /\ hist'[o] = hist[source[o]] /\ blocks'[o] = blocks[o] /\ head'[o] = head[o]
      /\ o \in Seqs => SameSeq(o)
  BY <1>2, Typed
<1>6. ASSUME NEW q \in Owners \ {o}, pc[q] = "copying"
      PROVE  /\ q # source[o] /\ source[q] # o
             /\ source[q] = source[o] => source[o] \notin Seqs
  <2>1. q # source[o]
    BY <1>2, <1>6
  <2>2. source[q] # o
    BY <1>1, <1>6, SourceIdle
  <2>3. source[q] = source[o] => source[o] \notin Seqs
    BY <1>1, <1>6 DEF TypeInv, Lending
  <2> QED BY <2>1, <2>2, <2>3
<1> QED BY <1>1, <1>2, <1>3, <1>4, <1>5, <1>6 DEF EndsCopy

-----------------------------------------------------------------------------
(* How long the block tables are.                                          *)

\* A block table is as long as its owner's history needs; a copy is a prefix
\* of its source's table.
LengthsOf(o) ==
  /\ pc[o] = Unused => blocks[o] = <<>> /\ head[o] = 0
  /\ pc[o] \in {Unused, "match", "copying"} => hist[o] = <<>>
  /\ pc[o] \in {"idle", "lent", "retain", "prepare", "copy", "copied"} =>
       Len(blocks[o]) = BlocksFor(Len(hist[o]))
  /\ pc[o] = "copying" =>
       /\ Len(blocks[o]) <= Len(blocks[source[o]])
       /\ \A i \in 1 .. Len(blocks[o]) : blocks[o][i] = blocks[source[o]][i]
       /\ source[o] \notin SessionSeqs

\* A transaction only adds the blocks its chunk needs; metadata is deferred
\* by the sequences of a session alone.
RunLengths(s) ==
  /\ pc[s] \in Executing => Len(tokens[s]) <= MaxChunk
  /\ pc[s] \in {"alloc", "computed", "evict", "note"} =>
       /\ BlocksFor(Len(hist[s])) <= Len(blocks[s])
       /\ Len(blocks[s]) <= BlocksFor(Frontier(s))
  /\ pc[s] \in Undoable => Len(before[s]) = BlocksFor(Len(hist[s]))
  /\ pc[s] = "note" => Len(hist[s]) \div BlockSize <= noted[s]
  /\ deferring[s] \/ metadata[s] # <<>> => s \in SessionSeqs
LengthInv == (\A o \in Owners : LengthsOf(o)) /\ (\A s \in Seqs : RunLengths(s))

LEMMA DivUnique ==
  ASSUME NEW m \in Nat, NEW d \in Nat \ {0}, NEW k \in Nat, d * k <= m, m < d * (k + 1)
  PROVE  m \div d = k
<1> DEFINE p == m \div d
<1>1. p \in Nat /\ d * p <= m /\ m < d * (p + 1)
  BY DivBounds
<1> HIDE DEF p
<1>2. ASSUME p + 1 <= k PROVE FALSE
  <2>1. d * (p + 1) <= d * k
    BY <1>1, <1>2
  <2> QED BY <1>1, <2>1
<1>3. ASSUME k + 1 <= p PROVE FALSE
  <2>1. d * (k + 1) <= d * p
    BY <1>1, <1>3
  <2> QED BY <1>1, <2>1
<1> QED BY <1>1, <1>2, <1>3 DEF p

LEMMA BlocksForType ==
  ASSUME NEW n \in Nat
  PROVE  BlocksFor(n) \in Nat
  BY KvPoolConstants, DivBounds DEF BlocksFor

LEMMA BlocksForMonotone ==
  ASSUME NEW m \in Nat, NEW n \in Nat, m <= n
  PROVE  BlocksFor(m) <= BlocksFor(n)
  BY KvPoolConstants, DivMonotone DEF BlocksFor

\* A history of whole blocks.
LEMMA WholeBlocks ==
  ASSUME NEW k \in Nat
  PROVE  BlocksFor(k * BlockSize) = k /\ (k * BlockSize) \div BlockSize = k
<1> DEFINE d == BlockSize
           m == k * d
<1>1. d \in Nat \ {0} /\ d >= 1
  BY KvPoolConstants
<1>2. m \in Nat /\ d * k = m /\ d * (k + 1) = m + d
  BY <1>1
<1> HIDE DEF d, m
<1>3. m \div d = k
  BY <1>1, <1>2, DivUnique
<1>4. m + d - 1 \in Nat /\ d * k <= m + d - 1 /\ m + d - 1 < d * (k + 1)
  BY <1>1, <1>2
<1>5. (m + d - 1) \div d = k
  BY <1>1, <1>4, DivUnique
<1> QED BY <1>3, <1>5 DEF BlocksFor, m, d

LEMMA LengthsFrame ==
  ASSUME NEW q, LengthsOf(q), Kept(q), pc[q] = "copying" => Kept(source[q])
  PROVE  LengthsOf(q)'
  BY DEF LengthsOf, Kept, SameTable

LEMMA RunLengthsFrame ==
  ASSUME NEW q \in Seqs, RunLengths(q), Kept(q)
  PROVE  RunLengths(q)'
  BY DEF RunLengths, Kept, SameTable, SameSeq, SameRun, SameUndo, SameMeta, Frontier

LEMMA LengthAlone ==
  ASSUME TypeInv, LengthInv, NEW o \in Owners, Alone(o), LengthsOf(o)',
         o \in Seqs => RunLengths(o)'
  PROVE  LengthInv'
<1>1. ASSUME NEW q \in Owners, q # o PROVE LengthsOf(q)'
  <2>1. Kept(q) /\ (pc[q] = "copying" => source[q] \in Owners \ {o})
    BY <1>1, SourceIdle DEF Alone
  <2> QED BY <2>1, LengthsFrame DEF Alone, LengthInv
<1>2. ASSUME NEW q \in Seqs, q # o PROVE RunLengths(q)'
  BY <1>2, Typed, RunLengthsFrame DEF Alone, LengthInv
<1> QED BY <1>1, <1>2 DEF LengthInv

LEMMA LengthQuiet ==
  ASSUME TypeInv, LengthInv, Quiet
  PROVE  LengthInv'
<1>1. ASSUME NEW q \in Owners PROVE LengthsOf(q)'
  BY <1>1, SourceIdle, LengthsFrame DEF Quiet, LengthInv
<1>2. ASSUME NEW q \in Seqs PROVE RunLengths(q)'
  BY <1>2, Typed, RunLengthsFrame DEF Quiet, LengthInv
<1> QED BY <1>1, <1>2 DEF LengthInv

\* Sequences that do not execute need no more than these three.
LEMMA RunLengthsIdle ==
  ASSUME TypeInv, LengthInv, NEW s \in Seqs, pc'[s] \notin Executing,
         deferring'[s] \/ metadata'[s] # <<>> => s \in SessionSeqs
  PROVE  RunLengths(s)'
  BY DEF RunLengths, Executing, Undoable

LEMMA LengthNewSequence ==
  ASSUME TypeInv, LengthInv, NEW s \in Seqs, NewSequence(s)
  PROVE  LengthInv'
<1>1. /\ Alone(s) /\ pc[s] = Unused /\ pc'[s] = "idle"
      /\ SameTable(s) /\ SameSeq(s)
  BY NewSequenceEffect
<1>2. hist[s] = <<>> /\ blocks[s] = <<>> /\ s \in Owners
  BY <1>1, Typed DEF LengthInv, LengthsOf
<1>3. BlocksFor(0) = 0
  BY WholeBlocks, KvPoolConstants
<1>4. LengthsOf(s)'
  BY <1>1, <1>2, <1>3 DEF LengthsOf, SameTable, Unused
<1>5. RunLengths(s)'
  BY <1>1, RunLengthsIdle DEF LengthInv, RunLengths, SameSeq, SameMeta, Executing
<1> QED BY <1>1, <1>2, <1>4, <1>5, LengthAlone

LEMMA LengthMatchBegin ==
  ASSUME TypeInv, LengthInv, NEW s \in Seqs, NEW t, MatchBegin(s, t)
  PROVE  LengthInv'
<1>1. /\ Alone(s) /\ pc'[s] = "match" /\ hist[s] = <<>>
      /\ SameTable(s) /\ SameMeta(s) /\ s \in Owners
  BY MatchBeginEffect, Typed
<1>2. LengthsOf(s)'
  BY <1>1 DEF LengthsOf, SameTable, Unused
<1>3. RunLengths(s)'
  BY <1>1, RunLengthsIdle DEF LengthInv, RunLengths, SameMeta, Executing
<1> QED BY <1>1, <1>2, <1>3, LengthAlone

LEMMA LengthMatchTake ==
  ASSUME TypeInv, LengthInv, NEW s \in Seqs, MatchTake(s)
  PROVE  LengthInv'
<1>1. /\ Alone(s) /\ pc[s] = "match" /\ pc'[s] = "match" /\ hist'[s] = hist[s]
      /\ SameSeq(s) /\ s \in Owners
  BY MatchTakeEffect, Typed
<1>2. LengthsOf(s)'
  BY <1>1 DEF LengthInv, LengthsOf, Unused
<1>3. RunLengths(s)'
  BY <1>1, RunLengthsIdle DEF LengthInv, RunLengths, SameSeq, SameMeta, Executing
<1> QED BY <1>1, <1>2, <1>3, LengthAlone

\* The prompt has the matched blocks.
LEMMA MatchedHistory ==
  ASSUME TypeInv, NEW s \in Seqs, pc[s] = "match"
  PROVE  /\ Len(blocks[s]) <= Len(tokens[s]) \div BlockSize
         /\ HashAt(tokens[s], Len(blocks[s])) \in Seq(Token)
         /\ Len(HashAt(tokens[s], Len(blocks[s]))) = Len(blocks[s]) * BlockSize
<1>0. Len(tokens[s]) > 0 /\ Len(blocks[s]) <= Matchable(s)
  BY DEF TypeInv, Progress, ProgressOf
<1>a. /\ Len(tokens[s]) \in Nat /\ tokens[s] \in Seq(Token) /\ Len(blocks[s]) \in Nat
  BY SequenceType DEF TypeInv
<1>1. /\ Len(tokens[s]) \in Nat /\ tokens[s] \in Seq(Token) /\ Len(blocks[s]) \in Nat
      /\ Len(tokens[s]) - 1 \in Nat /\ Len(tokens[s]) - 1 <= Len(tokens[s])
  BY ONLY <1>0, <1>a
<1>2. Matchable(s) <= Len(tokens[s]) \div BlockSize
  BY ONLY <1>1, DivMonotone, KvPoolConstants DEF Matchable
<1>3. Matchable(s) \in Nat /\ Len(tokens[s]) \div BlockSize \in Nat
  BY <1>1, DivBounds, KvPoolConstants DEF Matchable
<1>4. Len(blocks[s]) <= Len(tokens[s]) \div BlockSize
  BY <1>0, <1>1, <1>2, <1>3
<1> QED BY <1>1, <1>4, HashAtType

LEMMA LengthMatchEnd ==
  ASSUME TypeInv, LengthInv, NEW s \in Seqs, MatchEnd(s)
  PROVE  LengthInv'
<1>1. /\ Alone(s) /\ pc[s] = "match" /\ pc'[s] = "idle" /\ blocks'[s] = blocks[s]
      /\ hist'[s] = HashAt(tokens[s], Len(blocks[s])) /\ SameMeta(s) /\ s \in Owners
  BY MatchEndEffect, Typed
<1>2. Len(blocks[s]) \in Nat /\ Len(hist'[s]) = Len(blocks[s]) * BlockSize
  BY <1>1, MatchedHistory, SequenceType DEF TypeInv
<1>3. Len(blocks'[s]) = BlocksFor(Len(hist'[s]))
  BY <1>1, <1>2, WholeBlocks
<1>4. LengthsOf(s)'
  BY <1>1, <1>3 DEF LengthsOf, Unused
<1>5. RunLengths(s)'
  BY <1>1, RunLengthsIdle DEF LengthInv, RunLengths, SameMeta, Executing
<1> QED BY <1>1, <1>4, <1>5, LengthAlone

LEMMA LengthExecBegin ==
  ASSUME TypeInv, LengthInv, NEW s \in Seqs, NEW t, Len(t) <= MaxChunk, ExecBegin(s, t)
  PROVE  LengthInv'
<1>1. /\ Alone(s) /\ pc[s] = "idle" /\ pc'[s] \in {"retain", "prepare"}
      /\ tokens'[s] = t /\ before'[s] = blocks[s] /\ SameTable(s) /\ SameMeta(s) /\ s \in Owners
  BY ExecBeginEffect, Typed
<1>2. Len(blocks[s]) = BlocksFor(Len(hist[s]))
  BY <1>1 DEF LengthInv, LengthsOf
<1>3. LengthsOf(s)'
  BY <1>1, <1>2 DEF LengthsOf, Unused, SameTable
<1>4. RunLengths(s)'
  BY <1>1, <1>2 DEF LengthInv, RunLengths, SameTable, SameMeta
<1> QED BY <1>1, <1>3, <1>4, LengthAlone

\* Steps of a transaction that leave the table, the history and the chunk alone.
LEMMA LengthSteady ==
  ASSUME TypeInv, LengthInv, NEW s \in Seqs, Alone(s), SameTable(s), SameMeta(s),
         tokens'[s] = tokens[s], before'[s] = before[s],
         pc[s] \in Executing, pc'[s] \in Executing,
         pc'[s] \in Undoable => pc[s] \in Undoable,
         pc'[s] \in {"retain", "prepare", "copy", "copied"} =>
           Len(blocks[s]) = BlocksFor(Len(hist[s])),
         pc'[s] \in {"alloc", "computed", "evict", "note"} =>
           /\ BlocksFor(Len(hist[s])) <= Len(blocks[s])
           /\ Len(blocks[s]) <= BlocksFor(Frontier(s)),
         pc'[s] = "note" => Len(hist[s]) \div BlockSize <= noted'[s]
  PROVE  LengthInv'
<1>1. s \in Owners
  BY Typed
<1>2. LengthsOf(s)'
  BY DEF LengthsOf, Unused, SameTable, Executing
<1>3. RunLengths(s)'
  BY DEF LengthInv, RunLengths, SameTable, SameMeta, Frontier
<1> QED BY <1>1, <1>2, <1>3, LengthAlone

\* The table a transaction starts from is no longer than the one it needs.
LEMMA StartFits ==
  ASSUME TypeInv, LengthInv, NEW s \in Seqs
  PROVE  /\ pc[s] \in {"idle", "retain", "prepare", "copy", "copied"} =>
              /\ Len(blocks[s]) = BlocksFor(Len(hist[s]))
              /\ Len(blocks[s]) <= BlocksFor(Frontier(s))
              /\ BlocksFor(Len(hist[s])) <= Len(blocks[s])
         /\ pc[s] \in {"alloc", "computed", "evict", "note"} =>
              /\ BlocksFor(Len(hist[s])) <= Len(blocks[s])
              /\ Len(blocks[s]) <= BlocksFor(Frontier(s))
<1>1. /\ s \in Owners /\ Len(hist[s]) \in Nat /\ Frontier(s) \in Nat
      /\ Len(hist[s]) <= Frontier(s)
  BY SequenceType DEF TypeInv
<1>2. BlocksFor(Len(hist[s])) <= BlocksFor(Frontier(s)) /\ BlocksFor(Len(hist[s])) \in Nat
  BY <1>1, BlocksForMonotone, BlocksForType
<1> QED BY <1>1, <1>2 DEF LengthInv, LengthsOf, RunLengths

LEMMA LengthCopyTail ==
  ASSUME TypeInv, LengthInv, NEW s \in Seqs, CopyTail(s)
  PROVE  LengthInv'
<1>1. /\ Alone(s) /\ pc[s] = "copy" /\ pc'[s] \in {"copied", "rollback"} /\ s \in Owners
      /\ hist'[s] = hist[s] /\ tokens'[s] = tokens[s] /\ before'[s] = before[s] /\ SameMeta(s)
  BY CopyTailEffect, Typed
<1>2. Len(blocks'[s]) = Len(blocks[s])
  <2>1. blocks[s] \in Seq(Blocks)
    BY SequenceType DEF TypeInv
  <2>2. \A b, i : Len([blocks[s] EXCEPT ![i] = b]) = Len(blocks[s])
    BY <2>1
  <2>3. blocks'[s] = blocks[s] \/ \E b \in Blocks : blocks'[s] = [blocks[s] EXCEPT ![TailIndex(s)] = b]
    BY CopyTailEffect
  <2> QED BY <2>2, <2>3
<1>3. LengthsOf(s)'
  BY <1>1, <1>2 DEF LengthInv, LengthsOf, Unused
<1>4. RunLengths(s)'
  BY <1>1 DEF LengthInv, RunLengths, SameMeta, Executing, Undoable
<1> QED BY <1>1, <1>3, <1>4, LengthAlone

LEMMA LengthAllocNext ==
  ASSUME TypeInv, LengthInv, NEW s \in Seqs, AllocNext(s)
  PROVE  LengthInv'
<1>1. /\ Alone(s) /\ pc[s] = "alloc" /\ pc'[s] \in {"alloc", "rollback"} /\ s \in Owners
      /\ hist'[s] = hist[s] /\ SameSeq(s)
      /\ Len(blocks[s]) < BlocksFor(Frontier(s))
  BY AllocNextEffect, Typed
<1>2. /\ Len(blocks[s]) \in Nat /\ blocks[s] \in Seq(Blocks)
      /\ BlocksFor(Len(hist[s])) \in Nat /\ BlocksFor(Frontier(s)) \in Nat
  BY SequenceType, BlocksForType DEF TypeInv
<1>3. pc'[s] = "alloc" => Len(blocks'[s]) = Len(blocks[s]) + 1
  BY <1>2, AllocNextEffect, AppendProperties
<1>4. pc'[s] = "alloc" => /\ BlocksFor(Len(hist[s])) <= Len(blocks'[s])
                          /\ Len(blocks'[s]) <= BlocksFor(Frontier(s))
  BY <1>1, <1>2, <1>3, StartFits
<1>5. LengthsOf(s)'
  BY <1>1 DEF LengthsOf, Unused
<1>6. RunLengths(s)'
  BY <1>1, <1>4 DEF LengthInv, RunLengths, SameSeq, SameRun, SameUndo, SameMeta, Executing,
     Undoable, Frontier
<1> QED BY <1>1, <1>5, <1>6, LengthAlone

LEMMA LengthEvict ==
  ASSUME TypeInv, LengthInv, NEW s \in Seqs, Evict(s)
  PROVE  LengthInv'
<1>1. /\ Alone(s) /\ pc[s] = "evict" /\ pc'[s] = "evict" /\ blocks'[s] = blocks[s]
      /\ hist'[s] = hist[s] /\ SameSeq(s) /\ s \in Owners
  BY EvictEffect, Typed
<1>2. LengthsOf(s)'
  BY <1>1 DEF LengthsOf, Unused
<1>3. RunLengths(s)'
  BY <1>1 DEF LengthInv, RunLengths, SameSeq, SameRun, SameUndo, SameMeta, Executing,
     Undoable, Frontier
<1> QED BY <1>1, <1>2, <1>3, LengthAlone

\* note_tokens ends: the chunk has become history.
LEMMA LengthAdvance ==
  ASSUME TypeInv, LengthInv, NEW s \in Seqs, Alone(s), pc[s] = "note", pc'[s] = "idle",
         hist'[s] = hist[s] \o tokens[s], blocks'[s] = blocks[s],
         deferring'[s] \/ metadata'[s] # <<>> => s \in SessionSeqs
  PROVE  LengthInv'
<1>1. s \in Owners /\ Frontier(s) \in Nat /\ Len(hist'[s]) = Frontier(s)
      /\ Len(blocks[s]) \in Nat
  BY SequenceType DEF TypeInv
<1>2. /\ Len(blocks[s]) <= BlocksFor(Frontier(s)) /\ BlocksFor(Frontier(s)) \in Nat
      /\ BlocksFor(Frontier(s)) <= Len(blocks[s])
  BY <1>1, StartFits, BlocksForType DEF TypeInv, Progress, ProgressOf
<1>3. LengthsOf(s)'
  <2>1. Len(blocks'[s]) = BlocksFor(Len(hist'[s]))
    BY <1>1, <1>2
  <2> QED BY <2>1 DEF LengthsOf, Unused
<1>4. RunLengths(s)'
  BY RunLengthsIdle DEF Executing
<1> QED BY <1>1, <1>3, <1>4, LengthAlone

LEMMA LengthPublish ==
  ASSUME TypeInv, LengthInv, NEW s \in Seqs, Publish(s)
  PROVE  LengthInv'
<1>1. /\ Alone(s) /\ pc[s] = "idle" /\ pc'[s] = "idle" /\ SameTable(s) /\ s \in Owners
      /\ metadata'[s] = <<>> /\ deferring'[s] = FALSE
  BY PublishEffect, Typed
<1>2. LengthsOf(s)'
  BY <1>1 DEF LengthInv, LengthsOf, SameTable, Unused
<1>3. RunLengths(s)'
  BY <1>1, RunLengthsIdle DEF Executing
<1> QED BY <1>1, <1>2, <1>3, LengthAlone

LEMMA LengthRollback ==
  ASSUME TypeInv, LengthInv, NEW s \in Seqs,
         RollbackBlock(s) \/ RestoreTail(s) \/ RollbackEnd(s)
  PROVE  LengthInv'
<1>1. s \in Owners /\ pc[s] = "rollback" /\ Alone(s) /\ hist'[s] = hist[s] /\ SameMeta(s)
  BY RollbackBlockEffect, RestoreTailEffect, RollbackEndEffect, Typed DEF SameTable, SameSeq
<1>2. Len(before[s]) = BlocksFor(Len(hist[s])) /\ Len(tokens[s]) <= MaxChunk
  BY <1>1 DEF LengthInv, RunLengths, Executing, Undoable
<1>3. CASE pc'[s] \in {"rollback", "restored"}
  <2>1. tokens'[s] = tokens[s] /\ before'[s] = before[s]
    BY <1>3, RollbackBlockEffect, RestoreTailEffect, RollbackEndEffect
       DEF SameSeq, SameRun, SameUndo
  <2>2. LengthsOf(s)'
    BY <1>3 DEF LengthsOf, Unused
  <2>3. RunLengths(s)'
    BY <1>1, <1>2, <1>3, <2>1 DEF LengthInv, RunLengths, SameMeta
  <2> QED BY <1>1, <2>2, <2>3, LengthAlone
<1>4. CASE RollbackEnd(s)
  <2>1. pc'[s] = "idle" /\ Len(blocks[s]) = Len(before[s]) /\ blocks'[s] = blocks[s]
    BY <1>4, RollbackEndEffect DEF SameTable
  <2>2. LengthsOf(s)'
    BY <1>1, <1>2, <2>1 DEF LengthsOf, Unused
  <2>3. RunLengths(s)'
    BY <1>1, <2>1, RunLengthsIdle DEF LengthInv, RunLengths, SameMeta, Executing
  <2> QED BY <1>1, <2>2, <2>3, LengthAlone
<1> QED BY <1>3, <1>4, RollbackBlockEffect, RestoreTailEffect

LEMMA LengthExecution ==
  ASSUME TypeInv, LengthInv, NEW s \in Seqs, Execution(s)
  PROVE  LengthInv'
<1> USE StartFits DEF SameSeq, SameRun, SameUndo, Executing, Undoable
<1>1. CASE RetainTail(s)
  BY <1>1, RetainTailEffect, LengthSteady
<1>2. CASE Prepare(s)
  BY <1>2, PrepareEffect, LengthSteady
<1>3. CASE CopyTail(s)
  BY <1>3, LengthCopyTail
<1>4. CASE DropReplaced(s)
  BY <1>4, DropReplacedEffect, LengthSteady
<1>5. CASE AllocNext(s)
  BY <1>5, LengthAllocNext
<1>6. CASE WriteRows(s)
  BY <1>6, WriteRowsEffect, LengthSteady
<1>7. CASE Fail(s)
  BY <1>7, FailEffect, LengthSteady
<1>8. CASE Commit(s)
  BY <1>8, CommitEffect, LengthSteady
<1>9. CASE Evict(s)
  BY <1>9, LengthEvict
<1>10. CASE CommitEnd(s)
  <2>1. Len(hist[s]) \div BlockSize \in Nat
    BY SequenceType, DivBounds, KvPoolConstants DEF TypeInv
  <2> QED BY <1>10, <2>1, CommitEndEffect, LengthSteady
<1>11. CASE Note(s)
  <2>1. /\ noted[s] \in Nat /\ Len(hist[s]) \div BlockSize \in Nat
        /\ pc[s] = "note" => Len(hist[s]) \div BlockSize <= noted[s]
    BY Typed, SequenceType, DivBounds, KvPoolConstants DEF TypeInv, LengthInv, RunLengths
  <2> QED BY <1>11, <2>1, NoteEffect, LengthSteady
<1>12. CASE NoteEnd(s)
  BY <1>12, NoteEndEffect, LengthAdvance DEF LengthInv, RunLengths, SameMeta
<1>13. CASE NoteDeferred(s)
  BY <1>13, NoteDeferredEffect, LengthAdvance DEF LengthInv, RunLengths
<1>14. CASE RollbackBlock(s) \/ RestoreTail(s) \/ RollbackEnd(s)
  BY <1>14, LengthRollback
<1> QED BY <1>1, <1>2, <1>3, <1>4, <1>5, <1>6, <1>7, <1>8, <1>9, <1>10, <1>11, <1>12, <1>13,
           <1>14 DEF Execution

LEMMA LengthReturning ==
  ASSUME TypeInv, LengthInv, NEW o \in Owners, StartsReturn(o) \/ Returning(o)
  PROVE  LengthInv'
<1>1. CASE StartsReturn(o)
  <2>1. Alone(o) /\ pc'[o] = "return" /\ (o \in Seqs => SameSeq(o))
    BY <1>1 DEF StartsReturn
  <2>2. LengthsOf(o)'
    BY <2>1 DEF LengthsOf, Unused
  <2>3. o \in Seqs => RunLengths(o)'
    BY <2>1, RunLengthsIdle DEF LengthInv, RunLengths, SameSeq, SameMeta, Executing
  <2> QED BY <2>1, <2>2, <2>3, LengthAlone
<1>2. CASE ReturnBlock(o)
  <2>1. Alone(o) /\ pc'[o] = "return" /\ (o \in Seqs => SameSeq(o))
    BY <1>2, ReturnBlockEffect
  <2>2. LengthsOf(o)'
    BY <2>1 DEF LengthsOf, Unused
  <2>3. o \in Seqs => RunLengths(o)'
    BY <2>1, RunLengthsIdle DEF LengthInv, RunLengths, SameSeq, SameMeta, Executing
  <2> QED BY <2>1, <2>2, <2>3, LengthAlone
<1>3. CASE ReturnEnd(o)
  <2>1. /\ Alone(o) /\ pc'[o] = Unused /\ blocks'[o] = <<>> /\ hist'[o] = <<>> /\ head'[o] = 0
        /\ o \in Seqs => metadata'[o] = <<>> /\ (deferring'[o] <=> o \in SessionSeqs)
    BY <1>3, ReturnEndEffect
  <2>2. LengthsOf(o)'
    BY <2>1 DEF LengthsOf, Unused
  <2>3. o \in Seqs => RunLengths(o)'
    BY <2>1, RunLengthsIdle DEF Executing, Unused
  <2> QED BY <2>1, <2>2, <2>3, LengthAlone
<1> QED BY <1>1, <1>2, <1>3 DEF Returning

LEMMA LengthStartsCopy ==
  ASSUME TypeInv, LengthInv, NEW from, NEW to, StartsCopy(from, to)
  PROVE  LengthInv'
<1> USE DEF StartsCopy, SameTable
<1>1. blocks[from] \in Seq(Blocks) /\ head[from] \in Nat /\ head[from] <= Len(blocks[from])
  BY Typed
<1>2. /\ Len(blocks'[to]) = head[from] /\ Len(blocks'[to]) <= Len(blocks'[from])
      /\ \A i \in 1 .. Len(blocks'[to]) : blocks'[to][i] = blocks'[from][i]
  BY <1>1, PrefixOf
<1>3. LengthsOf(to)'
  BY <1>2 DEF LengthInv, LengthsOf, Unused
<1>4. LengthsOf(from)'
  BY DEF LengthInv, LengthsOf, Unused
<1>5. ASSUME NEW q \in Owners \ {from, to} PROVE LengthsOf(q)'
  <2>1. pc[q] = "copying" => source[q] \in Owners /\ source[q] # to
    BY SourceIdle
  <2>2. CASE pc[q] = "copying" /\ source[q] = from
    BY <2>2 DEF Kept, LengthInv, LengthsOf, Unused
  <2> QED BY <2>1, <2>2, LengthsFrame DEF LengthInv
<1>6. ASSUME NEW q \in Seqs PROVE RunLengths(q)'
  <2>1. CASE q \in {from, to}
    BY <2>1, RunLengthsIdle DEF LengthInv, RunLengths, SameSeq, SameMeta, Executing
  <2>2. CASE q \notin {from, to}
    BY <2>2, Typed, RunLengthsFrame DEF LengthInv
  <2> QED BY <2>1, <2>2
<1> QED BY <1>3, <1>4, <1>5, <1>6 DEF LengthInv

LEMMA LengthCopyRef ==
  ASSUME TypeInv, LengthInv, NEW o \in Owners, CopyRef(o)
  PROVE  LengthInv'
<1>1. /\ Alone(o) /\ pc[o] = "copying" /\ pc'[o] = "copying"
      /\ Len(blocks[o]) < Len(blocks[source[o]])
      /\ blocks'[o] = Append(blocks[o], blocks[source[o]][Len(blocks[o]) + 1])
      /\ hist'[o] = hist[o] /\ source'[o] = source[o] /\ (o \in Seqs => SameSeq(o))
  BY CopyRefEffect
<1>2. source[o] \in Owners \ {o} /\ blocks'[source[o]] = blocks[source[o]]
  BY <1>1, SourceIdle DEF Alone, Kept, SameTable
<1>3. /\ blocks[o] \in Seq(Blocks) /\ blocks[source[o]] \in Seq(Blocks)
      /\ Len(blocks[o]) \in Nat /\ Len(blocks[source[o]]) \in Nat
  BY <1>2, Typed
<1>4. blocks[source[o]][Len(blocks[o]) + 1] \in Blocks
  BY <1>1, <1>3
<1>5. /\ Len(blocks'[o]) = Len(blocks[o]) + 1
      /\ \A i \in 1 .. Len(blocks[o]) : blocks'[o][i] = blocks[o][i]
      /\ blocks'[o][Len(blocks[o]) + 1] = blocks[source[o]][Len(blocks[o]) + 1]
  BY <1>1, <1>3, <1>4, AppendProperties
<1>6. /\ \A i \in 1 .. Len(blocks[o]) : blocks[o][i] = blocks[source[o]][i]
      /\ source[o] \notin SessionSeqs /\ hist[o] = <<>>
  BY <1>1 DEF LengthInv, LengthsOf
<1>7. \A i \in 1 .. Len(blocks'[o]) : blocks'[o][i] = blocks'[source[o]][i]
  <2> SUFFICES ASSUME NEW i \in 1 .. Len(blocks[o]) + 1
               PROVE  blocks'[o][i] = blocks[source[o]][i]
    BY <1>2, <1>5
  <2>1. i \in 1 .. Len(blocks[o]) \/ i = Len(blocks[o]) + 1
    BY <1>3
  <2> QED BY <2>1, <1>5, <1>6
<1>8. Len(blocks'[o]) <= Len(blocks'[source[o]])
  BY <1>1, <1>2, <1>3, <1>5
<1>9. LengthsOf(o)'
  BY <1>1, <1>6, <1>7, <1>8 DEF LengthsOf, Unused
<1>10. o \in Seqs => RunLengths(o)'
  BY <1>1, RunLengthsIdle DEF LengthInv, RunLengths, SameSeq, SameMeta, Executing
<1> QED BY <1>1, <1>9, <1>10, LengthAlone

LEMMA LengthEndsCopy ==
  ASSUME TypeInv, LengthInv, NEW o \in Owners, NEW from, EndsCopy(o, from)
  PROVE  LengthInv'
<1> USE DEF EndsCopy, SameTable
<1>1. LengthsOf(o)'
  BY DEF LengthInv, LengthsOf, Unused
<1>2. LengthsOf(from)'
  BY DEF LengthInv, LengthsOf, Unused
<1>3. ASSUME NEW q \in Owners \ {from, o} PROVE LengthsOf(q)'
  <2>1. pc[q] = "copying" => source[q] \in Owners /\ source[q] # o
    BY SourceIdle
  <2>2. CASE pc[q] = "copying" /\ source[q] = from
    BY <2>2 DEF Kept, LengthInv, LengthsOf, Unused
  <2> QED BY <2>1, <2>2, LengthsFrame DEF LengthInv
<1>4. ASSUME NEW q \in Seqs PROVE RunLengths(q)'
  <2>1. CASE q \in {from, o}
    BY <2>1, RunLengthsIdle DEF LengthInv, RunLengths, SameSeq, SameMeta, Executing
  <2>2. CASE q \notin {from, o}
    BY <2>2, Typed, RunLengthsFrame DEF LengthInv
  <2> QED BY <2>1, <2>2
<1> QED BY <1>1, <1>2, <1>3, <1>4 DEF LengthInv

LEMMA LengthInit == Init => LengthInv
<1> SUFFICES ASSUME Init PROVE LengthInv
  OBVIOUS
<1>1. ASSUME NEW o \in Owners PROVE LengthsOf(o)
  BY DEF Init, LengthsOf, Unused
<1>2. ASSUME NEW s \in Seqs PROVE RunLengths(s)
  <2>1. s \in Owners
    BY DEF Owners
  <2> QED BY <2>1 DEF Init, RunLengths, Unused, Executing, Undoable
<1> QED BY <1>1, <1>2 DEF LengthInv

\* A step of the pool is nothing but a flag, or one of these.
LEMMA NextCases ==
  ASSUME TypeInv, [Next]_vars
  PROVE  \/ Quiet
         \/ \E s \in Seqs : NewSequence(s)
         \/ \E s \in Seqs : Publish(s)
         \/ \E s \in Seqs : \E t \in Chunks(MaxLen) : MatchBegin(s, t)
         \/ \E s \in Seqs : \E t \in Chunks(MaxChunk) : ExecBegin(s, t)
         \/ \E s \in Seqs : MatchTake(s)
         \/ \E s \in Seqs : MatchEnd(s)
         \/ \E s \in Seqs : Execution(s)
         \/ \E o \in Owners : StartsReturn(o)
         \/ \E o \in Owners : Returning(o)
         \/ \E from, to \in Owners : StartsCopy(from, to)
         \/ \E o \in Owners : CopyRef(o)
         \/ \E o \in Owners : EndsCopy(o, source[o])
<1>1. CASE UNCHANGED vars
  BY <1>1, StutterEffect
<1>2. CASE Client
  <2>1. CASE \E s \in Seqs : RequestRelease(s)
    BY <2>1, RequestReleaseEffect
  <2>2. CASE \E p \in Handles : DropPrefix(p)
    BY <2>2, DropPrefixEffect
  <2>3. CASE \E s \in Seqs : \E p \in Handles : SnapshotBegin(s, p) \/ ForkBegin(p, s)
    BY <2>3, SnapshotBeginEffect, ForkBeginEffect DEF StartsCopy
  <2> QED BY <1>2, <2>1, <2>2, <2>3 DEF Client
<1>3. CASE \E s \in Seqs : Matching(s) \/ Execution(s) \/ ReturnBegin(s)
  BY <1>3, ReturnBeginEffect, Typed DEF Matching
<1>4. CASE \E o \in Owners : Returning(o) \/ Copying(o)
  BY <1>4, CopyEndEffect DEF Copying
<1> QED BY <1>1, <1>2, <1>3, <1>4 DEF Next

LEMMA LengthStep ==
  ASSUME TypeInv, LengthInv, [Next]_vars
  PROVE  LengthInv'
<1>1. CASE Quiet
  BY <1>1, LengthQuiet
<1>2. CASE \E s \in Seqs : NewSequence(s)
  BY <1>2, LengthNewSequence
<1>3. CASE \E s \in Seqs : Publish(s)
  BY <1>3, LengthPublish
<1>4. CASE \E s \in Seqs : \E t \in Chunks(MaxLen) : MatchBegin(s, t)
  BY <1>4, LengthMatchBegin
<1>5. CASE \E s \in Seqs : \E t \in Chunks(MaxChunk) : ExecBegin(s, t)
  BY <1>5, ChunkType, KvPoolConstants, LengthExecBegin
<1>6. CASE \E s \in Seqs : MatchTake(s)
  BY <1>6, LengthMatchTake
<1>7. CASE \E s \in Seqs : MatchEnd(s)
  BY <1>7, LengthMatchEnd
<1>8. CASE \E s \in Seqs : Execution(s)
  BY <1>8, LengthExecution
<1>9. CASE \E o \in Owners : StartsReturn(o) \/ Returning(o)
  BY <1>9, LengthReturning
<1>10. CASE \E from, to \in Owners : StartsCopy(from, to)
  BY <1>10, LengthStartsCopy
<1>11. CASE \E o \in Owners : CopyRef(o)
  BY <1>11, LengthCopyRef
<1>12. CASE \E o \in Owners : EndsCopy(o, source[o])
  BY <1>12, LengthEndsCopy
<1> QED BY NextCases, <1>1, <1>2, <1>3, <1>4, <1>5, <1>6, <1>7, <1>8, <1>9, <1>10, <1>11,
           <1>12

-----------------------------------------------------------------------------
(* How far the window has moved.                                           *)

\* Whatever an owner has evicted lies before the window of the history it
\* reaches; a copy starts where its source's live blocks start.
Behind(o) ==
  IF pc[o] = "copying" THEN head[o] = head[source[o]]
  ELSE head[o] * BlockSize <= EvictionStart(Reach(o))
WindowInv == \A o \in Owners : pc[o] # "return" => Behind(o)

LEMMA EvictionStartMonotone ==
  ASSUME NEW m \in Nat, NEW n \in Nat, m <= n
  PROVE  /\ EvictionStart(m) \in Nat /\ EvictionStart(m) <= m
         /\ EvictionStart(m) <= EvictionStart(n) /\ EvictionStart(n) \in Nat
  BY KvPoolConstants DEF EvictionStart

LEMMA ReachType ==
  ASSUME TypeInv, NEW o \in Owners
  PROVE  /\ Reach(o) \in Nat /\ Len(hist[o]) <= Reach(o)
         /\ head[o] * BlockSize \in Nat
<1>1. hist[o] \in Seq(Token) /\ head[o] \in Nat /\ BlockSize \in Nat
  BY Typed, KvPoolConstants
<1>2. Len(hist[o]) \in Nat /\ head[o] * BlockSize \in Nat
  BY <1>1
<1>3. o \in Seqs => Frontier(o) \in Nat /\ Len(hist[o]) <= Frontier(o)
  BY SequenceType DEF TypeInv
<1> QED BY <1>1, <1>2, <1>3 DEF Reach

\* The same of the next state.
LEMMA ReachTypes == TypeInv => \A o \in Owners : Reach(o) \in Nat
  BY ReachType

LEMMA NextReachTypes == TypeInv' => (\A o \in Owners : Reach(o) \in Nat)'
  BY ReachTypes, PTL

LEMMA BehindFrame ==
  ASSUME NEW q, Behind(q), Kept(q), pc[q] = "copying" => Kept(source[q])
  PROVE  Behind(q)'
  BY DEF Behind, Kept, SameTable, SameSeq, SameRun, Reach, Frontier

LEMMA WindowAlone ==
  ASSUME TypeInv, WindowInv, NEW o \in Owners, Alone(o), pc'[o] # "return" => Behind(o)'
  PROVE  WindowInv'
<1> SUFFICES ASSUME NEW q \in Owners \ {o}, pc'[q] # "return" PROVE Behind(q)'
  BY DEF WindowInv
<1>1. Kept(q) /\ (pc[q] = "copying" => source[q] \in Owners \ {o})
  BY SourceIdle DEF Alone
<1>2. pc[q] # "return"
  BY <1>1 DEF Kept
<1> QED BY <1>1, <1>2, BehindFrame DEF Alone, WindowInv

LEMMA BehindSteady ==
  ASSUME TypeInv, TypeInv', NEW o \in Owners, Behind(o), pc[o] # "copying", pc'[o] # "copying",
         head'[o] = head[o], Reach(o) <= Reach(o)'
  PROVE  Behind(o)'
<1>1. /\ Reach(o) \in Nat /\ Reach(o)' \in Nat /\ head[o] * BlockSize \in Nat
  BY ReachType, NextReachTypes
<1>2. EvictionStart(Reach(o)) \in Nat /\ EvictionStart(Reach(o)') \in Nat
      /\ EvictionStart(Reach(o)) <= EvictionStart(Reach(o)')
  BY <1>1, EvictionStartMonotone
<1>3. head[o] * BlockSize <= EvictionStart(Reach(o))
  BY DEF Behind
<1>4. head[o] * BlockSize <= EvictionStart(Reach(o)')
  BY <1>1, <1>2, <1>3
<1> QED BY <1>4 DEF Behind, EvictionStart

LEMMA WindowExecution ==
  ASSUME TypeInv, TypeInv', WindowInv, NEW s \in Seqs, Execution(s)
  PROVE  WindowInv'
<1>1. /\ s \in Owners /\ Len(hist[s]) \in Nat /\ Frontier(s) \in Nat
      /\ Len(hist[s]) <= Frontier(s)
      /\ Frontier(s) = Len(hist[s] \o tokens[s])
  BY SequenceType DEF TypeInv
<1>2. ASSUME Alone(s), pc[s] \notin {"return", "copying"}, pc'[s] \notin {"return", "copying"},
             head'[s] = head[s], Reach(s) <= Reach(s)'
      PROVE  WindowInv'
  BY <1>1, <1>2, BehindSteady, WindowAlone DEF WindowInv
<1>3. ASSUME pc[s] \in {"idle", "retain", "prepare", "copy", "copied", "alloc", "computed",
                        "rollback", "restored"},
             hist'[s] = hist[s],
             pc'[s] \in {"idle", "prepare", "copy", "copied", "alloc", "computed",
                         "rollback", "restored"}
      PROVE  Reach(s) <= Reach(s)'
  <2>1. Reach(s) = Len(hist[s])
    BY <1>3 DEF Reach
  <2>2. Reach(s)' = Len(hist'[s])
    BY <1>3 DEF Reach
  <2> QED BY <2>1, <2>2, <1>1, <1>3
<1>4. ASSUME pc[s] \in {"evict", "note"}, hist'[s] = hist[s], tokens'[s] = tokens[s],
             pc'[s] \in {"evict", "note"}
      PROVE  Reach(s) <= Reach(s)'
  BY <1>1, <1>4 DEF Reach, Frontier
<1>5. ASSUME pc[s] = "note", pc'[s] = "idle", hist'[s] = hist[s] \o tokens[s]
      PROVE  Reach(s) <= Reach(s)'
  BY <1>1, <1>5 DEF Reach
<1> USE <1>1, <1>2 DEF SameTable, SameSeq, SameRun
<1>6. CASE RetainTail(s)
  BY <1>6, <1>3, RetainTailEffect
<1>7. CASE Prepare(s)
  BY <1>7, <1>3, PrepareEffect
<1>8. CASE CopyTail(s)
  BY <1>8, <1>3, CopyTailEffect
<1>9. CASE DropReplaced(s)
  BY <1>9, <1>3, DropReplacedEffect
<1>10. CASE AllocNext(s)
  BY <1>10, <1>3, AllocNextEffect
<1>11. CASE WriteRows(s)
  BY <1>11, <1>3, WriteRowsEffect
<1>12. CASE Fail(s)
  BY <1>12, <1>3, FailEffect
<1>13. CASE Commit(s)
  <2>1. Reach(s) <= Reach(s)'
    BY <1>13, CommitEffect DEF Reach, Frontier
  <2> QED BY <1>13, <2>1, CommitEffect
<1>14. CASE Evict(s)
  <2>1. /\ Alone(s) /\ pc'[s] = "evict" /\ CanEvict(s) /\ head'[s] = head[s] + 1
        /\ hist'[s] = hist[s] /\ tokens'[s] = tokens[s]
    BY <1>14, EvictEffect
  <2>2. Behind(s)'
    BY <2>1 DEF Behind, CanEvict, Reach, Frontier, EvictionStart
  <2> QED BY <2>1, <2>2, WindowAlone
<1>15. CASE CommitEnd(s)
  BY <1>15, <1>4, CommitEndEffect
<1>16. CASE Note(s)
  BY <1>16, <1>4, NoteEffect
<1>17. CASE NoteEnd(s)
  BY <1>17, <1>5, NoteEndEffect
<1>18. CASE NoteDeferred(s)
  BY <1>18, <1>5, NoteDeferredEffect
<1>19. CASE RollbackBlock(s)
  BY <1>19, <1>3, RollbackBlockEffect
<1>20. CASE RestoreTail(s)
  BY <1>20, <1>3, RestoreTailEffect
<1>21. CASE RollbackEnd(s)
  BY <1>21, <1>3, RollbackEndEffect
<1> QED BY <1>6, <1>7, <1>8, <1>9, <1>10, <1>11, <1>12, <1>13, <1>14, <1>15, <1>16, <1>17,
           <1>18, <1>19, <1>20, <1>21 DEF Execution

LEMMA WindowMatching ==
  ASSUME TypeInv, TypeInv', LengthInv, LengthInv', WindowInv, NEW s \in Seqs,
         \/ NewSequence(s) \/ Publish(s) \/ MatchTake(s) \/ MatchEnd(s)
         \/ \E t \in Chunks(MaxLen) : MatchBegin(s, t)
         \/ \E t \in Chunks(MaxChunk) : ExecBegin(s, t)
  PROVE  WindowInv'
<1>1. s \in Owners /\ Len(hist[s]) \in Nat
  BY SequenceType DEF TypeInv
<1>2. ASSUME Alone(s), pc[s] \notin {"return", "copying"}, pc'[s] \notin {"return", "copying"},
             head'[s] = head[s], Reach(s) <= Reach(s)'
      PROVE  WindowInv'
  BY <1>1, <1>2, BehindSteady, WindowAlone DEF WindowInv
<1>3. ASSUME pc[s] \notin {"evict", "note"}, pc'[s] \notin {"evict", "note"},
             hist'[s] = hist[s] \/ hist[s] = <<>>
      PROVE  Reach(s) <= Reach(s)'
  <2>1. Reach(s) = Len(hist[s]) /\ Reach(s)' = Len(hist'[s])
    BY <1>3 DEF Reach
  <2>2. Reach(s)' \in Nat
    BY <1>1, NextReachTypes
  <2> QED BY <2>1, <2>2, <1>1, <1>3
<1> USE <1>1, <1>2 DEF SameTable, Unused
<1>4. CASE NewSequence(s)
  BY <1>4, <1>3, NewSequenceEffect
<1>5. CASE Publish(s)
  BY <1>5, <1>3, PublishEffect
<1>6. CASE MatchTake(s)
  BY <1>6, <1>3, MatchTakeEffect
<1>7. CASE \E t \in Chunks(MaxLen) : MatchBegin(s, t)
  BY <1>7, <1>3, MatchBeginEffect
<1>8. CASE \E t \in Chunks(MaxChunk) : ExecBegin(s, t)
  BY <1>8, <1>3, ExecBeginEffect
<1>9. CASE MatchEnd(s)
  <2>1. hist[s] = <<>>
    BY <1>9, MatchEndEffect DEF LengthInv, LengthsOf
  <2> QED BY <1>9, <2>1, <1>3, MatchEndEffect
<1> QED BY <1>4, <1>5, <1>6, <1>7, <1>8, <1>9

LEMMA WindowStartsCopy ==
  ASSUME TypeInv, WindowInv, NEW from, NEW to, StartsCopy(from, to)
  PROVE  WindowInv'
<1> USE DEF StartsCopy, SameTable
<1>1. Behind(to)'
  BY DEF Behind
<1>2. Behind(from)'
  <2>1. Behind(from)
    BY DEF WindowInv
  <2>2. Reach(from)' = Reach(from)
    BY DEF Reach
  <2> QED BY <2>1, <2>2 DEF Behind, EvictionStart
<1>3. ASSUME NEW q \in Owners \ {from, to}, pc'[q] # "return" PROVE Behind(q)'
  <2>1. pc[q] = "copying" => source[q] \in Owners /\ source[q] # to
    BY SourceIdle
  <2>2. Kept(q) /\ Behind(q)
    BY <1>3 DEF WindowInv, Kept
  <2>3. CASE pc[q] = "copying" /\ source[q] = from
    BY <2>2, <2>3 DEF Kept, Behind
  <2> QED BY <2>1, <2>2, <2>3, BehindFrame
<1> QED BY <1>1, <1>2, <1>3 DEF WindowInv

LEMMA WindowEndsCopy ==
  ASSUME TypeInv, WindowInv, NEW o \in Owners, NEW from, EndsCopy(o, from)
  PROVE  WindowInv'
<1> USE DEF EndsCopy, SameTable
<1>1. Behind(from) /\ Behind(o)
  BY DEF WindowInv
<1>2. Reach(from)' = Reach(from) /\ Reach(o)' = Reach(from)
  BY DEF Reach
<1>3. Behind(from)'
  BY <1>1, <1>2 DEF Behind, EvictionStart
<1>4. Behind(o)'
  BY <1>1, <1>2 DEF Behind, EvictionStart
<1>5. ASSUME NEW q \in Owners \ {from, o}, pc'[q] # "return" PROVE Behind(q)'
  <2>1. pc[q] = "copying" => source[q] \in Owners /\ source[q] # o
    BY SourceIdle
  <2>2. Kept(q) /\ Behind(q)
    BY <1>5 DEF WindowInv, Kept
  <2>3. CASE pc[q] = "copying" /\ source[q] = from
    BY <2>2, <2>3 DEF Kept, Behind
  <2> QED BY <2>1, <2>2, <2>3, BehindFrame
<1> QED BY <1>3, <1>4, <1>5 DEF WindowInv

LEMMA WindowInit == Init => WindowInv
<1> SUFFICES ASSUME Init, NEW o \in Owners PROVE Behind(o)
  BY DEF WindowInv
<1>1. head[o] = 0 /\ hist[o] = <<>> /\ pc[o] = Unused
  BY DEF Init
<1>2. Reach(o) = 0 /\ head[o] * BlockSize = 0
  BY <1>1, KvPoolConstants DEF Reach, Unused
<1> QED BY <1>1, <1>2, EvictionStartMonotone DEF Behind, Unused

LEMMA WindowStep ==
  ASSUME TypeInv, TypeInv', LengthInv, LengthInv', WindowInv, [Next]_vars
  PROVE  WindowInv'
<1>1. CASE Quiet
  <2> SUFFICES ASSUME NEW q \in Owners, pc'[q] # "return" PROVE Behind(q)'
    BY DEF WindowInv
  <2>1. pc[q] = "copying" => source[q] \in Owners
    BY SourceIdle
  <2>2. Kept(q) /\ Behind(q)
    BY <1>1 DEF Quiet, Kept, WindowInv
  <2> QED BY <1>1, <2>1, <2>2, BehindFrame DEF Quiet
<1>2. CASE \E s \in Seqs : NewSequence(s)
  BY <1>2, WindowMatching
<1>3. CASE \E s \in Seqs : Publish(s)
  BY <1>3, WindowMatching
<1>4. CASE \E s \in Seqs : \E t \in Chunks(MaxLen) : MatchBegin(s, t)
  BY <1>4, WindowMatching
<1>5. CASE \E s \in Seqs : \E t \in Chunks(MaxChunk) : ExecBegin(s, t)
  BY <1>5, WindowMatching
<1>6. CASE \E s \in Seqs : MatchTake(s)
  BY <1>6, WindowMatching
<1>7. CASE \E s \in Seqs : MatchEnd(s)
  BY <1>7, WindowMatching
<1>8. CASE \E s \in Seqs : Execution(s)
  BY <1>8, WindowExecution
<1>9. CASE \E o \in Owners : StartsReturn(o)
  BY <1>9, WindowAlone DEF StartsReturn
<1>10. CASE \E o \in Owners : ReturnBlock(o)
  BY <1>10, ReturnBlockEffect, WindowAlone
<1>11. CASE \E o \in Owners : ReturnEnd(o)
  <2>1. PICK o \in Owners : ReturnEnd(o)
    BY <1>11
  <2>2. Alone(o) /\ pc'[o] = Unused /\ hist'[o] = <<>> /\ head'[o] = 0
    BY <2>1, ReturnEndEffect
  <2>3. Reach(o)' \in Nat
    BY NextReachTypes
  <2>4. head'[o] * BlockSize = 0 /\ EvictionStart(Reach(o)') \in Nat
    BY <2>2, <2>3, EvictionStartMonotone, KvPoolConstants
  <2>5. Behind(o)'
    BY <2>2, <2>4 DEF Behind, Unused, EvictionStart
  <2> QED BY <2>2, <2>5, WindowAlone
<1>12. CASE \E from, to \in Owners : StartsCopy(from, to)
  BY <1>12, WindowStartsCopy
<1>13. CASE \E o \in Owners : CopyRef(o)
  <2>1. PICK o \in Owners : CopyRef(o)
    BY <1>13
  <2>2. /\ Alone(o) /\ pc[o] = "copying" /\ pc'[o] = "copying" /\ head'[o] = head[o]
        /\ source'[o] = source[o]
    BY <2>1, CopyRefEffect
  <2>3. source[o] \in Owners \ {o} /\ head'[source[o]] = head[source[o]] /\ Behind(o)
    BY <2>2, SourceIdle DEF Alone, Kept, SameTable, WindowInv
  <2>4. Behind(o)'
    BY <2>2, <2>3 DEF Behind
  <2> QED BY <2>2, <2>4, WindowAlone
<1>14. CASE \E o \in Owners : EndsCopy(o, source[o])
  BY <1>14, WindowEndsCopy
<1> QED BY NextCases, <1>1, <1>2, <1>3, <1>4, <1>5, <1>6, <1>7, <1>8, <1>9, <1>10, <1>11,
           <1>12, <1>13, <1>14 DEF Returning

-----------------------------------------------------------------------------
(* Theorems.                                                               *)

\* The block tables are as long as the histories need.
TableInv == TypeInv /\ LengthInv /\ WindowInv

LEMMA TableInvariant == Spec => []TableInv
<1>1. Init => TableInv
  BY TypeInit, LengthInit, WindowInit DEF TableInv
<1>2. TableInv /\ [Next]_vars => TableInv'
  <2> SUFFICES ASSUME TableInv, [Next]_vars PROVE TableInv'
    OBVIOUS
  <2>1. TypeInv /\ LengthInv /\ WindowInv
    BY DEF TableInv
  <2>2. TypeInv'
    BY <2>1, TypeStep
  <2>3. LengthInv'
    BY <2>1, LengthStep
  <2>4. WindowInv'
    BY <2>1, <2>2, <2>3, WindowStep
  <2> QED BY <2>2, <2>3, <2>4 DEF TableInv
<1> QED BY <1>1, <1>2, PTL DEF Spec

LEMMA TableWindow ==
  ASSUME TableInv
  PROVE  WindowRetained
<1> SUFFICES ASSUME Windowed, NEW o \in Owners, pc[o] \notin {Unused, "return", "copying"}
             PROVE  head[o] * BlockSize <= Reach(o) - Smaller(Window, Reach(o))
  BY DEF WindowRetained
<1>1. head[o] * BlockSize <= EvictionStart(Reach(o)) /\ Reach(o) \in Nat
      /\ head[o] * BlockSize \in Nat
  BY ReachType DEF TableInv, WindowInv, Behind
<1>2. EvictionStart(Reach(o)) = Reach(o) - Smaller(Window, Reach(o))
  BY <1>1, KvPoolConstants DEF EvictionStart, Smaller
<1> QED BY <1>1, <1>2

\* A windowed sequence or prefix never gives up a block that holds one of the
\* last Window positions of its history: kv_evict stops before the window's
\* start, a fork starts where its prefix's live blocks start, and a reused
\* sequence starts again at its first block.
THEOREM WindowCorrect == Spec => []WindowRetained
  BY TableInvariant, TableWindow, PTL
=============================================================================
