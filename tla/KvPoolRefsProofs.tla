-------------------------- MODULE KvPoolRefsProofs --------------------------
(***************************************************************************)
(* Reference counts of the key/value pool: every block is counted exactly, *)
(* none leaks, the blocks a sequence writes or is about to hash are its    *)
(* own, and a rollback puts the block table back.                          *)
(***************************************************************************)
EXTENDS KvPoolTableProofs, WellFoundedInduction

-----------------------------------------------------------------------------
(* References.                                                             *)

Index == {i \in Int : i >= -1}

\* Slot in the next state, for a place that depends on the current one.
NextSlot(o, i) ==
  IF i > 0
  THEN IF head'[o] < i /\ i <= Len(blocks'[o]) THEN blocks'[o][i] ELSE NoBlock
  ELSE IF o \notin Seqs THEN NoBlock
  ELSE IF i = 0 THEN tail'[o] ELSE dropping'[o]

LEMMA SlotOf ==
  ASSUME TypeInv, NEW o \in Owners, NEW i \in Index
  PROVE  /\ Slot(o, i) \in Blocks \cup {NoBlock}
         /\ Slot(o, i) # NoBlock => i <= Len(blocks[o])
<1>1. /\ blocks[o] \in Seq(Blocks) /\ head[o] \in Nat /\ Len(blocks[o]) \in Nat
      /\ o \in Seqs => /\ tail[o] \in Blocks \cup {NoBlock}
                       /\ dropping[o] \in Blocks \cup {NoBlock}
  BY Typed
<1>2. CASE i > 0
  <2>1. i \in Nat /\ i >= 1
    BY <1>2 DEF Index
  <2>2. i <= Len(blocks[o]) => blocks[o][i] \in Blocks
    BY <1>1, <2>1
  <2> QED BY <1>2, <2>2 DEF Slot
<1>3. CASE ~ i > 0
  BY <1>1, <1>3 DEF Slot, Index
<1> QED BY <1>2, <1>3

LEMMA RefsAre ==
  TypeInv => \A b \in Blocks : Refs(b) = {r \in Owners \X Index : Slot(r[1], r[2]) = b}
<1> SUFFICES ASSUME TypeInv, NEW b \in Blocks
             PROVE  Refs(b) = {r \in Owners \X Index : Slot(r[1], r[2]) = b}
  OBVIOUS
<1>1. b # NoBlock
  BY KvPoolConstants
<1>2. ASSUME NEW r \in Refs(b)
      PROVE  r \in {x \in Owners \X Index : Slot(x[1], x[2]) = b}
  <2>1. PICK o \in Owners : r \in {o} \X {i \in -1 .. Len(blocks[o]) : Slot(o, i) = b}
    BY DEF Refs
  <2>2. r[1] = o /\ r[2] \in -1 .. Len(blocks[o]) /\ Slot(o, r[2]) = b
        /\ r = <<r[1], r[2]>>
    BY <2>1
  <2>3. r[2] \in Index
    BY <2>2, Typed DEF Index
  <2> QED BY <2>2, <2>3
<1>3. ASSUME NEW r \in Owners \X Index, Slot(r[1], r[2]) = b
      PROVE  r \in Refs(b)
  <2>1. r[1] \in Owners /\ r[2] \in Index /\ r = <<r[1], r[2]>>
    OBVIOUS
  <2>2. r[2] <= Len(blocks[r[1]])
    BY <1>1, <1>3, <2>1, SlotOf
  <2>3. r[2] \in -1 .. Len(blocks[r[1]])
    BY <2>1, <2>2, Typed DEF Index
  <2>4. r \in {r[1]} \X {i \in -1 .. Len(blocks[r[1]]) : Slot(r[1], i) = b}
    BY <1>3, <2>1, <2>3
  <2> QED BY <2>1, <2>4 DEF Refs
<1> QED BY <1>2, <1>3

LEMMA RefsAreNext ==
  TypeInv' => (\A b \in Blocks : Refs(b) = {r \in Owners \X Index : Slot(r[1], r[2]) = b})'
  BY RefsAre, PTL

LEMMA SlotNext ==
  ASSUME NEW o, NEW i
  PROVE  Slot(o, i)' = NextSlot(o, i)
  BY DEF Slot, NextSlot

LEMMA NextRefs ==
  ASSUME TypeInv', NEW b \in Blocks
  PROVE  Refs(b)' = {r \in Owners \X Index : NextSlot(r[1], r[2]) = b}
  BY RefsAreNext DEF Slot, NextSlot

LEMMA Named ==
  ASSUME TypeInv, NEW b \in Blocks, NEW o \in Owners, NEW i \in Index
  PROVE  <<o, i>> \in Refs(b) <=> Slot(o, i) = b
  BY RefsAre

SlotsKept(o) == \A i \in Index : NextSlot(o, i) = Slot(o, i)
SlotsKeptBut(o, k) == \A i \in Index \ {k} : NextSlot(o, i) = Slot(o, i)

LEMMA KeptSlots ==
  ASSUME TypeInv, NEW q \in Owners, Kept(q)
  PROVE  SlotsKept(q)
  BY Typed DEF SlotsKept, Kept, SameTable, SameSeq, SameRun, SameUndo, Slot, NextSlot

LEMMA RefsSame ==
  ASSUME TypeInv, TypeInv', \A q \in Owners : SlotsKept(q), NEW b \in Blocks
  PROVE  Refs(b)' = Refs(b)
<1>1. \A r \in Owners \X Index : NextSlot(r[1], r[2]) = Slot(r[1], r[2])
  BY DEF SlotsKept
<1> QED BY <1>1, RefsAre, NextRefs

LEMMA RefsAdd ==
  ASSUME TypeInv, TypeInv', NEW o \in Owners, NEW k \in Index, NEW b \in Blocks,
         \A q \in Owners \ {o} : SlotsKept(q), SlotsKeptBut(o, k),
         Slot(o, k) = NoBlock, NextSlot(o, k) = b, NEW c \in Blocks
  PROVE  /\ c # b => Refs(c)' = Refs(c)
         /\ c = b => Refs(c)' = Refs(c) \cup {<<o, k>>} /\ <<o, k>> \notin Refs(c)
<1>1. ASSUME NEW r \in Owners \X Index, r # <<o, k>>
      PROVE  NextSlot(r[1], r[2]) = Slot(r[1], r[2])
  BY <1>1 DEF SlotsKept, SlotsKeptBut
<1>2. <<o, k>> \in Owners \X Index /\ NoBlock # c
  BY KvPoolConstants
<1>3. /\ Refs(c) = {r \in Owners \X Index : Slot(r[1], r[2]) = c}
      /\ Refs(c)' = {r \in Owners \X Index : NextSlot(r[1], r[2]) = c}
  BY RefsAre, NextRefs
<1> QED BY <1>1, <1>2, <1>3

LEMMA RefsDrop ==
  ASSUME TypeInv, TypeInv', NEW o \in Owners, NEW k \in Index, NEW b \in Blocks,
         \A q \in Owners \ {o} : SlotsKept(q), SlotsKeptBut(o, k),
         Slot(o, k) = b, NextSlot(o, k) = NoBlock, NEW c \in Blocks
  PROVE  /\ c # b => Refs(c)' = Refs(c)
         /\ c = b => Refs(c)' = Refs(c) \ {<<o, k>>} /\ <<o, k>> \in Refs(c)
<1>1. ASSUME NEW r \in Owners \X Index, r # <<o, k>>
      PROVE  NextSlot(r[1], r[2]) = Slot(r[1], r[2])
  BY <1>1 DEF SlotsKept, SlotsKeptBut
<1>2. <<o, k>> \in Owners \X Index /\ NoBlock # c
  BY KvPoolConstants
<1>3. /\ Refs(c) = {r \in Owners \X Index : Slot(r[1], r[2]) = c}
      /\ Refs(c)' = {r \in Owners \X Index : NextSlot(r[1], r[2]) = c}
  BY RefsAre, NextRefs
<1> QED BY <1>1, <1>2, <1>3

\* The entry k of s is replaced; what it named is kept to be dropped.
Swaps(s, k, old, new) ==
  /\ k > 0 /\ Slot(s, k) = old /\ NextSlot(s, k) = new
  /\ Slot(s, -1) = NoBlock /\ NextSlot(s, -1) = old
  /\ \A i \in Index \ {k, -1} : NextSlot(s, i) = Slot(s, i)

LEMMA RefsSwap ==
  ASSUME TypeInv, TypeInv', NEW s \in Owners, NEW k \in Index, NEW x \in Blocks, NEW y \in Blocks,
         x # y, \A q \in Owners \ {s} : SlotsKept(q), Swaps(s, k, x, y), NEW c \in Blocks
  PROVE  /\ c \notin {x, y} => Refs(c)' = Refs(c)
         /\ c = x => /\ Refs(c)' = (Refs(c) \ {<<s, k>>}) \cup {<<s, -1>>}
                     /\ <<s, k>> \in Refs(c) /\ <<s, -1>> \notin Refs(c)
         /\ c = y => Refs(c)' = Refs(c) \cup {<<s, k>>} /\ <<s, k>> \notin Refs(c)
<1>1. ASSUME NEW r \in Owners \X Index, r # <<s, k>>, r # <<s, -1>>
      PROVE  NextSlot(r[1], r[2]) = Slot(r[1], r[2])
  BY <1>1 DEF SlotsKept, Swaps
<1>2. /\ <<s, k>> \in Owners \X Index /\ NoBlock # c
      /\ <<s, -1>> \in Owners \X Index /\ <<s, k>> # <<s, -1>>
  BY KvPoolConstants DEF Index, Swaps
<1>3. /\ Refs(c) = {r \in Owners \X Index : Slot(r[1], r[2]) = c}
      /\ Refs(c)' = {r \in Owners \X Index : NextSlot(r[1], r[2]) = c}
  BY RefsAre, NextRefs
<1>4. /\ Slot(s, k) = x /\ NextSlot(s, k) = y /\ Slot(s, -1) = NoBlock /\ NextSlot(s, -1) = x
  BY DEF Swaps
<1> QED BY <1>1, <1>2, <1>3, <1>4

-----------------------------------------------------------------------------
(* Counts.                                                                 *)

Balanced ==
  \A b \in Blocks : IsFiniteSet(Refs(b)) /\ refcounts[b] = Cardinality(Refs(b))

LEMMA BalancedSame ==
  ASSUME TypeInv, TypeInv', Balanced, \A q \in Owners : SlotsKept(q), refcounts' = refcounts
  PROVE  Balanced'
  BY RefsSame DEF Balanced

LEMMA BalancedAdd ==
  ASSUME TypeInv, TypeInv', Balanced, NEW o \in Owners, NEW k \in Index, NEW b \in Blocks,
         \A q \in Owners \ {o} : SlotsKept(q), SlotsKeptBut(o, k),
         Slot(o, k) = NoBlock, NextSlot(o, k) = b,
         refcounts' = [refcounts EXCEPT ![b] = refcounts[b] + 1]
  PROVE  Balanced'
<1> SUFFICES ASSUME NEW c \in Blocks
             PROVE  IsFiniteSet(Refs(c)') /\ refcounts'[c] = Cardinality(Refs(c)')
  BY DEF Balanced
<1>1. IsFiniteSet(Refs(c)) /\ refcounts[c] = Cardinality(Refs(c)) /\ refcounts \in [Blocks -> Nat]
  BY Typed DEF Balanced
<1>2. CASE c # b
  <2>1. Refs(c)' = Refs(c)
    BY <1>2, RefsAdd
  <2>2. refcounts'[c] = refcounts[c]
    BY <1>1, <1>2
  <2> QED BY <1>1, <2>1, <2>2
<1>3. CASE c = b
  <2>1. Refs(c)' = Refs(c) \cup {<<o, k>>} /\ <<o, k>> \notin Refs(c)
    BY <1>3, RefsAdd
  <2>2. /\ IsFiniteSet(Refs(c) \cup {<<o, k>>})
        /\ Cardinality(Refs(c) \cup {<<o, k>>}) = Cardinality(Refs(c)) + 1
    BY <1>1, <2>1, FS_AddElement
  <2> QED BY <1>1, <1>3, <2>1, <2>2
<1> QED BY <1>2, <1>3

LEMMA BalancedDrop ==
  ASSUME TypeInv, TypeInv', Balanced, NEW o \in Owners, NEW k \in Index, NEW b \in Blocks,
         \A q \in Owners \ {o} : SlotsKept(q), SlotsKeptBut(o, k),
         Slot(o, k) = b, NextSlot(o, k) = NoBlock, UnrefBlock(b)
  PROVE  Balanced' /\ refcounts[b] > 0
<1>0. IsFiniteSet(Refs(b)) /\ <<o, k>> \in Refs(b) /\ refcounts[b] = Cardinality(Refs(b))
  BY Named DEF Balanced
<1>1. refcounts[b] > 0
  <2>1. Cardinality(Refs(b)) # 0 /\ Cardinality(Refs(b)) \in Nat
    BY <1>0, FS_EmptySet, FS_CardinalityType
  <2> QED BY <1>0, <2>1
<1> SUFFICES ASSUME NEW c \in Blocks
             PROVE  IsFiniteSet(Refs(c)') /\ refcounts'[c] = Cardinality(Refs(c)')
  BY <1>1 DEF Balanced
<1>2. IsFiniteSet(Refs(c)) /\ refcounts[c] = Cardinality(Refs(c)) /\ refcounts \in [Blocks -> Nat]
  BY Typed DEF Balanced
<1>3. refcounts' = [refcounts EXCEPT ![b] = refcounts[b] - 1]
  <2>1. ~ (refcounts[b] = 0)
    BY <1>1
  <2> QED BY <2>1 DEF UnrefBlock
<1>4. CASE c # b
  BY <1>2, <1>3, <1>4, RefsDrop
<1>5. CASE c = b
  <2>1. Refs(c)' = Refs(c) \ {<<o, k>>} /\ <<o, k>> \in Refs(c)
    BY <1>5, RefsDrop
  <2>2. /\ IsFiniteSet(Refs(c) \ {<<o, k>>})
        /\ Cardinality(Refs(c) \ {<<o, k>>}) = Cardinality(Refs(c)) - 1
    BY <1>2, <2>1, FS_RemoveElement
  <2> QED BY <1>2, <1>3, <1>5, <2>1, <2>2
<1> QED BY <1>4, <1>5

LEMMA BalancedSwap ==
  ASSUME TypeInv, TypeInv', Balanced, NEW s \in Owners, NEW k \in Index, NEW x \in Blocks,
         NEW y \in Blocks, x # y, \A q \in Owners \ {s} : SlotsKept(q), Swaps(s, k, x, y),
         refcounts' = [refcounts EXCEPT ![y] = refcounts[y] + 1]
  PROVE  Balanced'
<1> SUFFICES ASSUME NEW c \in Blocks
             PROVE  IsFiniteSet(Refs(c)') /\ refcounts'[c] = Cardinality(Refs(c)')
  BY DEF Balanced
<1>1. IsFiniteSet(Refs(c)) /\ refcounts[c] = Cardinality(Refs(c)) /\ refcounts \in [Blocks -> Nat]
  BY Typed DEF Balanced
<1>2. CASE c \notin {x, y}
  BY <1>1, <1>2, RefsSwap
<1>3. CASE c = x
  <2>1. /\ Refs(c)' = (Refs(c) \ {<<s, k>>}) \cup {<<s, -1>>}
        /\ <<s, k>> \in Refs(c) /\ <<s, -1>> \notin Refs(c)
    BY <1>3, RefsSwap
  <2>2. /\ IsFiniteSet(Refs(c) \ {<<s, k>>})
        /\ Cardinality(Refs(c) \ {<<s, k>>}) = Cardinality(Refs(c)) - 1
    BY <1>1, <2>1, FS_RemoveElement
  <2>3. <<s, -1>> \notin Refs(c) \ {<<s, k>>}
    BY <2>1
  <2>4. /\ IsFiniteSet((Refs(c) \ {<<s, k>>}) \cup {<<s, -1>>})
        /\ Cardinality((Refs(c) \ {<<s, k>>}) \cup {<<s, -1>>}) = Cardinality(Refs(c)) - 1 + 1
    BY <2>2, <2>3, FS_AddElement
  <2>5. refcounts'[c] = refcounts[c] /\ refcounts[c] \in Nat
    BY <1>1, <1>3
  <2> QED BY <1>1, <2>1, <2>4, <2>5
<1>4. CASE c = y
  <2>1. Refs(c)' = Refs(c) \cup {<<s, k>>} /\ <<s, k>> \notin Refs(c)
    BY <1>4, RefsSwap
  <2>2. /\ IsFiniteSet(Refs(c) \cup {<<s, k>>})
        /\ Cardinality(Refs(c) \cup {<<s, k>>}) = Cardinality(Refs(c)) + 1
    BY <1>1, <2>1, FS_AddElement
  <2> QED BY <1>1, <1>4, <2>1, <2>2
<1> QED BY <1>2, <1>3, <1>4

LEMMA NamedCounted ==
  ASSUME TypeInv, Balanced, NEW b \in Blocks, NEW o \in Owners, NEW i \in Index, Slot(o, i) = b
  PROVE  refcounts[b] > 0
<1>0. IsFiniteSet(Refs(b)) /\ <<o, i>> \in Refs(b) /\ refcounts[b] = Cardinality(Refs(b))
  BY Named DEF Balanced
<1>1. Cardinality(Refs(b)) # 0 /\ Cardinality(Refs(b)) \in Nat
  BY <1>0, FS_EmptySet, FS_CardinalityType
<1> QED BY <1>0, <1>1

LEMMA OnceCounted ==
  ASSUME TypeInv, Balanced, NEW b \in Blocks, ~ (refcounts[b] > 1),
         NEW o \in Owners, NEW i \in Index, Slot(o, i) = b,
         NEW q \in Owners, NEW j \in Index, Slot(q, j) = b
  PROVE  q = o /\ j = i
<1>0. /\ IsFiniteSet(Refs(b)) /\ <<o, i>> \in Refs(b) /\ <<q, j>> \in Refs(b)
      /\ refcounts[b] = Cardinality(Refs(b)) /\ refcounts[b] \in Nat
  BY Named, Typed DEF Balanced
<1>1. refcounts[b] > 0
  BY NamedCounted
<1>2. Cardinality(Refs(b)) = 1
  BY <1>0, <1>1
<1>3. PICK r : Refs(b) = {r}
  BY <1>0, <1>2, FS_Singleton
<1>4. <<o, i>> = <<q, j>>
  BY <1>0, <1>3
<1> QED BY <1>4

LEMMA Uncounted ==
  ASSUME TypeInv, Balanced, NEW b \in Blocks, refcounts[b] = 0,
         NEW o \in Owners, NEW i \in Index
  PROVE  Slot(o, i) # b
  BY NamedCounted

-----------------------------------------------------------------------------
(* The store.                                                              *)

\* The free list, the hash index and the reclaim queue agree with the counts.
StoreOK ==
  /\ \A b \in free : refcounts[b] = 0 /\ hashes[b] = NoHash
  /\ \A b \in Blocks : refcounts[b] = 0 /\ hashes[b] = NoHash => b \in free
  /\ \A e \in byHash : e[1] = hashes[e[2]] /\ e[1] # NoHash
  /\ \A b \in Blocks : hashes[b] # NoHash => <<hashes[b], b>> \in byHash
  /\ \A b \in Blocks : refcounts[b] = 0 /\ hashes[b] # NoHash => b \in ToSet(lru)

\* No block is given a new hash.
NoNewHash == \A b \in Blocks : hashes'[b] \in {hashes[b], NoHash}

LEMMA StoreSame ==
  ASSUME StoreOK, UNCHANGED storeVars
  PROVE  StoreOK' /\ NoNewHash /\ refcounts' = refcounts
  BY DEF StoreOK, NoNewHash, storeVars, ToSet

LEMMA RefOK ==
  ASSUME TypeInv, StoreOK, NEW b \in Blocks, RefBlock(b), b \notin free
  PROVE  /\ StoreOK' /\ NoNewHash
         /\ refcounts' = [refcounts EXCEPT ![b] = refcounts[b] + 1]
<1>1. refcounts \in [Blocks -> Nat] /\ free \subseteq Blocks
  BY Typed
<1>2. /\ refcounts' = [refcounts EXCEPT ![b] = refcounts[b] + 1]
      /\ free' = free /\ hashes' = hashes /\ byHash' = byHash /\ lru' = lru
  BY DEF RefBlock
<1>3. \A c \in Blocks : refcounts'[c] = IF c = b THEN refcounts[c] + 1 ELSE refcounts[c]
  BY <1>1, <1>2
<1>4. refcounts'[b] # 0
  BY <1>1, <1>3
<1> QED BY <1>1, <1>2, <1>3, <1>4 DEF StoreOK, NoNewHash, ToSet

LEMMA UnrefOK ==
  ASSUME TypeInv, StoreOK, NEW b \in Blocks, UnrefBlock(b), refcounts[b] > 0
  PROVE  StoreOK' /\ NoNewHash
<1>1. refcounts \in [Blocks -> Nat] /\ free \subseteq Blocks /\ lru \in Seq(Blocks)
  BY Typed
<1>2. /\ refcounts' = [refcounts EXCEPT ![b] = refcounts[b] - 1]
      /\ lru'  = IF refcounts[b] - 1 = 0 /\ hashes[b] # NoHash THEN Append(lru, b) ELSE lru
      /\ free' = IF refcounts[b] - 1 = 0 /\ hashes[b] = NoHash THEN free \cup {b} ELSE free
      /\ hashes' = hashes /\ byHash' = byHash
  <2>1. ~ (refcounts[b] = 0)
    OBVIOUS
  <2> QED BY <2>1 DEF UnrefBlock
<1>3. \A c \in Blocks : refcounts'[c] = IF c = b THEN refcounts[c] - 1 ELSE refcounts[c]
  BY <1>1, <1>2
<1>4. /\ ToSet(lru) \subseteq ToSet(lru')
      /\ refcounts[b] - 1 = 0 /\ hashes[b] # NoHash => b \in ToSet(lru')
  <2>1. CASE lru' = lru /\ ~ (refcounts[b] - 1 = 0 /\ hashes[b] # NoHash)
    BY <2>1
  <2>2. CASE lru' = Append(lru, b)
    <3>1. /\ Len(lru') = Len(lru) + 1 /\ lru'[Len(lru) + 1] = b
          /\ \A i \in 1 .. Len(lru) : lru'[i] = lru[i]
      BY <1>1, <2>2, AppendProperties
    <3>2. Len(lru) \in Nat
      BY <1>1
    <3> QED BY <1>1, <3>1, <3>2 DEF ToSet
  <2> QED BY <1>2, <2>1, <2>2
<1>5. b \notin free
  BY DEF StoreOK
<1>6. \A c \in free' : refcounts'[c] = 0 /\ hashes'[c] = NoHash
  BY <1>1, <1>2, <1>3, <1>5 DEF StoreOK
<1>7. \A c \in Blocks : refcounts'[c] = 0 /\ hashes'[c] = NoHash => c \in free'
  BY <1>1, <1>2, <1>3 DEF StoreOK
<1>8. \A c \in Blocks : refcounts'[c] = 0 /\ hashes'[c] # NoHash => c \in ToSet(lru')
  BY <1>1, <1>2, <1>3, <1>4 DEF StoreOK
<1> QED BY <1>2, <1>6, <1>7, <1>8 DEF StoreOK, NoNewHash

\* Under these, cached means counted zero and hashed.
LEMMA CachedIff ==
  ASSUME StoreOK, NEW b \in Blocks
  PROVE  IsCached(b) <=> refcounts[b] = 0 /\ hashes[b] # NoHash
  BY DEF StoreOK, IsCached

LEMMA AllocOK ==
  ASSUME TypeInv, StoreOK, NEW b \in Blocks, AllocBlock(b)
  PROVE  /\ StoreOK' /\ NoNewHash /\ refcounts[b] = 0 /\ hashes'[b] = NoHash
         /\ refcounts' = [refcounts EXCEPT ![b] = refcounts[b] + 1]
<1>1. /\ refcounts \in [Blocks -> Nat] /\ free \subseteq Blocks /\ lru \in Seq(Blocks)
      /\ hashes \in [Blocks -> Seq(Token)] /\ byHash \subseteq Seq(Token) \X Blocks
  BY Typed
<1>2. refcounts' = [refcounts EXCEPT ![b] = 1] /\ hashes' = [hashes EXCEPT ![b] = NoHash]
  BY DEF AllocBlock
<1>3. /\ \A c \in Blocks : refcounts'[c] = IF c = b THEN 1 ELSE refcounts[c]
      /\ \A c \in Blocks : hashes'[c] = IF c = b THEN NoHash ELSE hashes[c]
  BY <1>1, <1>2
<1>4. refcounts[b] = 0
  BY DEF AllocBlock, AllocFree, AllocCached, IsCached, StoreOK
<1>5. CASE AllocFree(b)
  <2>1. b \in free /\ free' = free \ {b} /\ byHash' = byHash /\ lru' = lru
    BY <1>5 DEF AllocFree
  <2>2. hashes[b] = NoHash
    BY <2>1 DEF StoreOK
  <2>3. \A e \in byHash : e[2] # b
    BY <2>2 DEF StoreOK
  <2>4. \A e \in byHash : e[2] \in Blocks
    BY <1>1
  <2>5. \A e \in byHash' : e[1] = hashes'[e[2]] /\ e[1] # NoHash
    BY <1>3, <2>1, <2>3, <2>4 DEF StoreOK
  <2>6. \A c \in Blocks : hashes'[c] # NoHash => <<hashes'[c], c>> \in byHash'
    BY <1>3, <2>1 DEF StoreOK
  <2>7. \A c \in free' : refcounts'[c] = 0 /\ hashes'[c] = NoHash
    BY <1>1, <1>3, <2>1 DEF StoreOK
  <2>8. \A c \in Blocks : refcounts'[c] = 0 /\ hashes'[c] = NoHash => c \in free'
    BY <1>1, <1>3, <2>1 DEF StoreOK
  <2>9. \A c \in Blocks : refcounts'[c] = 0 /\ hashes'[c] # NoHash => c \in ToSet(lru')
    BY <1>1, <1>3, <2>1 DEF StoreOK
  <2>10. StoreOK'
    BY <2>5, <2>6, <2>7, <2>8, <2>9 DEF StoreOK
  <2> QED BY <1>2, <1>3, <1>4, <2>10 DEF NoNewHash
<1>6. CASE AllocCached(b)
  <2>1. PICK i \in 1 .. Len(lru) :
          /\ lru[i] = b /\ IsCached(b)
          /\ \A j \in 1 .. (i - 1) : ~ IsCached(lru[j])
          /\ lru' = SubSeq(lru, i + 1, Len(lru))
    BY <1>6 DEF AllocCached
  <2>2. free = {} /\ free' = {} /\ byHash' = byHash \ {<<hashes[b], b>>}
    BY <1>6 DEF AllocCached
  <2>3. ASSUME NEW c \in Blocks, c # b, IsCached(c)
        PROVE  c \in ToSet(lru')
    <3>1. c \in ToSet(lru)
      BY <2>3, CachedIff DEF StoreOK
    <3>2. PICK j \in 1 .. Len(lru) : lru[j] = c
      BY <3>1 DEF ToSet
    <3>3. ~ (j \in 1 .. (i - 1))
      BY <2>1, <2>3, <3>2
    <3>4. j \in i + 1 .. Len(lru)
      BY <1>1, <2>1, <2>3, <3>2, <3>3
    <3>5. \A k \in i + 1 .. Len(lru) : lru[k] \in Blocks
      BY <1>1
    <3>6. i + 1 \in Int /\ Len(lru) \in Int /\ i + 1 <= Len(lru) /\ j - i \in 1 .. Len(lru) - i
      BY <1>1, <3>4
    <3>7. /\ Len(lru') = Len(lru) - i
          /\ lru'[j - i] = lru[j]
      <4>1. Len(lru') = Len(lru) - (i + 1) + 1
        BY <2>1, <3>5, <3>6, SubSeqProperties
      <4>2. lru'[j - i] = lru[i + 1 + (j - i) - 1]
        BY <2>1, <3>5, <3>6, SubSeqProperties
      <4> QED BY <4>1, <4>2, <1>1, <3>6
    <3> QED BY <3>2, <3>6, <3>7 DEF ToSet
  <2>4. \A e \in byHash : e[2] \in Blocks /\ e = <<e[1], e[2]>>
    BY <1>1
  <2>5. \A e \in byHash' : e[1] = hashes'[e[2]] /\ e[1] # NoHash
    <3> SUFFICES ASSUME NEW e \in byHash' PROVE e[1] = hashes'[e[2]] /\ e[1] # NoHash
      OBVIOUS
    <3>1. e \in byHash /\ e # <<hashes[b], b>>
      BY <2>2
    <3>2. e[1] = hashes[e[2]] /\ e[1] # NoHash /\ e[2] \in Blocks /\ e = <<e[1], e[2]>>
      BY <2>4, <3>1 DEF StoreOK
    <3>3. e[2] # b
      BY <3>1, <3>2
    <3> QED BY <1>3, <3>2, <3>3
  <2>6. \A c \in Blocks : hashes'[c] # NoHash => <<hashes'[c], c>> \in byHash'
    BY <1>3, <2>2 DEF StoreOK
  <2>7. \A c \in Blocks : refcounts'[c] = 0 /\ hashes'[c] = NoHash => c \in free'
    BY <1>3, <2>2 DEF StoreOK
  <2>8. \A c \in Blocks : refcounts'[c] = 0 /\ hashes'[c] # NoHash => c \in ToSet(lru')
    BY <1>3, <2>3, CachedIff
  <2>9. StoreOK'
    BY <2>2, <2>5, <2>6, <2>7, <2>8 DEF StoreOK
  <2> QED BY <1>2, <1>3, <1>4, <2>9 DEF NoNewHash
<1> QED BY <1>5, <1>6 DEF AllocBlock

LEMMA ExhaustedOK ==
  ASSUME TypeInv, StoreOK, AllocExhausted
  PROVE  StoreOK' /\ NoNewHash /\ refcounts' = refcounts
<1>1. /\ lru \in Seq(Blocks) /\ free' = free /\ refcounts' = refcounts /\ hashes' = hashes
      /\ byHash' = byHash
  BY Typed DEF AllocExhausted
<1>2. ASSUME NEW c \in Blocks, refcounts[c] = 0, hashes[c] # NoHash PROVE FALSE
  <2>1. IsCached(c) /\ c \in ToSet(lru)
    BY <1>2, CachedIff DEF StoreOK
  <2> QED BY <2>1 DEF AllocExhausted, ToSet
<1> QED BY <1>1, <1>2 DEF StoreOK, NoNewHash

LEMMA SetHashOK ==
  ASSUME TypeInv, StoreOK, NEW b \in Blocks, NEW h \in Seq(Token), h # NoHash,
         hashes[b] = NoHash, refcounts[b] > 0, SetHash(b, h)
  PROVE  /\ StoreOK' /\ refcounts' = refcounts
         /\ \A c \in Blocks : c # b => hashes'[c] = hashes[c]
<1>1. /\ free \subseteq Blocks /\ hashes \in [Blocks -> Seq(Token)]
      /\ byHash \subseteq Seq(Token) \X Blocks
  BY Typed
<1>2. /\ hashes' = [hashes EXCEPT ![b] = h] /\ byHash' = byHash \cup {<<h, b>>}
      /\ free' = free /\ refcounts' = refcounts /\ lru' = lru
  BY DEF SetHash
<1>3. \A c \in Blocks : hashes'[c] = IF c = b THEN h ELSE hashes[c]
  BY <1>1, <1>2
<1>4. \A e \in byHash : e[2] \in Blocks /\ e[2] # b
  BY <1>1 DEF StoreOK
<1>5. \A e \in byHash' : e[1] = hashes'[e[2]] /\ e[1] # NoHash
  BY <1>2, <1>3, <1>4 DEF StoreOK
<1>6. \A c \in Blocks : hashes'[c] # NoHash => <<hashes'[c], c>> \in byHash'
  BY <1>2, <1>3 DEF StoreOK
<1>7. b \notin free
  BY DEF StoreOK
<1>8. StoreOK'
  BY <1>1, <1>2, <1>3, <1>5, <1>6, <1>7 DEF StoreOK
<1> QED BY <1>2, <1>3, <1>8

\* A nonempty set of natural numbers has a least element.
LEMMA LeastNatural ==
  ASSUME NEW T, T \subseteq Nat, T # {}
  PROVE  \E x \in T : \A y \in T : x <= y
<1> DEFINE Less == OpToRel(<, Nat)
<1>1. IsWellFoundedOn(Less, Nat)
  BY NatLessThanWellFounded
<1>2. \A x, y \in Nat : y < x => <<y, x>> \in Less
  BY DEF OpToRel
<1> HIDE DEF Less
<1>3. PICK x \in T : \A y \in T : ~ (<<y, x>> \in Less)
  BY <1>1, WFMin
<1>4. ASSUME NEW y \in T PROVE x <= y
  <2>1. x \in Nat /\ y \in Nat
    OBVIOUS
  <2>2. ~ (y < x)
    BY <1>2, <1>3, <2>1
  <2> QED BY <2>1, <2>2
<1> QED BY <1>4

\* The entries of m give every block at most one hash.
LEMMA InstallOK ==
  ASSUME TypeInv, StoreOK, NEW m \in Seq(Seq(Token) \X Blocks), InstallMetadata(m),
         \A k \in DOMAIN m : /\ m[k][1] # NoHash /\ hashes[m[k][2]] = NoHash
                             /\ refcounts[m[k][2]] > 0,
         \A k, l \in DOMAIN m : m[k][2] = m[l][2] => m[k] = m[l]
  PROVE  /\ StoreOK' /\ refcounts' = refcounts
         /\ \A c \in Blocks : (\A k \in DOMAIN m : m[k][2] # c) => hashes'[c] = hashes[c]
<1>1. /\ free \subseteq Blocks /\ hashes \in [Blocks -> Seq(Token)]
      /\ byHash \subseteq Seq(Token) \X Blocks
  BY Typed
<1>2. /\ DOMAIN m = 1 .. Len(m) /\ Len(m) \in Nat
      /\ \A k \in DOMAIN m : m[k][1] \in Seq(Token) /\ m[k][2] \in Blocks
                             /\ m[k] = <<m[k][1], m[k][2]>>
  OBVIOUS
<1>3. /\ byHash' = byHash \cup ToSet(m)
      /\ free' = free /\ refcounts' = refcounts /\ lru' = lru
  BY DEF InstallMetadata
<1>4. ASSUME NEW c \in Blocks, \A k \in DOMAIN m : m[k][2] # c
      PROVE  hashes'[c] = hashes[c]
  <2>1. {i \in 1 .. Len(m) : m[i][2] = c} = {}
    BY <1>2, <1>4
  <2>2. {i \in {l \in 1 .. Len(m) : m[l][2] = c} :
           \A j \in {l \in 1 .. Len(m) : m[l][2] = c} : j <= i} = {}
    BY <2>1
  <2> QED BY <2>2 DEF InstallMetadata
<1>5. ASSUME NEW k \in DOMAIN m PROVE hashes'[m[k][2]] = m[k][1]
  <2> DEFINE c == m[k][2]
             mine == {i \in 1 .. Len(m) : m[i][2] = c}
             final == {i \in mine : \A j \in mine : j <= i}
  <2>1. c \in Blocks /\ k \in mine
    BY <1>2
  <2>2. hashes'[c] = IF final = {} THEN hashes[c] ELSE m[CHOOSE i \in final : TRUE][1]
    BY <2>1 DEF InstallMetadata
  <2>3. final # {}
    <3>1. IsFiniteSet(mine)
      <4>1. IsFiniteSet(1 .. Len(m)) /\ mine \subseteq 1 .. Len(m)
        BY <1>2, FS_Interval
      <4> QED BY <4>1, FS_Subset
    <3>2. \E i \in mine : \A j \in mine : j <= i
      <4>1. \E n \in Nat : \A j \in mine : j <= n
        BY <1>2
      <4>2. mine \in SUBSET Nat /\ mine # {}
        BY <2>1
      <4> HIDE DEF mine
      <4>3. PICK n \in Nat : \A j \in mine : j <= n
        BY <4>1
      <4> DEFINE gaps == {d \in Nat : n - d \in mine}
      <4>4. gaps \subseteq Nat /\ gaps # {}
        <5>1. PICK j \in mine : j <= n
          BY <4>2, <4>3
        <5>2. n - j \in Nat /\ n - (n - j) = j
          BY <4>2, <5>1
        <5> QED BY <5>1, <5>2
      <4>5. PICK d \in gaps : \A e \in gaps : d <= e
        BY <4>4, LeastNatural
      <4>6. d \in Nat /\ n - d \in mine
        OBVIOUS
      <4>7. ASSUME NEW j \in mine PROVE j <= n - d
        <5>1. j \in Nat /\ j <= n
          BY <4>2, <4>3
        <5>2. n - j \in gaps
          <6>1. n - j \in Nat /\ n - (n - j) = j
            BY <5>1
          <6> QED BY <6>1
        <5>3. d <= n - j
          BY <4>5, <5>2
        <5> QED BY <4>6, <5>1, <5>3
      <4> QED BY <4>6, <4>7
    <3> QED BY <3>2
  <2>4. PICK i \in final : hashes'[c] = m[i][1]
    BY <2>2, <2>3
  <2>5. i \in DOMAIN m /\ m[i][2] = m[k][2]
    BY <1>2
  <2> QED BY <2>4, <2>5
<1>6. \A e \in byHash : e[2] \in Blocks /\ \A k \in DOMAIN m : m[k][2] # e[2]
  BY <1>1 DEF StoreOK
<1>7. \A e \in byHash' : e[1] = hashes'[e[2]] /\ e[1] # NoHash
  <2> SUFFICES ASSUME NEW e \in byHash' PROVE e[1] = hashes'[e[2]] /\ e[1] # NoHash
    OBVIOUS
  <2>1. CASE e \in byHash
    BY <2>1, <1>4, <1>6 DEF StoreOK
  <2>2. CASE e \in ToSet(m)
    <3>1. PICK k \in DOMAIN m : e = m[k]
      BY <1>2, <2>2 DEF ToSet
    <3> QED BY <3>1, <1>5
  <2> QED BY <1>3, <2>1, <2>2
<1>8. \A c \in Blocks : hashes'[c] # NoHash => <<hashes'[c], c>> \in byHash'
  <2> SUFFICES ASSUME NEW c \in Blocks, hashes'[c] # NoHash
               PROVE  <<hashes'[c], c>> \in byHash'
    OBVIOUS
  <2>1. CASE \A k \in DOMAIN m : m[k][2] # c
    BY <2>1, <1>3, <1>4 DEF StoreOK
  <2>2. CASE \E k \in DOMAIN m : m[k][2] = c
    <3>1. PICK k \in DOMAIN m : m[k][2] = c
      BY <2>2
    <3>2. <<hashes'[c], c>> = m[k] /\ m[k] \in ToSet(m)
      BY <3>1, <1>2, <1>5 DEF ToSet
    <3> QED BY <3>2, <1>3
  <2> QED BY <2>1, <2>2
<1>9. ASSUME NEW c \in Blocks, refcounts[c] = 0 PROVE hashes'[c] = hashes[c]
  <2>1. \A k \in DOMAIN m : m[k][2] # c
    BY <1>9
  <2> QED BY <1>4, <2>1
<1>10. StoreOK'
  <2>1. \A c \in free' : refcounts'[c] = 0 /\ hashes'[c] = NoHash
    BY <1>1, <1>3, <1>9 DEF StoreOK
  <2>2. \A c \in Blocks : refcounts'[c] = 0 /\ hashes'[c] = NoHash => c \in free'
    BY <1>3, <1>9 DEF StoreOK
  <2>3. \A c \in Blocks : refcounts'[c] = 0 /\ hashes'[c] # NoHash => c \in ToSet(lru')
    BY <1>3, <1>9 DEF StoreOK
  <2> QED BY <1>7, <1>8, <2>1, <2>2, <2>3 DEF StoreOK
<1> QED BY <1>3, <1>4, <1>10

-----------------------------------------------------------------------------
(* Whose blocks are whose.                                                 *)

\* The blocks of o that are complete: hashed, or taken from the cache.
Full(o) ==
  IF o \in Seqs /\ pc[o] = "note" THEN noted[o]
  ELSE IF pc[o] = "copying" THEN Len(hist[source[o]]) \div BlockSize
  ELSE Len(hist[o]) \div BlockSize

Listed(o, b) == o \in Seqs /\ \E k \in DOMAIN metadata[o] : metadata[o][k][2] = b

\* A sequence past copy_shared_tail's test writes its last blocks in place.
Writing(o) ==
  /\ o \in Seqs
  /\ \/ pc[o] \in {"copied", "alloc", "computed", "evict", "note"}
     \/ (pc[o] = "prepare" /\ tail[o] = NoBlock)

\* Entry i of o's table may be written, or hashed at publication.
Private(o, i) == i > 0 /\ ((Writing(o) /\ i > Full(o)) \/ Listed(o, Slot(o, i)))
Unhashed(o, i) ==
  \/ i = 0
  \/ i > 0 /\ ((pc[o] # "match" /\ i > Full(o)) \/ Listed(o, Slot(o, i)))
Sole(o, i) == \A q \in Owners : \A j \in Index : Slot(q, j) = Slot(o, i) => q = o /\ j = i

UnhashedInv ==
  \A o \in Owners : \A i \in Index :
    Slot(o, i) # NoBlock /\ Unhashed(o, i) => hashes[Slot(o, i)] = NoHash
PrivateInv ==
  \A o \in Owners : \A i \in Index :
    Slot(o, i) # NoBlock /\ Private(o, i) => Sole(o, i)

\* The retained tail and the saved table are those begin saw.
UndoOf(s) ==
  /\ pc[s] \in {"retain", "prepare", "copy"} => blocks[s] = before[s]
  /\ pc[s] \in Undoable => \A i \in 1 .. Len(before[s]) :
       blocks[s][i] = before[s][i] \/ (i = TailIndex(s) /\ tail[s] # NoBlock)
  /\ pc[s] \in Undoable /\ tail[s] # NoBlock => tail[s] = before[s][TailIndex(s)]
  /\ pc[s] = "copy" => tail[s] # NoBlock

\* Deferred metadata pairs a live, complete block with the hash of its tokens.
MetaOf(s) ==
  pc[s] # "return" =>
    \A k \in DOMAIN metadata[s] :
      \E i \in head[s] + 1 .. Len(hist[s]) \div BlockSize :
        metadata[s][k] = <<HashAt(hist[s], i), blocks[s][i]>>

OwnInv ==
  /\ UnhashedInv /\ PrivateInv
  /\ \A s \in Seqs : UndoOf(s)
  /\ \A s \in Seqs : MetaOf(s)

LEMMA FullType ==
  ASSUME TypeInv, NEW o \in Owners
  PROVE  Full(o) \in Nat
<1>1. Len(hist[o]) \in Nat /\ (o \in Seqs => noted[o] \in Nat)
  BY Typed
<1>2. pc[o] = "copying" => Len(hist[source[o]]) \in Nat
  BY SourceIdle, Typed
<1> QED BY <1>1, <1>2, DivBounds, KvPoolConstants DEF Full

LEMMA FullTypes == TypeInv => \A o \in Owners : Full(o) \in Nat
  BY FullType

LEMMA NextFullTypes == TypeInv' => (\A o \in Owners : Full(o) \in Nat)'
  BY FullTypes, PTL

\* An owner that takes no part in a step keeps its blocks.
LEMMA PlaceFrame ==
  ASSUME TypeInv, NEW q \in Owners, Kept(q), pc[q] = "copying" => Kept(source[q])
  PROVE  /\ SlotsKept(q) /\ Full(q)' = Full(q)
         /\ \A i \in Index : (Private(q, i)' <=> Private(q, i)) /\ (Unhashed(q, i)' <=> Unhashed(q, i))
         /\ q \in Seqs => (UndoOf(q) => UndoOf(q)') /\ (MetaOf(q) => MetaOf(q)')
<1>1. SlotsKept(q)
  BY KeptSlots
<1>2. Full(q)' = Full(q)
  BY DEF Kept, SameTable, SameSeq, SameRun, Full
<1>3. Writing(q)' <=> Writing(q)
  BY DEF Kept, SameSeq, SameRun, SameUndo, Writing
<1>4. \A b : Listed(q, b)' <=> Listed(q, b)
  BY DEF Kept, SameSeq, SameMeta, Listed
<1>5. pc'[q] = pc[q]
  BY DEF Kept
<1>6. ASSUME NEW i \in Index
      PROVE  (Private(q, i)' <=> Private(q, i)) /\ (Unhashed(q, i)' <=> Unhashed(q, i))
  <2>1. Slot(q, i)' = Slot(q, i)
    BY <1>1, SlotNext DEF SlotsKept
  <2>2. Listed(q, Slot(q, i))' <=> Listed(q, Slot(q, i))
    BY <2>1 DEF Kept, SameSeq, SameMeta, Listed
  <2> QED BY <1>2, <1>3, <1>5, <2>2 DEF Private, Unhashed
<1>7. q \in Seqs /\ UndoOf(q) => UndoOf(q)'
  BY DEF Kept, SameTable, SameSeq, SameRun, SameUndo, UndoOf, TailIndex
<1>8. q \in Seqs /\ MetaOf(q) => MetaOf(q)'
  BY DEF Kept, SameTable, SameSeq, SameMeta, MetaOf
<1> QED BY <1>1, <1>2, <1>6, <1>7, <1>8

\* What a step of o alone must show of its own places.
LEMMA OwnAlone ==
  ASSUME TypeInv, OwnInv, NEW o \in Owners, Alone(o), NoNewHash,
         \A i \in Index : NextSlot(o, i) # NoBlock /\ Unhashed(o, i)' =>
           hashes'[NextSlot(o, i)] = NoHash,
         \A i \in Index : NextSlot(o, i) # NoBlock =>
           \A q \in Owners \ {o} : \A j \in Index :
             Slot(q, j) = NextSlot(o, i) => ~ Private(q, j),
         \A i \in Index : NextSlot(o, i) # NoBlock /\ Private(o, i)' =>
           /\ \A j \in Index : NextSlot(o, j) = NextSlot(o, i) => j = i
           /\ \A q \in Owners \ {o} : \A j \in Index : Slot(q, j) # NextSlot(o, i),
         o \in Seqs => UndoOf(o)' /\ MetaOf(o)'
  PROVE  OwnInv'
<1>1. ASSUME NEW q \in Owners \ {o}
      PROVE  Kept(q) /\ (pc[q] = "copying" => Kept(source[q]))
  BY SourceIdle DEF Alone
<1>2. ASSUME NEW q \in Owners \ {o}, NEW i \in Index
      PROVE  /\ NextSlot(q, i) = Slot(q, i)
             /\ (Private(q, i)' <=> Private(q, i)) /\ (Unhashed(q, i)' <=> Unhashed(q, i))
  BY <1>1, PlaceFrame DEF SlotsKept
<1>3. UnhashedInv'
  <2> SUFFICES ASSUME NEW q \in Owners, NEW i \in Index,
                      NextSlot(q, i) # NoBlock, Unhashed(q, i)'
               PROVE  hashes'[NextSlot(q, i)] = NoHash
    BY SlotNext DEF UnhashedInv
  <2>1. CASE q # o
    <3>1. Slot(q, i) # NoBlock /\ Unhashed(q, i) /\ NextSlot(q, i) = Slot(q, i)
      BY <1>2, <2>1
    <3>2. Slot(q, i) \in Blocks /\ hashes[Slot(q, i)] = NoHash
      BY <3>1, SlotOf DEF OwnInv, UnhashedInv
    <3> QED BY <3>1, <3>2 DEF NoNewHash
  <2> QED BY <2>1
<1>4. PrivateInv'
  <2> SUFFICES ASSUME NEW q \in Owners, NEW i \in Index,
                      NextSlot(q, i) # NoBlock, Private(q, i)',
                      NEW p \in Owners, NEW j \in Index, NextSlot(p, j) = NextSlot(q, i)
               PROVE  p = q /\ j = i
    BY SlotNext DEF PrivateInv, Sole
  <2>1. CASE q = o /\ p = o
    BY <2>1
  <2>2. CASE q = o /\ p # o
    BY <2>2, <1>2
  <2>3. CASE q # o /\ p = o
    <3>1. Private(q, i) /\ Slot(q, i) = NextSlot(o, j) /\ NextSlot(o, j) # NoBlock
      BY <2>3, <1>2
    <3> QED BY <3>1, <2>3
  <2>4. CASE q # o /\ p # o
    <3>1. Private(q, i) /\ Slot(q, i) = Slot(p, j) /\ Slot(q, i) # NoBlock
      BY <2>4, <1>2
    <3> QED BY <3>1 DEF OwnInv, PrivateInv, Sole
  <2> QED BY <2>1, <2>2, <2>3, <2>4
<1>5. ASSUME NEW s \in Seqs PROVE UndoOf(s)' /\ MetaOf(s)'
  <2>1. CASE s # o
    BY <2>1, <1>1, PlaceFrame, Typed DEF OwnInv
  <2> QED BY <2>1
<1> QED BY <1>3, <1>4, <1>5 DEF OwnInv

\* A step of o that only gives references up.
LEMMA OwnShrinks ==
  ASSUME TypeInv, OwnInv, NEW o \in Owners, Alone(o), NoNewHash,
         \A i \in Index : NextSlot(o, i) \in {Slot(o, i), NoBlock},
         \A i \in Index : NextSlot(o, i) = Slot(o, i) /\ Slot(o, i) # NoBlock =>
           /\ Unhashed(o, i)' => Unhashed(o, i)
           /\ Private(o, i)' => Private(o, i) \/ Sole(o, i),
         o \in Seqs => UndoOf(o)' /\ MetaOf(o)'
  PROVE  OwnInv'
<1>1. ASSUME NEW i \in Index, NextSlot(o, i) # NoBlock
      PROVE  NextSlot(o, i) = Slot(o, i) /\ Slot(o, i) \in Blocks
  BY <1>1, SlotOf
<1>2. ASSUME NEW i \in Index, NextSlot(o, i) # NoBlock, Unhashed(o, i)'
      PROVE  hashes'[NextSlot(o, i)] = NoHash
  <2>1. hashes[Slot(o, i)] = NoHash
    BY <1>1, <1>2 DEF OwnInv, UnhashedInv
  <2> QED BY <1>1, <1>2, <2>1 DEF NoNewHash
<1>3. ASSUME NEW i \in Index, NextSlot(o, i) # NoBlock,
             NEW q \in Owners \ {o}, NEW j \in Index, Slot(q, j) = NextSlot(o, i), Private(q, j)
      PROVE  FALSE
  <2>1. Slot(q, j) = Slot(o, i) /\ Slot(q, j) # NoBlock
    BY <1>1, <1>3
  <2> QED BY <1>3, <2>1 DEF OwnInv, PrivateInv, Sole
<1>4. ASSUME NEW i \in Index, NextSlot(o, i) # NoBlock, Private(o, i)'
      PROVE  /\ \A j \in Index : NextSlot(o, j) = NextSlot(o, i) => j = i
             /\ \A q \in Owners \ {o} : \A j \in Index : Slot(q, j) # NextSlot(o, i)
  <2>1. Sole(o, i) /\ NextSlot(o, i) = Slot(o, i)
    BY <1>1, <1>4 DEF OwnInv, PrivateInv
  <2> QED BY <1>1, <1>4, <2>1 DEF Sole
<1> QED BY <1>2, <1>3, <1>4, OwnAlone

\* A step of o that takes one more reference, to block b.
LEMMA OwnGrows ==
  ASSUME TypeInv, OwnInv, NEW o \in Owners, Alone(o), NoNewHash,
         NEW k \in Index, NEW b \in Blocks, NextSlot(o, k) = b, SlotsKeptBut(o, k),
         Unhashed(o, k)' => hashes'[b] = NoHash,
         \A q \in Owners : \A j \in Index : Slot(q, j) = b => ~ Private(q, j),
         Private(o, k)' => \A q \in Owners : \A j \in Index : Slot(q, j) # b,
         \A i \in Index \ {k} : Slot(o, i) # NoBlock =>
           /\ Unhashed(o, i)' => Unhashed(o, i)
           /\ Private(o, i)' => Private(o, i),
         o \in Seqs => UndoOf(o)' /\ MetaOf(o)'
  PROVE  OwnInv'
<1>0. b # NoBlock
  BY KvPoolConstants
<1>1. ASSUME NEW i \in Index, i # k
      PROVE  NextSlot(o, i) = Slot(o, i) /\ Slot(o, i) \in Blocks \cup {NoBlock}
  BY <1>1, SlotOf DEF SlotsKeptBut
<1>2. ASSUME NEW i \in Index, NextSlot(o, i) # NoBlock, Unhashed(o, i)'
      PROVE  hashes'[NextSlot(o, i)] = NoHash
  <2>1. CASE i = k
    BY <2>1, <1>2
  <2>2. CASE i # k
    <3>1. hashes[Slot(o, i)] = NoHash
      BY <1>1, <1>2, <2>2 DEF OwnInv, UnhashedInv
    <3> QED BY <1>1, <1>2, <2>2, <3>1 DEF NoNewHash
  <2> QED BY <2>1, <2>2
<1>3. ASSUME NEW i \in Index, NextSlot(o, i) # NoBlock,
             NEW q \in Owners \ {o}, NEW j \in Index, Slot(q, j) = NextSlot(o, i), Private(q, j)
      PROVE  FALSE
  <2>1. i # k
    BY <1>3
  <2>2. Slot(q, j) = Slot(o, i) /\ Slot(q, j) # NoBlock
    BY <1>1, <1>3, <2>1
  <2> QED BY <1>3, <2>2 DEF OwnInv, PrivateInv, Sole
<1>4. ASSUME NEW i \in Index, NextSlot(o, i) # NoBlock, Private(o, i)'
      PROVE  /\ \A j \in Index : NextSlot(o, j) = NextSlot(o, i) => j = i
             /\ \A q \in Owners \ {o} : \A j \in Index : Slot(q, j) # NextSlot(o, i)
  <2>1. CASE i = k
    <3>1. \A j \in Index : j # k => NextSlot(o, j) # b
      BY <1>1, <1>4, <2>1
    <3> QED BY <1>4, <2>1, <3>1
  <2>2. CASE i # k
    <3>1. Private(o, i) /\ NextSlot(o, i) = Slot(o, i)
      BY <1>1, <1>4, <2>2
    <3>2. Sole(o, i)
      BY <1>4, <3>1 DEF OwnInv, PrivateInv
    <3>3. Slot(o, i) # b
      BY <3>1
    <3>4. ASSUME NEW j \in Index, NextSlot(o, j) = NextSlot(o, i) PROVE j = i
      <4>1. j # k
        BY <3>1, <3>3, <3>4
      <4> QED BY <1>1, <3>1, <3>2, <3>4, <4>1 DEF Sole
    <3> QED BY <3>1, <3>2, <3>4 DEF Sole
  <2> QED BY <2>1, <2>2
<1> QED BY <1>2, <1>3, <1>4, OwnAlone

\* A step of o that replaces one entry and keeps the old block to drop it.
LEMMA OwnSwaps ==
  ASSUME TypeInv, OwnInv, NEW o \in Owners, Alone(o), NoNewHash,
         NEW k \in Index, NEW x \in Blocks, NEW y \in Blocks, x # y, Swaps(o, k, x, y),
         hashes'[y] = NoHash,
         \A q \in Owners : \A j \in Index : Slot(q, j) \in {x, y} => ~ Private(q, j),
         Private(o, k)' => \A q \in Owners : \A j \in Index : Slot(q, j) # y,
         \A i \in Index \ {k, -1} : Slot(o, i) # NoBlock =>
           /\ Unhashed(o, i)' => Unhashed(o, i)
           /\ Private(o, i)' => Private(o, i),
         o \in Seqs => UndoOf(o)' /\ MetaOf(o)'
  PROVE  OwnInv'
<1>0. x # NoBlock /\ y # NoBlock /\ ~ (-1 > 0) /\ -1 # 0 /\ -1 # k /\ -1 \in Index
  BY KvPoolConstants DEF Swaps, Index
<1>a. Slot(o, k) = x /\ NextSlot(o, k) = y /\ NextSlot(o, -1) = x
  BY DEF Swaps
<1>b. ~ Unhashed(o, -1)' /\ ~ Private(o, -1)'
  BY <1>0 DEF Unhashed, Private
<1>1. ASSUME NEW i \in Index, i # k, i # -1
      PROVE  NextSlot(o, i) = Slot(o, i) /\ Slot(o, i) \in Blocks \cup {NoBlock}
  BY <1>1, SlotOf DEF Swaps
<1>2. ASSUME NEW i \in Index, NextSlot(o, i) # NoBlock, Unhashed(o, i)'
      PROVE  hashes'[NextSlot(o, i)] = NoHash
  <2>1. CASE i = k
    BY <2>1, <1>2, <1>a
  <2>2. CASE i # k
    <3>0. i # -1
      BY <1>2, <1>b
    <3>1. hashes[Slot(o, i)] = NoHash
      BY <1>1, <1>2, <2>2, <3>0 DEF OwnInv, UnhashedInv
    <3> QED BY <1>1, <1>2, <2>2, <3>0, <3>1 DEF NoNewHash
  <2> QED BY <2>1, <2>2
<1>3. ASSUME NEW i \in Index, NextSlot(o, i) # NoBlock,
             NEW q \in Owners \ {o}, NEW j \in Index, Slot(q, j) = NextSlot(o, i), Private(q, j)
      PROVE  FALSE
  <2>1. i # k /\ i # -1
    BY <1>3, <1>a
  <2>2. Slot(q, j) = Slot(o, i) /\ Slot(q, j) # NoBlock
    BY <1>1, <1>3, <2>1
  <2> QED BY <1>3, <2>2 DEF OwnInv, PrivateInv, Sole
<1>4. ASSUME NEW i \in Index, NextSlot(o, i) # NoBlock, Private(o, i)'
      PROVE  /\ \A j \in Index : NextSlot(o, j) = NextSlot(o, i) => j = i
             /\ \A q \in Owners \ {o} : \A j \in Index : Slot(q, j) # NextSlot(o, i)
  <2>0. i # -1
    BY <1>4, <1>b
  <2>1. CASE i = k
    <3>1. \A j \in Index : j # k => NextSlot(o, j) # y
      BY <1>1, <1>4, <2>1, <1>a
    <3> QED BY <1>4, <2>1, <3>1, <1>a
  <2>2. CASE i # k
    <3>1. Private(o, i) /\ NextSlot(o, i) = Slot(o, i)
      BY <1>1, <1>4, <2>0, <2>2
    <3>2. Sole(o, i)
      BY <1>4, <3>1 DEF OwnInv, PrivateInv
    <3>3. Slot(o, i) # x /\ Slot(o, i) # y
      BY <3>1
    <3>4. ASSUME NEW j \in Index, NextSlot(o, j) = NextSlot(o, i) PROVE j = i
      <4>1. j # k /\ j # -1
        BY <1>a, <3>1, <3>3, <3>4
      <4> QED BY <1>1, <3>1, <3>2, <3>4, <4>1 DEF Sole
    <3> QED BY <3>1, <3>2, <3>4 DEF Sole
  <2> QED BY <2>1, <2>2
<1> QED BY <1>2, <1>3, <1>4, OwnAlone

\* Enough for a place to be no more private, and no less hashed, than before.
LEMMA NoMorePrivate ==
  ASSUME TypeInv, TypeInv', NEW o \in Owners, NEW i \in Index, NextSlot(o, i) = Slot(o, i),
         Full(o) <= Full(o)', Writing(o)' => Writing(o), pc[o] = "match" => pc'[o] = "match",
         o \in Seqs => metadata'[o] = metadata[o] \/ metadata'[o] = <<>>
  PROVE  /\ Private(o, i)' => Private(o, i)
         /\ Unhashed(o, i)' => Unhashed(o, i)
<1>1. Slot(o, i)' = Slot(o, i)
  BY SlotNext
<1>2. Listed(o, Slot(o, i))' => Listed(o, Slot(o, i))
  BY <1>1 DEF Listed
<1>3. Full(o) \in Nat /\ Full(o)' \in Nat /\ i \in Int
  BY FullType, NextFullTypes DEF Index
<1>4. i > Full(o)' => i > Full(o)
  BY <1>3
<1> QED BY <1>2, <1>4 DEF Private, Unhashed

-----------------------------------------------------------------------------
(* Steps of one owner, by what they do to its references.                  *)

RefInv == Balanced /\ StoreOK /\ OwnInv

\* What a step that makes nothing more private leaves of o.
NoMore(o) ==
  /\ Full(o) <= Full(o)' /\ (Writing(o)' => Writing(o))
  /\ pc[o] = "match" => pc'[o] = "match"
  /\ o \in Seqs => (metadata'[o] = metadata[o] \/ metadata'[o] = <<>>)
NotesKept(o) == o \in Seqs => UndoOf(o)' /\ MetaOf(o)'

LEMMA OthersKept ==
  ASSUME TypeInv, NEW o \in Owners, Alone(o)
  PROVE  \A q \in Owners \ {o} : SlotsKept(q)
  BY KeptSlots DEF Alone

LEMMA RefSteady ==
  ASSUME TypeInv, TypeInv', RefInv, NEW o \in Owners, Alone(o), SlotsKept(o),
         UNCHANGED storeVars, NoMore(o), NotesKept(o)
  PROVE  RefInv'
<1>1. Balanced /\ StoreOK /\ OwnInv
  BY DEF RefInv
<1>2. StoreOK' /\ NoNewHash /\ refcounts' = refcounts
  BY <1>1, StoreSame
<1>3. Balanced'
  BY <1>1, <1>2, OthersKept, BalancedSame
<1>4. \A i \in Index : NextSlot(o, i) \in {Slot(o, i), NoBlock}
  BY DEF SlotsKept
<1>5. \A i \in Index : NextSlot(o, i) = Slot(o, i) =>
        (Unhashed(o, i)' => Unhashed(o, i)) /\ (Private(o, i)' => Private(o, i))
  BY NoMorePrivate DEF NoMore
<1>6. OwnInv'
  BY <1>1, <1>2, <1>4, <1>5, OwnShrinks DEF NotesKept
<1> QED BY <1>2, <1>3, <1>6 DEF RefInv

LEMMA RefDrops ==
  ASSUME TypeInv, TypeInv', RefInv, NEW o \in Owners, Alone(o), NEW k \in Index, NEW b \in Blocks,
         SlotsKeptBut(o, k), Slot(o, k) = b, NextSlot(o, k) = NoBlock, UnrefBlock(b),
         NoMore(o), NotesKept(o)
  PROVE  RefInv'
<1>1. Balanced /\ StoreOK /\ OwnInv
  BY DEF RefInv
<1>2. Balanced' /\ refcounts[b] > 0
  BY <1>1, OthersKept, BalancedDrop
<1>3. StoreOK' /\ NoNewHash
  BY <1>1, <1>2, UnrefOK
<1>4. \A i \in Index : NextSlot(o, i) \in {Slot(o, i), NoBlock}
  BY DEF SlotsKeptBut
<1>5. \A i \in Index : NextSlot(o, i) = Slot(o, i) =>
        (Unhashed(o, i)' => Unhashed(o, i)) /\ (Private(o, i)' => Private(o, i))
  BY NoMorePrivate DEF NoMore
<1>6. OwnInv'
  BY <1>1, <1>3, <1>4, <1>5, OwnShrinks DEF NotesKept
<1> QED BY <1>2, <1>3, <1>6 DEF RefInv

\* A reference more to a block that is in use or hashed.
LEMMA RefAdds ==
  ASSUME TypeInv, TypeInv', RefInv, NEW o \in Owners, Alone(o), NEW k \in Index, NEW b \in Blocks,
         SlotsKeptBut(o, k), Slot(o, k) = NoBlock, NextSlot(o, k) = b, RefBlock(b), b \notin free,
         Unhashed(o, k)' => hashes[b] = NoHash,
         \A q \in Owners : \A j \in Index : Slot(q, j) = b => ~ Private(q, j),
         ~ Private(o, k)', NoMore(o), NotesKept(o)
  PROVE  RefInv'
<1>1. Balanced /\ StoreOK /\ OwnInv
  BY DEF RefInv
<1>2. /\ StoreOK' /\ NoNewHash /\ hashes' = hashes
      /\ refcounts' = [refcounts EXCEPT ![b] = refcounts[b] + 1]
  BY <1>1, RefOK DEF RefBlock
<1>3. Balanced'
  BY <1>1, <1>2, OthersKept, BalancedAdd
<1>4. \A i \in Index \ {k} :
        (Unhashed(o, i)' => Unhashed(o, i)) /\ (Private(o, i)' => Private(o, i))
  BY NoMorePrivate DEF NoMore, SlotsKeptBut
<1>5. OwnInv'
  BY <1>1, <1>2, <1>4, OwnGrows DEF NotesKept
<1> QED BY <1>2, <1>3, <1>5 DEF RefInv

\* A reference to a newly allocated block.
LEMMA RefAllocs ==
  ASSUME TypeInv, TypeInv', RefInv, NEW o \in Owners, Alone(o), NEW k \in Index, NEW b \in Blocks,
         SlotsKeptBut(o, k), Slot(o, k) = NoBlock, NextSlot(o, k) = b, AllocBlock(b),
         NoMore(o), NotesKept(o)
  PROVE  RefInv'
<1>1. Balanced /\ StoreOK /\ OwnInv
  BY DEF RefInv
<1>2. /\ StoreOK' /\ NoNewHash /\ refcounts[b] = 0 /\ hashes'[b] = NoHash
      /\ refcounts' = [refcounts EXCEPT ![b] = refcounts[b] + 1]
  BY <1>1, AllocOK
<1>3. Balanced'
  BY <1>1, <1>2, OthersKept, BalancedAdd
<1>4. \A q \in Owners : \A j \in Index : Slot(q, j) # b
  BY <1>1, <1>2, Uncounted
<1>5. \A i \in Index \ {k} :
        (Unhashed(o, i)' => Unhashed(o, i)) /\ (Private(o, i)' => Private(o, i))
  BY NoMorePrivate DEF NoMore, SlotsKeptBut
<1>6. OwnInv'
  BY <1>1, <1>2, <1>4, <1>5, OwnGrows DEF NotesKept
<1> QED BY <1>2, <1>3, <1>6 DEF RefInv

LEMMA RefExhausted ==
  ASSUME TypeInv, TypeInv', RefInv, NEW o \in Owners, Alone(o), SlotsKept(o),
         AllocExhausted, NoMore(o), NotesKept(o)
  PROVE  RefInv'
<1>1. Balanced /\ StoreOK /\ OwnInv
  BY DEF RefInv
<1>2. StoreOK' /\ NoNewHash /\ refcounts' = refcounts
  BY <1>1, ExhaustedOK
<1>3. Balanced'
  BY <1>1, <1>2, OthersKept, BalancedSame
<1>4. \A i \in Index : NextSlot(o, i) \in {Slot(o, i), NoBlock}
  BY DEF SlotsKept
<1>5. \A i \in Index : NextSlot(o, i) = Slot(o, i) =>
        (Unhashed(o, i)' => Unhashed(o, i)) /\ (Private(o, i)' => Private(o, i))
  BY NoMorePrivate DEF NoMore
<1>6. OwnInv'
  BY <1>1, <1>2, <1>4, <1>5, OwnShrinks DEF NotesKept
<1> QED BY <1>2, <1>3, <1>6 DEF RefInv

-----------------------------------------------------------------------------
(* Live blocks.                                                            *)

\* The findings' two scenarios apart: a windowed sequence of a session, whose
\* metadata outlives its blocks, and a chunk longer than the window, whose
\* first blocks are evicted before they are hashed.
NoStaleNotes == Windowed => SessionSeqs = {} /\ MaxChunk <= Window

LEMMA HeadBound ==
  ASSUME NEW h \in Nat, NEW n \in Nat, h * BlockSize <= n
  PROVE  h <= n \div BlockSize
<1>1. h * BlockSize \in Nat
  BY KvPoolConstants
<1>2. (h * BlockSize) \div BlockSize <= n \div BlockSize
  BY <1>1, DivMonotone, KvPoolConstants
<1> QED BY <1>2, WholeBlocks

LEMMA TailFits ==
  ASSUME NEW n \in Nat
  PROVE  /\ n \div BlockSize \in Nat /\ BlocksFor(n) \in Nat
         /\ BlocksFor(n) <= (n \div BlockSize) + 1
         /\ n \div BlockSize <= BlocksFor(n)
         /\ n % BlockSize = 0 => BlocksFor(n) = n \div BlockSize
<1> DEFINE d == BlockSize
           q == n \div d
<1>1. d \in Nat \ {0} /\ d >= 1 /\ q \in Nat /\ d * q <= n /\ n < d * (q + 1)
  BY KvPoolConstants, DivBounds
<1>2. n \div BlockSize <= BlocksFor(n) /\ BlocksFor(n) \in Nat
  BY CompletedFit, BlocksForType
<1>3. n % BlockSize = 0 => n = q * BlockSize
  BY <1>1
<1>4. n % BlockSize = 0 => BlocksFor(n) = q
  BY <1>1, <1>3, WholeBlocks
<1>5. BlocksFor(n) <= q + 1
  <2>1. (q + 1) * BlockSize \in Nat /\ n <= (q + 1) * BlockSize
    BY <1>1
  <2>2. BlocksFor(n) <= BlocksFor((q + 1) * BlockSize)
    BY <2>1, BlocksForMonotone
  <2>3. q + 1 \in Nat
    BY <1>1
  <2> QED BY <2>2, <2>3, WholeBlocks
<1> QED BY <1>1, <1>2, <1>4, <1>5

LEMMA HeadBefore ==
  ASSUME TableInv, NEW s \in Seqs, pc[s] \notin {"return", "copying"},
         NoStaleNotes \/ pc[s] \notin {"evict", "note"}
  PROVE  head[s] <= Len(hist[s]) \div BlockSize /\ head[s] < TailIndex(s)
<1>1. /\ s \in Owners /\ head[s] \in Nat /\ Len(hist[s]) \in Nat /\ Frontier(s) \in Nat
      /\ Len(tokens[s]) \in Nat /\ Frontier(s) = Len(hist[s]) + Len(tokens[s])
  BY SequenceType DEF TableInv, TypeInv, Frontier
<1>2. head[s] * BlockSize <= EvictionStart(Reach(s)) /\ Reach(s) \in Nat
      /\ head[s] * BlockSize \in Nat
  BY <1>1, ReachType DEF TableInv, WindowInv, Behind
<1>3. EvictionStart(Reach(s)) <= Len(hist[s])
  <2>1. CASE pc[s] \notin {"evict", "note"}
    BY <1>1, <2>1, EvictionStartMonotone DEF Reach
  <2>2. CASE pc[s] \in {"evict", "note"} /\ NoStaleNotes
    <3>1. Reach(s) = Frontier(s)
      BY <2>2 DEF Reach
    <3>2. Len(tokens[s]) <= MaxChunk
      BY <2>2 DEF TableInv, LengthInv, RunLengths, Executing
    <3>3. CASE Windowed
      <4>1. MaxChunk <= Window
        BY <2>2, <3>3 DEF NoStaleNotes
      <4>2. EvictionStart(Reach(s)) =
              IF Frontier(s) > Window THEN Frontier(s) - Window ELSE 0
        BY <3>1, <3>3 DEF EvictionStart
      <4>3. MaxChunk \in Int /\ Window \in Int
        BY KvPoolConstants
      <4>4. \A h, t, m, w \in Int : t <= m /\ m <= w => h + t - w <= h
        OBVIOUS
      <4>5. Frontier(s) - Window <= Len(hist[s])
        BY <1>1, <3>2, <4>1, <4>3, <4>4
      <4>6. EvictionStart(Reach(s)) = Frontier(s) - Window \/ EvictionStart(Reach(s)) = 0
        BY <4>2
      <4>7. 0 <= Len(hist[s])
        BY <1>1
      <4> QED BY <4>5, <4>6, <4>7
    <3>4. CASE ~ Windowed
      BY <1>1, <3>4 DEF EvictionStart
    <3> QED BY <3>3, <3>4
  <2> QED BY <2>1, <2>2
<1>4. EvictionStart(Reach(s)) \in Nat
  BY <1>2, EvictionStartMonotone
<1>5. head[s] * BlockSize <= Len(hist[s])
  BY <1>1, <1>2, <1>3, <1>4
<1>6. head[s] <= Len(hist[s]) \div BlockSize
  BY <1>1, <1>5, HeadBound
<1>7. Len(hist[s]) \div BlockSize \in Nat
  BY <1>1, DivBounds, KvPoolConstants
<1> QED BY <1>1, <1>6, <1>7 DEF TailIndex

LEMMA TableSlot ==
  ASSUME TypeInv, NEW o \in Owners, NEW i \in Int, head[o] < i, i <= Len(blocks[o])
  PROVE  /\ i \in Index /\ i > 0 /\ Slot(o, i) = blocks[o][i] /\ blocks[o][i] \in Blocks
         /\ Slot(o, i) # NoBlock
<1>1. head[o] \in Nat /\ blocks[o] \in Seq(Blocks) /\ Len(blocks[o]) \in Nat
  BY Typed
<1>2. i > 0 /\ i \in 1 .. Len(blocks[o])
  BY <1>1
<1>3. blocks[o][i] \in Blocks
  BY <1>1, <1>2
<1> QED BY <1>2, <1>3, KvPoolConstants DEF Index, Slot

LEMMA SlotLive ==
  ASSUME TypeInv, NEW o \in Owners, NEW i \in Index, i > 0, Slot(o, i) # NoBlock
  PROVE  head[o] < i /\ i <= Len(blocks[o]) /\ Slot(o, i) = blocks[o][i]
  BY DEF Slot

\* The tail of a sequence that is not shared is the sequence's alone.
LEMMA SoleTail ==
  ASSUME TableInv, Balanced, NEW s \in Seqs, pc[s] \in {"idle", "prepare"}, ~ TailShared(s),
         NEW i \in Index, i > Len(hist[s]) \div BlockSize, Slot(s, i) # NoBlock
  PROVE  Sole(s, i)
<1>1. TypeInv /\ s \in Owners /\ Len(hist[s]) \in Nat /\ Len(blocks[s]) \in Nat
      /\ Len(hist[s]) \div BlockSize \in Nat /\ i \in Int
  BY SequenceType, DivBounds, KvPoolConstants DEF TableInv, TypeInv, Index
<1>2. Len(blocks[s]) = BlocksFor(Len(hist[s]))
  BY <1>1 DEF TableInv, LengthInv, LengthsOf
<1>3. i > 0 /\ i <= Len(blocks[s]) /\ Slot(s, i) = blocks[s][i]
  <2>1. i > 0
    BY <1>1
  <2> QED BY <1>1, <2>1, SlotLive
<1>4. i = TailIndex(s) /\ Len(hist[s]) % BlockSize # 0
  BY <1>1, <1>2, <1>3, TailFits DEF TailIndex
<1>5. HasTail(s)
  BY <1>3, <1>4 DEF HasTail
<1>6. ~ (refcounts[Slot(s, i)] > 1) /\ Slot(s, i) \in Blocks
  BY <1>1, <1>3, <1>4, <1>5, SlotOf DEF TailShared
<1> QED BY <1>1, <1>6, OnceCounted DEF Sole

\* Metadata names complete blocks only.
LEMMA NotListed ==
  ASSUME TableInv, RefInv, NEW s \in Seqs, pc[s] # "return", NEW i \in Index,
         i > Len(hist[s]) \div BlockSize, Slot(s, i) # NoBlock
  PROVE  ~ Listed(s, Slot(s, i))
<1> SUFFICES ASSUME Listed(s, Slot(s, i)) PROVE FALSE
  OBVIOUS
<1>1. TypeInv /\ s \in Owners /\ Len(hist[s]) \in Nat /\ Len(blocks[s]) \in Nat
      /\ Len(hist[s]) \div BlockSize \in Nat /\ i \in Int /\ head[s] \in Nat
  BY SequenceType, DivBounds, KvPoolConstants DEF TableInv, TypeInv, Index
<1>2. PICK k \in DOMAIN metadata[s] : metadata[s][k][2] = Slot(s, i)
  BY DEF Listed
<1>3. PICK j \in head[s] + 1 .. Len(hist[s]) \div BlockSize :
        metadata[s][k] = <<HashAt(hist[s], j), blocks[s][j]>>
  BY <1>2 DEF RefInv, OwnInv, MetaOf
<1>4. i > 0
  BY <1>1
<1>5. i <= Len(blocks[s])
  BY <1>1, <1>4, SlotLive
<1>6. head[s] < j /\ j <= Len(blocks[s]) /\ j # i /\ j \in Int
  BY <1>1, <1>3, <1>5
<1>7. Slot(s, j) = Slot(s, i) /\ j \in Index
  BY <1>1, <1>2, <1>3, <1>6, TableSlot
<1>8. Private(s, i)
  BY <1>4 DEF Private
<1> QED BY <1>1, <1>6, <1>7, <1>8 DEF RefInv, OwnInv, PrivateInv, Sole

LEMMA MetaKept ==
  ASSUME NEW s \in Seqs, MetaOf(s), pc[s] # "return", metadata'[s] = metadata[s],
         hist'[s] = hist[s], head'[s] = head[s],
         \A i \in head[s] + 1 .. Len(hist[s]) \div BlockSize : blocks'[s][i] = blocks[s][i]
  PROVE  MetaOf(s)'
  BY DEF MetaOf, HashAt

LEMMA UndoRest ==
  ASSUME NEW s \in Seqs, pc'[s] \notin Undoable
  PROVE  UndoOf(s)'
  BY DEF UndoOf, Undoable, Executing

\* A history of fewer tokens than a block has no metadata.
LEMMA NoMetadata ==
  ASSUME TypeInv, NEW s \in Seqs, MetaOf(s), pc[s] # "return", hist[s] = <<>>
  PROVE  metadata[s] = <<>> /\ Len(hist[s]) \div BlockSize = 0
<1>1. head[s] \in Nat /\ metadata[s] \in Seq(Seq(Token) \X Blocks)
  BY Typed
<1>2. Len(hist[s]) \div BlockSize = 0
  BY WholeBlocks, KvPoolConstants
<1>3. DOMAIN metadata[s] = {}
  BY <1>1, <1>2 DEF MetaOf
<1>4. Len(metadata[s]) = 0
  <2>1. DOMAIN metadata[s] = 1 .. Len(metadata[s]) /\ Len(metadata[s]) \in Nat
    BY <1>1, LenProperties
  <2>2. ASSUME Len(metadata[s]) > 0 PROVE FALSE
    <3>1. 1 \in DOMAIN metadata[s]
      BY <2>1, <2>2
    <3> QED BY <1>3, <3>1
  <2> QED BY <2>1, <2>2
<1> QED BY <1>1, <1>2, <1>4, EmptySeq

-----------------------------------------------------------------------------
(* Steps that change no reference.                                         *)

\* All owners keep their references, and nothing becomes more private.
LEMMA RefEverySteady ==
  ASSUME TypeInv, TypeInv', RefInv, UNCHANGED storeVars, \A q \in Owners : SlotsKept(q),
         \A q \in Owners : \A i \in Index : Slot(q, i) # NoBlock =>
           (Unhashed(q, i)' => Unhashed(q, i)) /\ (Private(q, i)' => Private(q, i)),
         \A s \in Seqs : UndoOf(s)' /\ MetaOf(s)'
  PROVE  RefInv'
<1>1. Balanced /\ StoreOK /\ OwnInv
  BY DEF RefInv
<1>2. StoreOK' /\ NoNewHash /\ refcounts' = refcounts
  BY <1>1, StoreSame
<1>3. Balanced'
  BY <1>1, <1>2, BalancedSame
<1>4. \A q \in Owners : \A i \in Index : NextSlot(q, i) = Slot(q, i)
  BY DEF SlotsKept
<1>5. UnhashedInv'
  <2> SUFFICES ASSUME NEW q \in Owners, NEW i \in Index,
                      NextSlot(q, i) # NoBlock, Unhashed(q, i)'
               PROVE  hashes'[NextSlot(q, i)] = NoHash
    BY SlotNext DEF UnhashedInv
  <2>1. Slot(q, i) # NoBlock /\ Unhashed(q, i) /\ Slot(q, i) \in Blocks
    BY <1>4, SlotOf
  <2>2. hashes[Slot(q, i)] = NoHash
    BY <1>1, <2>1 DEF OwnInv, UnhashedInv
  <2> QED BY <1>2, <1>4, <2>1, <2>2 DEF NoNewHash
<1>6. PrivateInv'
  <2> SUFFICES ASSUME NEW q \in Owners, NEW i \in Index,
                      NextSlot(q, i) # NoBlock, Private(q, i)',
                      NEW p \in Owners, NEW j \in Index, NextSlot(p, j) = NextSlot(q, i)
               PROVE  p = q /\ j = i
    BY SlotNext DEF PrivateInv, Sole
  <2>1. Slot(q, i) # NoBlock /\ Private(q, i) /\ Slot(p, j) = Slot(q, i)
    BY <1>4
  <2> QED BY <1>1, <2>1 DEF OwnInv, PrivateInv, Sole
<1>7. OwnInv'
  BY <1>5, <1>6 DEF OwnInv
<1> QED BY <1>2, <1>3, <1>7 DEF RefInv

\* o alone takes a step; a place may become private only if it is o's alone.
LEMMA RefKeeps ==
  ASSUME TypeInv, TypeInv', RefInv, NEW o \in Owners, Alone(o), SlotsKept(o),
         UNCHANGED storeVars,
         \A i \in Index : Slot(o, i) # NoBlock =>
           /\ Unhashed(o, i)' => Unhashed(o, i)
           /\ Private(o, i)' => Private(o, i) \/ Sole(o, i),
         NotesKept(o)
  PROVE  RefInv'
<1>1. Balanced /\ StoreOK /\ OwnInv
  BY DEF RefInv
<1>2. StoreOK' /\ NoNewHash /\ refcounts' = refcounts
  BY <1>1, StoreSame
<1>3. Balanced'
  BY <1>1, <1>2, OthersKept, BalancedSame
<1>4. \A i \in Index : NextSlot(o, i) \in {Slot(o, i), NoBlock}
  BY DEF SlotsKept
<1>5. OwnInv'
  BY <1>1, <1>2, <1>4, OwnShrinks DEF NotesKept
<1> QED BY <1>2, <1>3, <1>5 DEF RefInv

LEMMA SlotsSteady ==
  ASSUME NEW o \in Owners, blocks'[o] = blocks[o], head'[o] = head[o],
         o \in Seqs => tail'[o] = tail[o] /\ dropping'[o] = dropping[o]
  PROVE  SlotsKept(o)
  BY DEF SlotsKept, Slot, NextSlot

LEMMA FullSteady ==
  ASSUME NEW o \in Owners, hist'[o] = hist[o], pc[o] \notin {"note", "copying"},
         pc'[o] \notin {"note", "copying"}
  PROVE  Full(o)' = Full(o) /\ Full(o) = Len(hist[o]) \div BlockSize
  BY DEF Full

LEMMA NoMoreIf ==
  ASSUME TypeInv, NEW o \in Owners, hist'[o] = hist[o], pc[o] \notin {"note", "copying"},
         pc'[o] \notin {"note", "copying"}, Writing(o)' => Writing(o),
         pc[o] = "match" => pc'[o] = "match", o \in Seqs => metadata'[o] = metadata[o]
  PROVE  NoMore(o)
<1>1. Full(o)' = Full(o) /\ Full(o) \in Nat
  BY FullSteady, FullType
<1>2. Full(o) <= Full(o)'
  BY <1>1
<1> QED BY <1>2 DEF NoMore

LEMMA UndoSteady ==
  ASSUME NEW s \in Seqs, UndoOf(s), blocks'[s] = blocks[s], hist'[s] = hist[s],
         before'[s] = before[s], tail'[s] = tail[s],
         pc'[s] \in Undoable => pc[s] \in Undoable,
         pc'[s] \in {"retain", "prepare", "copy"} => pc[s] \in {"retain", "prepare", "copy"},
         pc'[s] = "copy" => tail[s] # NoBlock
  PROVE  UndoOf(s)'
  BY DEF UndoOf, TailIndex

LEMMA MetaSteady ==
  ASSUME NEW s \in Seqs, MetaOf(s), pc[s] # "return" \/ pc'[s] = "return",
         blocks'[s] = blocks[s], head'[s] = head[s], hist'[s] = hist[s],
         metadata'[s] = metadata[s]
  PROVE  MetaOf(s)'
  BY DEF MetaOf

LEMMA MetaEmpty ==
  ASSUME NEW s \in Seqs, metadata'[s] = <<>>
  PROVE  MetaOf(s)'
  BY DEF MetaOf

LEMMA SeqSteady ==
  ASSUME TypeInv, TypeInv', RefInv, NEW s \in Seqs, Alone(s), SameTable(s), SameUndo(s),
         SameMeta(s), UNCHANGED storeVars, pc[s] \notin {"note", "copying", "match"},
         pc'[s] \notin {"note", "copying"}, pc[s] # "return", Writing(s)' => Writing(s),
         pc'[s] \in Undoable => pc[s] \in Undoable,
         pc'[s] \in {"retain", "prepare", "copy"} => pc[s] \in {"retain", "prepare", "copy"},
         pc'[s] = "copy" => tail[s] # NoBlock
  PROVE  RefInv'
<1> USE DEF SameTable, SameUndo, SameMeta
<1>1. s \in Owners /\ UndoOf(s) /\ MetaOf(s)
  BY Typed DEF RefInv, OwnInv
<1>2. NotesKept(s)
  BY <1>1, UndoSteady, MetaSteady DEF NotesKept
<1>3. SlotsKept(s)
  BY <1>1, SlotsSteady
<1>4. NoMore(s)
  BY <1>1, NoMoreIf
<1> QED BY <1>1, <1>2, <1>3, <1>4, RefSteady

LEMMA RefNewSequence ==
  ASSUME TypeInv, TypeInv', RefInv, NEW s \in Seqs, NewSequence(s)
  PROVE  RefInv'
<1>1. /\ Alone(s) /\ pc[s] = Unused /\ pc'[s] = "idle"
      /\ SameTable(s) /\ SameSeq(s) /\ SameStore
  BY NewSequenceEffect
<1> QED BY <1>1, SeqSteady DEF SameSeq, SameRun, SameStore, storeVars, Writing, Undoable,
           Executing, Unused

LEMMA RefMatchBegin ==
  ASSUME TypeInv, TypeInv', RefInv, NEW s \in Seqs, NEW t, MatchBegin(s, t)
  PROVE  RefInv'
<1>1. /\ Alone(s) /\ pc[s] = "idle" /\ pc'[s] = "match"
      /\ SameTable(s) /\ SameUndo(s) /\ SameMeta(s) /\ SameStore
  BY MatchBeginEffect
<1> QED BY <1>1, SeqSteady DEF SameStore, storeVars, Writing, Undoable, Executing

LEMMA RefWriteRows ==
  ASSUME TypeInv, TypeInv', RefInv, NEW s \in Seqs, WriteRows(s)
  PROVE  RefInv'
<1>1. /\ Alone(s) /\ pc[s] = "alloc" /\ pc'[s] = "computed"
      /\ SameTable(s) /\ SameSeq(s) /\ UNCHANGED storeVars
  BY WriteRowsEffect
<1> QED BY <1>1, SeqSteady DEF SameSeq, SameRun, storeVars, Writing, Undoable, Executing

LEMMA RefFail ==
  ASSUME TypeInv, TypeInv', RefInv, NEW s \in Seqs, Fail(s)
  PROVE  RefInv'
<1>1. /\ Alone(s) /\ pc[s] \in {"prepare", "alloc", "computed"} /\ pc'[s] = "rollback"
      /\ SameTable(s) /\ SameSeq(s) /\ SameStore
  BY FailEffect
<1> QED BY <1>1, SeqSteady DEF SameSeq, SameRun, SameStore, storeVars, Writing, Undoable, Executing

LEMMA RefCommit ==
  ASSUME TypeInv, TypeInv', RefInv, NEW s \in Seqs, Commit(s)
  PROVE  RefInv'
<1>1. /\ Alone(s) /\ pc[s] = "computed" /\ pc'[s] = "evict"
      /\ SameTable(s) /\ SameSeq(s) /\ SameStore
  BY CommitEffect
<1> QED BY <1>1, SeqSteady DEF SameSeq, SameRun, SameStore, storeVars, Writing, Undoable, Executing

LEMMA RefStartsReturn ==
  ASSUME TypeInv, TypeInv', RefInv, NEW o \in Owners, StartsReturn(o)
  PROVE  RefInv'
<1>1. /\ Alone(o) /\ pc[o] = "idle" /\ pc'[o] = "return"
      /\ SameTable(o) /\ (o \in Seqs => SameSeq(o)) /\ SameStore
  BY DEF StartsReturn
<1>2. NotesKept(o)
  BY <1>1, UndoRest DEF NotesKept, MetaOf, Undoable, Executing
<1>3. SlotsKept(o)
  BY <1>1, SlotsSteady DEF SameTable, SameSeq, SameRun, SameUndo
<1>4. NoMore(o)
  BY <1>1, NoMoreIf DEF SameTable, SameSeq, SameMeta, Writing
<1> QED BY <1>1, <1>2, <1>3, <1>4, RefSteady DEF SameStore, storeVars

LEMMA RefQuiet ==
  ASSUME TypeInv, TypeInv', RefInv, Quiet
  PROVE  RefInv'
<1>1. ASSUME NEW q \in Owners
      PROVE  /\ SlotsKept(q)
             /\ \A i \in Index : (Private(q, i)' <=> Private(q, i)) /\ (Unhashed(q, i)' <=> Unhashed(q, i))
             /\ q \in Seqs => (UndoOf(q) => UndoOf(q)') /\ (MetaOf(q) => MetaOf(q)')
  <2>1. Kept(q) /\ (pc[q] = "copying" => Kept(source[q]))
    BY SourceIdle DEF Quiet
  <2> QED BY <2>1, PlaceFrame
<1>2. \A s \in Seqs : UndoOf(s)' /\ MetaOf(s)'
  BY <1>1, Typed DEF RefInv, OwnInv
<1>3. UNCHANGED storeVars
  BY DEF Quiet, SameStore, storeVars
<1> QED BY <1>1, <1>2, <1>3, RefEverySteady

\* A handle or a fork starts with no live block.
LEMMA RefStartsCopy ==
  ASSUME TypeInv, TypeInv', LengthInv, RefInv, NEW from, NEW to, StartsCopy(from, to)
  PROVE  RefInv'
<1> USE DEF StartsCopy
<1>1. from \in Owners /\ to \in Owners /\ from # to /\ blocks[from] \in Seq(Blocks)
      /\ head[from] \in Nat /\ head[from] <= Len(blocks[from])
  BY Typed
<1>2. \A i \in Index : Slot(to, i) = NoBlock /\ NextSlot(to, i) = NoBlock
  <2>1. blocks[to] = <<>> /\ head[to] = 0
    BY DEF LengthInv, LengthsOf
  <2>2. Len(blocks'[to]) = head[from] /\ head'[to] = head[from]
    BY <1>1, PrefixOf
  <2>3. to \in Seqs => tail[to] = NoBlock /\ dropping[to] = NoBlock
                       /\ tail'[to] = NoBlock /\ dropping'[to] = NoBlock
    BY DEF TypeInv, Progress, ProgressOf, Executing, Unused, SameSeq, SameRun, SameUndo
  <2> QED BY <1>1, <2>1, <2>2, <2>3 DEF Slot, NextSlot, Index
<1>3. Kept(from) \/ (from \in Seqs /\ pc[from] = "idle" /\ pc'[from] = "lent")
  BY DEF Kept
<1>4. /\ SlotsKept(from)
      /\ \A i \in Index : (Private(from, i)' => Private(from, i)) /\ (Unhashed(from, i)' => Unhashed(from, i))
      /\ from \in Seqs => (UndoOf(from) => UndoOf(from)') /\ (MetaOf(from) => MetaOf(from)')
  <2>1. CASE Kept(from)
    BY <2>1, <1>1, PlaceFrame
  <2>2. CASE from \in Seqs /\ pc[from] = "idle" /\ pc'[from] = "lent"
    <3>1. SlotsKept(from)
      BY <2>2, SlotsSteady DEF SameTable, SameSeq, SameRun, SameUndo
    <3>2. NoMore(from)
      BY <2>2, NoMoreIf DEF SameTable, SameSeq, SameMeta, Writing
    <3>3. \A i \in Index : (Private(from, i)' => Private(from, i)) /\ (Unhashed(from, i)' => Unhashed(from, i))
      BY <3>1, <3>2, NoMorePrivate DEF NoMore, SlotsKept
    <3>4. UndoOf(from)'
      BY <2>2, UndoRest DEF Undoable, Executing
    <3>5. MetaOf(from) => MetaOf(from)'
      BY <2>2, MetaSteady DEF SameTable, SameSeq, SameMeta
    <3> QED BY <3>1, <3>3, <3>4, <3>5
  <2> QED BY <1>3, <2>1, <2>2
<1>5. ASSUME NEW q \in Owners \ {from, to}
      PROVE  /\ SlotsKept(q)
             /\ \A i \in Index : (Private(q, i)' <=> Private(q, i)) /\ (Unhashed(q, i)' <=> Unhashed(q, i))
             /\ q \in Seqs => (UndoOf(q) => UndoOf(q)') /\ (MetaOf(q) => MetaOf(q)')
  <2>1. Kept(q) /\ (pc[q] = "copying" => Kept(source[q]))
    BY SourceIdle DEF Kept
  <2> QED BY <2>1, PlaceFrame
<1>6. to \in Seqs => UndoOf(to)' /\ MetaOf(to)'
  <2>1. to \in Seqs => metadata[to] = <<>>
    BY NoMetadata DEF RefInv, OwnInv, LengthInv, LengthsOf, Unused
  <2> QED BY <2>1, UndoRest, MetaEmpty DEF SameSeq, SameMeta, Undoable, Executing
<1>7. \A q \in Owners : SlotsKept(q)
  BY <1>2, <1>4, <1>5 DEF SlotsKept
<1>8. \A s \in Seqs : UndoOf(s)' /\ MetaOf(s)'
  BY <1>4, <1>5, <1>6, Typed DEF RefInv, OwnInv
<1>9. UNCHANGED storeVars
  BY DEF SameStore, storeVars
<1> QED BY <1>2, <1>4, <1>5, <1>7, <1>8, <1>9, RefEverySteady

LEMMA RefEndsCopy ==
  ASSUME TypeInv, TypeInv', LengthInv, RefInv, NEW o \in Owners, NEW from, EndsCopy(o, from)
  PROVE  RefInv'
<1> USE DEF EndsCopy
<1>1. from \in Owners /\ from # o
  OBVIOUS
<1>2. o \in Seqs => metadata[o] = <<>> /\ metadata'[o] = <<>>
  BY NoMetadata DEF RefInv, OwnInv, LengthInv, LengthsOf, SameSeq, SameMeta
<1>3. /\ SlotsKept(o)
      /\ \A i \in Index : (Private(o, i)' => Private(o, i)) /\ (Unhashed(o, i)' => Unhashed(o, i))
      /\ o \in Seqs => UndoOf(o)' /\ MetaOf(o)'
  <2>1. SlotsKept(o)
    BY SlotsSteady DEF SameSeq, SameRun, SameUndo
  <2>2. Full(o)' = Full(o) /\ Full(o) \in Nat
    BY FullType DEF Full
  <2>3. ~ Writing(o)'
    BY DEF Writing
  <2>4. NoMore(o)
    BY <1>2, <2>2, <2>3 DEF NoMore
  <2>5. \A i \in Index : (Private(o, i)' => Private(o, i)) /\ (Unhashed(o, i)' => Unhashed(o, i))
    BY <2>1, <2>4, NoMorePrivate DEF NoMore, SlotsKept
  <2> QED BY <1>2, <2>1, <2>5, UndoRest, MetaEmpty DEF Undoable, Executing
<1>4. Kept(from) \/ (from \in Seqs /\ pc[from] = "lent" /\ pc'[from] = "idle")
  BY DEF Kept
<1>5. /\ SlotsKept(from)
      /\ \A i \in Index : (Private(from, i)' => Private(from, i)) /\ (Unhashed(from, i)' => Unhashed(from, i))
      /\ from \in Seqs => (UndoOf(from) => UndoOf(from)') /\ (MetaOf(from) => MetaOf(from)')
  <2>1. CASE Kept(from)
    BY <2>1, <1>1, PlaceFrame
  <2>2. CASE from \in Seqs /\ pc[from] = "lent" /\ pc'[from] = "idle"
    <3>1. SlotsKept(from)
      BY <2>2, SlotsSteady DEF SameTable, SameSeq, SameRun, SameUndo
    <3>2. NoMore(from)
      BY <2>2, NoMoreIf DEF SameTable, SameSeq, SameMeta, Writing
    <3>3. \A i \in Index : (Private(from, i)' => Private(from, i)) /\ (Unhashed(from, i)' => Unhashed(from, i))
      BY <3>1, <3>2, NoMorePrivate DEF NoMore, SlotsKept
    <3>4. UndoOf(from)'
      BY <2>2, UndoRest DEF Undoable, Executing
    <3>5. MetaOf(from) => MetaOf(from)'
      BY <2>2, MetaSteady DEF SameTable, SameSeq, SameMeta
    <3> QED BY <3>1, <3>3, <3>4, <3>5
  <2> QED BY <1>4, <2>1, <2>2
<1>6. ASSUME NEW q \in Owners \ {from, o}
      PROVE  /\ SlotsKept(q)
             /\ \A i \in Index : (Private(q, i)' <=> Private(q, i)) /\ (Unhashed(q, i)' <=> Unhashed(q, i))
             /\ q \in Seqs => (UndoOf(q) => UndoOf(q)') /\ (MetaOf(q) => MetaOf(q)')
  <2>1. Kept(q) /\ (pc[q] = "copying" => Kept(source[q]))
    BY SourceIdle DEF Kept
  <2> QED BY <2>1, PlaceFrame
<1>7. \A q \in Owners : SlotsKept(q)
  BY <1>3, <1>5, <1>6
<1>8. \A s \in Seqs : UndoOf(s)' /\ MetaOf(s)'
  BY <1>3, <1>5, <1>6, Typed DEF RefInv, OwnInv
<1>9. UNCHANGED storeVars
  BY DEF SameStore, storeVars
<1> QED BY <1>3, <1>5, <1>6, <1>7, <1>8, <1>9, RefEverySteady

-----------------------------------------------------------------------------
(* Matching, and the start of a transaction.                               *)

\* What is known of a sequence's table in the steps below.
LEMMA SeqShape ==
  ASSUME TableInv, NEW s \in Seqs
  PROVE  /\ TypeInv /\ LengthInv /\ s \in Owners /\ blocks[s] \in Seq(Blocks) /\ before[s] \in Seq(Blocks)
         /\ head[s] \in Nat /\ head[s] <= Len(blocks[s]) /\ Len(blocks[s]) \in Nat
         /\ Len(before[s]) \in Nat /\ Len(hist[s]) \in Nat /\ hist[s] \in Seq(Token)
         /\ Len(hist[s]) \div BlockSize \in Nat /\ BlocksFor(Len(hist[s])) \in Nat
         /\ TailIndex(s) = (Len(hist[s]) \div BlockSize) + 1
         /\ TailIndex(s) \in Nat \ {0} /\ TailIndex(s) \in Index /\ TailIndex(s) > 0
         /\ Len(hist[s]) \div BlockSize <= BlocksFor(Len(hist[s]))
         /\ BlocksFor(Len(hist[s])) <= TailIndex(s)
         /\ -1 \in Index /\ 0 \in Index
<1>1. /\ TypeInv /\ LengthInv /\ s \in Owners /\ blocks[s] \in Seq(Blocks)
      /\ before[s] \in Seq(Blocks) /\ head[s] \in Nat /\ head[s] <= Len(blocks[s])
      /\ Len(blocks[s]) \in Nat /\ Len(before[s]) \in Nat /\ Len(hist[s]) \in Nat
      /\ hist[s] \in Seq(Token) /\ TailIndex(s) \in Nat \ {0}
  BY SequenceType DEF TableInv, TypeInv
<1>2. /\ Len(hist[s]) \div BlockSize \in Nat /\ BlocksFor(Len(hist[s])) \in Nat
      /\ BlocksFor(Len(hist[s])) <= (Len(hist[s]) \div BlockSize) + 1
      /\ Len(hist[s]) \div BlockSize <= BlocksFor(Len(hist[s]))
  BY <1>1, TailFits
<1>3. TailIndex(s) \in Index /\ TailIndex(s) > 0 /\ -1 \in Index /\ 0 \in Index
  BY <1>1 DEF Index
<1> QED BY <1>1, <1>2, <1>3 DEF TailIndex

LEMMA SoleCount ==
  ASSUME TypeInv, Balanced, NEW b \in Blocks, NEW o \in Owners, NEW i \in Index,
         Slot(o, i) = b, Sole(o, i)
  PROVE  ~ (refcounts[b] > 1)
<1>1. <<o, i>> \in Refs(b) /\ Refs(b) = {r \in Owners \X Index : Slot(r[1], r[2]) = b}
  BY Named, RefsAre
<1>2. \A r \in Refs(b) : r = <<o, i>>
  BY <1>1 DEF Sole
<1>3. Refs(b) = {<<o, i>>}
  BY <1>1, <1>2
<1>4. Cardinality(Refs(b)) = 1
  BY <1>3, FS_Singleton
<1> QED BY <1>4 DEF Balanced

\* A block that somebody names is counted and not free.
LEMMA NamedUsed ==
  ASSUME TypeInv, RefInv, NEW b \in Blocks, NEW o \in Owners, NEW i \in Index, Slot(o, i) = b
  PROVE  refcounts[b] > 0 /\ b \notin free
<1>1. refcounts[b] > 0
  BY NamedCounted DEF RefInv
<1> QED BY <1>1 DEF RefInv, StoreOK

\* A block named at two places is private nowhere.
LEMMA SharedPlaces ==
  ASSUME TypeInv, RefInv, NEW b \in Blocks, NEW o \in Owners, NEW i \in Index, Slot(o, i) = b,
         ~ Private(o, i), NEW q \in Owners, NEW j \in Index, Slot(q, j) = b
  PROVE  ~ Private(q, j)
<1> SUFFICES ASSUME Private(q, j) PROVE FALSE
  OBVIOUS
<1>1. b # NoBlock
  BY KvPoolConstants
<1>2. Sole(q, j)
  BY <1>1 DEF RefInv, OwnInv, PrivateInv
<1> QED BY <1>2 DEF Sole

\* The next place of o's table.
LEMMA PushSlots ==
  ASSUME TypeInv, NEW o \in Owners, NEW b \in Blocks, blocks'[o] = Append(blocks[o], b),
         head'[o] = head[o], o \in Seqs => tail'[o] = tail[o] /\ dropping'[o] = dropping[o]
  PROVE  /\ Len(blocks[o]) + 1 \in Index /\ Len(blocks[o]) + 1 > 0
         /\ SlotsKeptBut(o, Len(blocks[o]) + 1)
         /\ Slot(o, Len(blocks[o]) + 1) = NoBlock /\ NextSlot(o, Len(blocks[o]) + 1) = b
         /\ Len(blocks'[o]) = Len(blocks[o]) + 1
         /\ \A i \in 1 .. Len(blocks[o]) : blocks'[o][i] = blocks[o][i]
<1>1. /\ blocks[o] \in Seq(Blocks) /\ head[o] \in Nat /\ head[o] <= Len(blocks[o])
      /\ Len(blocks[o]) \in Nat
  BY Typed
<1>2. /\ Len(blocks'[o]) = Len(blocks[o]) + 1 /\ blocks'[o][Len(blocks[o]) + 1] = b
      /\ \A i \in 1 .. Len(blocks[o]) : blocks'[o][i] = blocks[o][i]
  BY <1>1, AppendProperties
<1>3. Len(blocks[o]) + 1 \in Index /\ Len(blocks[o]) + 1 > 0
  BY <1>1 DEF Index
<1>4. Slot(o, Len(blocks[o]) + 1) = NoBlock
  BY <1>1, <1>3 DEF Slot
<1>5. NextSlot(o, Len(blocks[o]) + 1) = b
  BY <1>1, <1>2, <1>3 DEF NextSlot
<1>6. ASSUME NEW i \in Index, i # Len(blocks[o]) + 1 PROVE NextSlot(o, i) = Slot(o, i)
  <2>1. CASE i > 0
    <3>1. i \in Nat /\ (i <= Len(blocks'[o]) <=> i <= Len(blocks[o]))
      BY <1>1, <1>2, <1>6, <2>1 DEF Index
    <3>2. i <= Len(blocks[o]) => blocks'[o][i] = blocks[o][i]
      BY <1>2, <2>1, <3>1
    <3> QED BY <2>1, <3>1, <3>2 DEF Slot, NextSlot
  <2>2. CASE ~ (i > 0)
    BY <2>2 DEF Slot, NextSlot
  <2> QED BY <2>1, <2>2
<1> QED BY <1>2, <1>3, <1>4, <1>5, <1>6 DEF SlotsKeptBut

\* The last place of o's table is given up.
LEMMA PopSlots ==
  ASSUME TypeInv, NEW o \in Owners, blocks'[o] = Front(blocks[o]), Len(blocks[o]) > head[o],
         head'[o] = head[o], o \in Seqs => tail'[o] = tail[o] /\ dropping'[o] = dropping[o]
  PROVE  /\ Len(blocks[o]) \in Index /\ Last(blocks[o]) \in Blocks
         /\ SlotsKeptBut(o, Len(blocks[o]))
         /\ Slot(o, Len(blocks[o])) = Last(blocks[o]) /\ NextSlot(o, Len(blocks[o])) = NoBlock
         /\ \A i \in 1 .. Len(blocks[o]) - 1 : blocks'[o][i] = blocks[o][i]
<1>1. /\ blocks[o] \in Seq(Blocks) /\ head[o] \in Nat /\ Len(blocks[o]) \in Nat
      /\ Len(blocks[o]) > 0
  BY Typed
<1>2. /\ Len(blocks'[o]) = Len(blocks[o]) - 1 /\ Last(blocks[o]) \in Blocks
      /\ \A i \in 1 .. Len(blocks[o]) - 1 : blocks'[o][i] = blocks[o][i]
  BY <1>1, PopTable
<1>3. Len(blocks[o]) \in Index
  BY <1>1 DEF Index
<1>4. Slot(o, Len(blocks[o])) = Last(blocks[o])
  BY <1>1 DEF Slot, Last
<1>5. NextSlot(o, Len(blocks[o])) = NoBlock
  <2>1. ~ (Len(blocks[o]) <= Len(blocks'[o]))
    BY <1>1, <1>2
  <2> QED BY <1>1, <2>1 DEF NextSlot
<1>6. ASSUME NEW i \in Index, i # Len(blocks[o]) PROVE NextSlot(o, i) = Slot(o, i)
  <2>1. CASE i > 0
    <3>1. i \in Nat /\ (i <= Len(blocks'[o]) <=> i <= Len(blocks[o]))
      BY <1>1, <1>2, <1>6, <2>1 DEF Index
    <3>2. i <= Len(blocks[o]) => blocks'[o][i] = blocks[o][i]
      <4>1. i <= Len(blocks[o]) => i \in 1 .. Len(blocks[o]) - 1
        BY <1>1, <1>6, <2>1, <3>1
      <4> QED BY <1>2, <4>1
    <3> QED BY <2>1, <3>1, <3>2 DEF Slot, NextSlot
  <2>2. CASE ~ (i > 0)
    BY <2>2 DEF Slot, NextSlot
  <2> QED BY <2>1, <2>2
<1> QED BY <1>2, <1>3, <1>4, <1>5, <1>6 DEF SlotsKeptBut

\* take_block hands out a block that carries the hash: no private place has it.
LEMMA RefMatchTake ==
  ASSUME TableInv, TypeInv', RefInv, NEW s \in Seqs, MatchTake(s)
  PROVE  RefInv'
<1>1. /\ TypeInv /\ LengthInv /\ s \in Owners
  BY SeqShape
<1>2. /\ Alone(s) /\ pc[s] = "match" /\ pc'[s] = "match" /\ head'[s] = head[s]
      /\ hist'[s] = hist[s] /\ SameSeq(s)
  BY <1>1, MatchTakeEffect
<1>3. PICK b \in Blocks : /\ <<HashAt(tokens[s], Len(blocks[s]) + 1), b>> \in byHash
                          /\ RefBlock(b) /\ blocks'[s] = Append(blocks[s], b)
  BY <1>1, MatchTakeEffect
<1>4. PICK k \in Index :
        k > 0 /\ SlotsKeptBut(s, k) /\ Slot(s, k) = NoBlock /\ NextSlot(s, k) = b
  BY <1>1, <1>2, <1>3, PushSlots DEF SameSeq, SameRun, SameUndo
<1>5. hashes[b] # NoHash /\ b \notin free
  <2>1. hashes[b] # NoHash
    BY <1>3 DEF RefInv, StoreOK
  <2> QED BY <2>1 DEF RefInv, StoreOK
<1>6. ASSUME NEW q \in Owners, NEW j \in Index, Slot(q, j) = b PROVE ~ Private(q, j)
  <2> SUFFICES ASSUME Private(q, j) PROVE FALSE
    OBVIOUS
  <2>1. j > 0 /\ Slot(q, j) # NoBlock
    BY <1>6, KvPoolConstants DEF Private
  <2>2. pc[q] = "match" => ~ Writing(q)
    BY DEF Writing
  <2>3. Unhashed(q, j)
    BY <2>1, <2>2 DEF Private, Unhashed
  <2> QED BY <1>5, <1>6, <2>1, <2>3 DEF RefInv, OwnInv, UnhashedInv
<1>7. metadata[s] = <<>> /\ metadata'[s] = <<>>
  BY <1>1, <1>2, NoMetadata DEF RefInv, OwnInv, LengthInv, LengthsOf, SameSeq, SameMeta
<1>8. \A x : ~ Listed(s, x)'
  BY <1>7 DEF Listed
<1>9. ~ Unhashed(s, k)' /\ ~ Private(s, k)'
  BY <1>2, <1>4, <1>8 DEF Unhashed, Private, Writing
<1>10. NoMore(s)
  BY <1>1, <1>2, NoMoreIf DEF Writing, SameSeq, SameMeta
<1>11. NotesKept(s)
  BY <1>2, <1>7, UndoRest, MetaEmpty DEF NotesKept, Undoable, Executing
<1> QED BY <1>1, <1>2, <1>3, <1>4, <1>5, <1>6, <1>9, <1>10, <1>11, RefAdds

LEMMA RefMatchEnd ==
  ASSUME TableInv, TypeInv', RefInv, NEW s \in Seqs, MatchEnd(s)
  PROVE  RefInv'
<1>1. /\ TypeInv /\ LengthInv /\ s \in Owners /\ Len(blocks[s]) \in Nat
  BY SeqShape
<1>2. /\ Alone(s) /\ pc[s] = "match" /\ pc'[s] = "idle" /\ blocks'[s] = blocks[s]
      /\ head'[s] = head[s] /\ SameUndo(s) /\ SameMeta(s) /\ SameStore
      /\ hist'[s] = HashAt(tokens[s], Len(blocks[s]))
  BY <1>1, MatchEndEffect
<1>3. metadata[s] = <<>> /\ metadata'[s] = <<>>
  BY <1>1, <1>2, NoMetadata DEF RefInv, OwnInv, LengthInv, LengthsOf, SameMeta
<1>4. SlotsKept(s)
  BY <1>1, <1>2, SlotsSteady DEF SameUndo
<1>5. Full(s)' = Len(blocks[s])
  <2>1. Full(s)' = Len(hist'[s]) \div BlockSize
    BY <1>2 DEF Full
  <2>2. Len(hist'[s]) = Len(blocks[s]) * BlockSize
    BY <1>1, <1>2, MatchedHistory
  <2> QED BY <1>1, <2>1, <2>2, WholeBlocks
<1>6. ASSUME NEW i \in Index, Slot(s, i) # NoBlock
      PROVE  (Unhashed(s, i)' => Unhashed(s, i)) /\ ~ Private(s, i)'
  <2>1. i > 0 => ~ (i > Full(s)')
    <3>1. i > 0 => i <= Len(blocks[s])
      BY <1>1, <1>6, SlotLive
    <3> QED BY <1>1, <1>5, <3>1 DEF Index
  <2>2. \A x : ~ Listed(s, x)'
    BY <1>3 DEF Listed
  <2> QED BY <1>2, <2>1, <2>2 DEF Unhashed, Private, Writing
<1>7. NotesKept(s)
  BY <1>2, <1>3, UndoRest, MetaEmpty DEF NotesKept, Undoable, Executing
<1> QED BY <1>1, <1>2, <1>4, <1>6, <1>7, RefKeeps DEF SameStore, storeVars

\* begin finds the tail unshared, or is about to retain it.
LEMMA RefExecBegin ==
  ASSUME TableInv, TypeInv', RefInv, NEW s \in Seqs, NEW t, ExecBegin(s, t)
  PROVE  RefInv'
<1>1. /\ TypeInv /\ LengthInv /\ s \in Owners /\ blocks[s] \in Seq(Blocks)
  BY SeqShape
<1>2. /\ Alone(s) /\ pc[s] = "idle"
      /\ pc'[s] = (IF TailShared(s) THEN "retain" ELSE "prepare")
      /\ before'[s] = blocks[s] /\ tail'[s] = tail[s] /\ dropping'[s] = dropping[s]
      /\ SameTable(s) /\ SameMeta(s) /\ SameStore
  BY <1>1, ExecBeginEffect
<1>3. tail[s] = NoBlock /\ tail'[s] = NoBlock
  BY <1>1, <1>2 DEF TypeInv, Progress, ProgressOf, Executing
<1>4. SlotsKept(s)
  BY <1>1, <1>2, SlotsSteady DEF SameTable
<1>5. Full(s)' = Full(s) /\ Full(s) = Len(hist[s]) \div BlockSize
  BY <1>1, <1>2, FullSteady DEF SameTable
<1>6. ASSUME NEW i \in Index, Slot(s, i) # NoBlock
      PROVE  /\ Unhashed(s, i)' => Unhashed(s, i)
             /\ Private(s, i)' => Private(s, i) \/ Sole(s, i)
  <2>1. Slot(s, i)' = Slot(s, i)
    BY <1>4, SlotNext DEF SlotsKept
  <2>2. Listed(s, Slot(s, i))' <=> Listed(s, Slot(s, i))
    BY <1>2, <2>1 DEF Listed, SameMeta
  <2>3. Unhashed(s, i)' => Unhashed(s, i)
    BY <1>2, <1>5, <2>2 DEF Unhashed
  <2>4. CASE TailShared(s)
    <3>1. ~ Writing(s)'
      BY <1>2, <2>4 DEF Writing
    <3> QED BY <2>2, <2>3, <3>1 DEF Private
  <2>5. CASE ~ TailShared(s)
    <3>1. i > Full(s) => Sole(s, i)
      BY <1>2, <1>5, <1>6, <2>5, SoleTail DEF RefInv
    <3>2. Private(s, i)' => Private(s, i) \/ i > Full(s)
      BY <1>5, <2>2 DEF Private
    <3> QED BY <2>3, <3>1, <3>2
  <2> QED BY <2>4, <2>5
<1>7. UndoOf(s)'
  BY <1>2, <1>3 DEF UndoOf, SameTable
<1>8. MetaOf(s)'
  BY <1>1, <1>2, MetaSteady DEF SameTable, SameMeta, RefInv, OwnInv
<1> QED BY <1>1, <1>2, <1>4, <1>6, <1>7, <1>8, RefKeeps DEF NotesKept, SameStore, storeVars

LEMMA RefRetainTail ==
  ASSUME TableInv, TypeInv', RefInv, NEW s \in Seqs, RetainTail(s)
  PROVE  RefInv'
<1> DEFINE k == TailIndex(s)
           b == blocks[s][k]
<1>1. /\ TypeInv /\ LengthInv /\ s \in Owners /\ k \in Nat /\ k > 0 /\ k \in Index
      /\ k = (Len(hist[s]) \div BlockSize) + 1 /\ Len(hist[s]) \div BlockSize \in Nat
      /\ head[s] \in Nat /\ Len(blocks[s]) \in Nat /\ 0 \in Index
  BY SeqShape
<1>2. /\ Alone(s) /\ pc[s] = "retain" /\ pc'[s] = "prepare" /\ RefBlock(b) /\ tail'[s] = b
      /\ before'[s] = before[s] /\ dropping'[s] = dropping[s] /\ SameTable(s) /\ SameMeta(s)
  BY <1>1, RetainTailEffect
<1>3. /\ tail[s] = NoBlock /\ k <= Len(before[s]) /\ before[s] = blocks[s]
      /\ k <= Len(blocks[s])
  BY <1>1, <1>2 DEF TypeInv, Progress, ProgressOf, Executing, RefInv, OwnInv, UndoOf
<1>4. head[s] < k
  BY <1>2, HeadBefore
<1>5. b \in Blocks /\ Slot(s, k) = b /\ b # NoBlock
  BY <1>1, <1>3, <1>4, TableSlot
<1>6. b \notin free
  BY <1>1, <1>5, NamedUsed
<1>7. k > Len(hist[s]) \div BlockSize /\ k > Full(s)
  BY <1>1, <1>2 DEF Full
<1>8. hashes[b] = NoHash
  <2>1. Unhashed(s, k)
    BY <1>1, <1>2, <1>7 DEF Unhashed
  <2> QED BY <1>1, <1>5, <2>1 DEF RefInv, OwnInv, UnhashedInv
<1>9. ~ Private(s, k)
  <2>1. ~ Listed(s, Slot(s, k))
    BY <1>1, <1>2, <1>5, <1>7, NotListed
  <2> QED BY <1>2, <2>1 DEF Private, Writing
<1>10. \A q \in Owners : \A j \in Index : Slot(q, j) = b => ~ Private(q, j)
  BY <1>1, <1>5, <1>9, SharedPlaces
<1>11. Slot(s, 0) = NoBlock /\ NextSlot(s, 0) = b
  BY <1>2, <1>3 DEF Slot, NextSlot
<1>12. SlotsKeptBut(s, 0)
  BY <1>2 DEF SlotsKeptBut, Slot, NextSlot, SameTable
<1>13. ~ Private(s, 0)'
  BY DEF Private
<1>14. NoMore(s)
  <2>1. ~ Writing(s)'
    BY <1>2, <1>5 DEF Writing
  <2> QED BY <1>1, <1>2, <2>1, NoMoreIf DEF SameTable, SameMeta
<1>15. UndoOf(s)'
  <2>1. TailIndex(s)' = TailIndex(s)
    BY <1>2 DEF TailIndex, SameTable
  <2> QED BY <1>2, <1>3, <1>5, <2>1 DEF UndoOf, SameTable
<1>16. MetaOf(s)'
  BY <1>1, <1>2, MetaSteady DEF SameTable, SameMeta, RefInv, OwnInv
<1> HIDE DEF b, k
<1> QED BY <1>1, <1>2, <1>5, <1>6, <1>8, <1>10, <1>11, <1>12, <1>13, <1>14, <1>15, <1>16, RefAdds
           DEF NotesKept

\* kv_prepare finds the tail shared only when the transaction has retained it.
LEMMA RefPrepare ==
  ASSUME TableInv, TypeInv', RefInv, NEW s \in Seqs, Prepare(s)
  PROVE  RefInv'
<1>1. /\ TypeInv /\ LengthInv /\ s \in Owners /\ Balanced
      /\ TailIndex(s) = (Len(hist[s]) \div BlockSize) + 1 /\ Len(hist[s]) \div BlockSize \in Nat
      /\ TailIndex(s) \in Nat
  BY SeqShape DEF RefInv
<1>2. /\ Alone(s) /\ pc[s] = "prepare" /\ pc'[s] \in {"rollback", "copy", "alloc"}
      /\ pc'[s] = "copy" => TailShared(s)
      /\ pc'[s] = "alloc" => ~ TailShared(s)
      /\ SameTable(s) /\ SameSeq(s) /\ SameStore
  BY <1>1, PrepareEffect
<1>3. TailShared(s) => tail[s] # NoBlock
  <2> SUFFICES ASSUME TailShared(s), tail[s] = NoBlock PROVE FALSE
    OBVIOUS
  <2> DEFINE k == TailIndex(s)
  <2>1. k <= Len(blocks[s]) /\ refcounts[blocks[s][k]] > 1
    BY DEF TailShared, HasTail
  <2>2. head[s] < k
    BY <1>2, HeadBefore
  <2>3. k \in Index /\ k > 0 /\ Slot(s, k) = blocks[s][k] /\ blocks[s][k] \in Blocks
        /\ Slot(s, k) # NoBlock
    BY <1>1, <2>1, <2>2, TableSlot
  <2>4. k > Full(s)
    BY <1>1, <1>2 DEF Full
  <2>5. Private(s, k)
    BY <1>2, <2>3, <2>4 DEF Private, Writing
  <2>6. Sole(s, k)
    BY <1>1, <2>3, <2>5 DEF RefInv, OwnInv, PrivateInv
  <2> QED BY <1>1, <2>1, <2>3, <2>6, SoleCount
<1>4. SlotsKept(s)
  BY <1>1, <1>2, SlotsSteady DEF SameTable, SameSeq, SameRun, SameUndo
<1>5. Full(s)' = Full(s) /\ Full(s) = Len(hist[s]) \div BlockSize
  BY <1>1, <1>2, FullSteady DEF SameTable
<1>6. ASSUME NEW i \in Index, Slot(s, i) # NoBlock
      PROVE  /\ Unhashed(s, i)' => Unhashed(s, i)
             /\ Private(s, i)' => Private(s, i) \/ Sole(s, i)
  <2>1. Slot(s, i)' = Slot(s, i)
    BY <1>4, SlotNext DEF SlotsKept
  <2>2. Listed(s, Slot(s, i))' <=> Listed(s, Slot(s, i))
    BY <1>2, <2>1 DEF Listed, SameSeq, SameMeta
  <2>3. Unhashed(s, i)' => Unhashed(s, i)
    BY <1>2, <1>5, <2>2 DEF Unhashed
  <2>4. CASE pc'[s] # "alloc"
    <3>1. ~ Writing(s)'
      BY <1>2, <2>4 DEF Writing
    <3> QED BY <2>2, <2>3, <3>1 DEF Private
  <2>5. CASE pc'[s] = "alloc"
    <3>1. i > Full(s) => Sole(s, i)
      BY <1>1, <1>2, <1>5, <1>6, <2>5, SoleTail
    <3>2. Private(s, i)' => Private(s, i) \/ i > Full(s)
      BY <1>5, <2>2 DEF Private
    <3> QED BY <2>3, <3>1, <3>2
  <2> QED BY <2>4, <2>5
<1>7. UndoOf(s)'
  BY <1>1, <1>2, <1>3, UndoSteady
     DEF RefInv, OwnInv, SameTable, SameSeq, SameRun, SameUndo, Undoable, Executing
<1>8. MetaOf(s)'
  BY <1>1, <1>2, MetaSteady DEF SameTable, SameSeq, SameMeta, RefInv, OwnInv
<1> QED BY <1>1, <1>2, <1>4, <1>6, <1>7, <1>8, RefKeeps DEF NotesKept, SameStore, storeVars

-----------------------------------------------------------------------------
(* Allocating, evicting and rolling back.                                  *)

\* Replacing the entry k of s's table, and keeping what it named.
LEMMA SwapSlots ==
  ASSUME TypeInv, NEW s \in Seqs, NEW k \in Index, k > 0, head[s] < k, k <= Len(blocks[s]),
         NEW y \in Blocks, blocks'[s] = [blocks[s] EXCEPT ![k] = y],
         dropping[s] = NoBlock, dropping'[s] = blocks[s][k], head'[s] = head[s],
         tail'[s] = tail[s]
  PROVE  /\ Swaps(s, k, blocks[s][k], y) /\ blocks[s][k] \in Blocks
         /\ Slot(s, k) = blocks[s][k]
         /\ \A i \in 1 .. Len(blocks[s]) : i # k => blocks'[s][i] = blocks[s][i]
         /\ blocks'[s][k] = y
<1>1. /\ s \in Owners /\ blocks[s] \in Seq(Blocks) /\ head[s] \in Nat /\ Len(blocks[s]) \in Nat
      /\ k \in Int
  BY Typed DEF Index
<1>2. Slot(s, k) = blocks[s][k] /\ blocks[s][k] \in Blocks
  BY <1>1, TableSlot
<1>3. k \in 1 .. Len(blocks[s]) /\ DOMAIN blocks[s] = 1 .. Len(blocks[s])
  BY <1>1
<1>4. /\ Len(blocks'[s]) = Len(blocks[s]) /\ blocks'[s][k] = y
      /\ \A i \in 1 .. Len(blocks[s]) : i # k => blocks'[s][i] = blocks[s][i]
  BY <1>1, <1>3
<1>5. NextSlot(s, k) = y
  BY <1>4 DEF NextSlot
<1>6. Slot(s, -1) = NoBlock /\ NextSlot(s, -1) = blocks[s][k]
  BY DEF Slot, NextSlot
<1>7. ASSUME NEW i \in Index \ {k, -1} PROVE NextSlot(s, i) = Slot(s, i)
  <2>1. CASE i > 0
    <3>1. i <= Len(blocks[s]) => i \in 1 .. Len(blocks[s])
      BY <1>1, <2>1 DEF Index
    <3> QED BY <1>4, <1>7, <2>1, <3>1 DEF Slot, NextSlot
  <2>2. CASE ~ (i > 0)
    <3>1. i = 0
      BY <1>7, <2>2 DEF Index
    <3> QED BY <3>1 DEF Slot, NextSlot
  <2> QED BY <2>1, <2>2
<1> QED BY <1>2, <1>4, <1>5, <1>6, <1>7 DEF Swaps

\* copy_shared_tail: the copy is private, the shared tail is still retained.
LEMMA RefCopyTail ==
  ASSUME TableInv, TypeInv', RefInv, NEW s \in Seqs, CopyTail(s)
  PROVE  RefInv'
<1>1. /\ TypeInv /\ LengthInv /\ s \in Owners /\ Balanced /\ StoreOK /\ OwnInv
      /\ TailIndex(s) \in Index /\ TailIndex(s) > 0 /\ TailIndex(s) \in Nat /\ 0 \in Index
      /\ TailIndex(s) = (Len(hist[s]) \div BlockSize) + 1 /\ Len(hist[s]) \div BlockSize \in Nat
      /\ head[s] \in Nat /\ Len(blocks[s]) \in Nat /\ Len(before[s]) \in Nat
      /\ BlocksFor(Len(hist[s])) \in Nat /\ BlocksFor(Len(hist[s])) <= TailIndex(s)
  BY SeqShape DEF RefInv
<1>2. /\ Alone(s) /\ pc[s] = "copy" /\ head'[s] = head[s] /\ hist'[s] = hist[s]
      /\ source'[s] = source[s] /\ tokens'[s] = tokens[s] /\ before'[s] = before[s]
      /\ tail'[s] = tail[s] /\ noted'[s] = noted[s] /\ SameMeta(s)
  BY <1>1, CopyTailEffect
<1>3. TailIndex(s) <= Len(blocks[s]) /\ dropping[s] = NoBlock
  BY <1>1, <1>2 DEF TypeInv, Progress, ProgressOf
<1>4. head[s] < TailIndex(s)
  BY <1>2, HeadBefore
<1>5. tail[s] # NoBlock /\ blocks[s] = before[s] /\ tail[s] = blocks[s][TailIndex(s)]
  BY <1>1, <1>2 DEF OwnInv, UndoOf, Undoable, Executing
<1>6. Len(blocks[s]) = BlocksFor(Len(hist[s]))
  BY <1>1, <1>2 DEF LengthInv, LengthsOf
<1>7. CASE AllocExhausted /\ pc'[s] = "rollback" /\ blocks'[s] = blocks[s] /\ dropping'[s] = dropping[s]
  <2>1. SlotsKept(s)
    BY <1>1, <1>2, <1>7, SlotsSteady
  <2>2. NoMore(s)
    BY <1>1, <1>2, <1>7, NoMoreIf DEF Writing, SameMeta
  <2>3. UndoOf(s)'
    BY <1>1, <1>2, <1>7, UndoSteady DEF OwnInv, Undoable, Executing
  <2>4. MetaOf(s)'
    BY <1>1, <1>2, <1>7, MetaSteady DEF OwnInv, SameMeta
  <2> QED BY <1>1, <1>2, <1>7, <2>1, <2>2, <2>3, <2>4, RefExhausted DEF NotesKept
<1>8. ASSUME NEW y \in Blocks, AllocBlock(y), pc'[s] = "copied",
             blocks'[s] = [blocks[s] EXCEPT ![TailIndex(s)] = y],
             dropping'[s] = blocks[s][TailIndex(s)]
      PROVE  RefInv'
  <2>1. PICK k \in Index : k = TailIndex(s)
    BY <1>1
  <2>2. PICK x \in Blocks : x = blocks[s][k]
    BY <1>1, <1>3, <1>4, <2>1, TableSlot
  <2>3. /\ Swaps(s, k, x, y) /\ Slot(s, k) = x
        /\ \A i \in 1 .. Len(blocks[s]) : i # k => blocks'[s][i] = blocks[s][i]
    <3>1. k > 0 /\ head[s] < k /\ k <= Len(blocks[s])
      BY <1>1, <1>3, <1>4, <2>1
    <3>2. blocks'[s] = [blocks[s] EXCEPT ![k] = y] /\ dropping'[s] = blocks[s][k]
      BY <1>8, <2>1
    <3> QED BY <1>1, <1>2, <1>3, <2>2, <3>1, <3>2, SwapSlots
  <2>4. /\ StoreOK' /\ NoNewHash /\ refcounts[y] = 0 /\ hashes'[y] = NoHash
        /\ refcounts' = [refcounts EXCEPT ![y] = refcounts[y] + 1]
    BY <1>1, <1>8, AllocOK
  <2>5. x # y
    <3>1. refcounts[x] > 0
      BY <1>1, <2>3, NamedCounted
    <3> QED BY <2>4, <3>1
  <2>6. Balanced'
    BY <1>1, <1>2, <2>3, <2>4, <2>5, OthersKept, BalancedSwap
  <2>7. \A q \in Owners : \A j \in Index : Slot(q, j) # y
    BY <1>1, <2>4, Uncounted
  <2>8. \A q \in Owners : \A j \in Index : Slot(q, j) \in {x, y} => ~ Private(q, j)
    <3>1. Slot(s, 0) = x
      BY <1>5, <2>1, <2>2 DEF Slot
    <3>2. ~ Private(s, 0)
      BY DEF Private
    <3> QED BY <1>1, <2>7, <3>1, <3>2, SharedPlaces
  <2>9. ASSUME NEW i \in Index \ {k, -1}, Slot(s, i) # NoBlock
        PROVE  /\ Unhashed(s, i)' => Unhashed(s, i)
               /\ Private(s, i)' => Private(s, i)
    <3>1. Slot(s, i)' = Slot(s, i)
      BY <2>3, <2>9, SlotNext DEF Swaps
    <3>2. Listed(s, Slot(s, i))' <=> Listed(s, Slot(s, i))
      BY <1>2, <3>1 DEF Listed, SameMeta
    <3>3. Full(s)' = Full(s) /\ Full(s) = Len(hist[s]) \div BlockSize
      BY <1>1, <1>2, <1>8, FullSteady
    <3>4. ~ (i > Full(s))
      <4>1. i > 0 => i <= Len(blocks[s])
        BY <1>1, <2>9, SlotLive
      <4>2. i \in Int /\ i # k
        BY <2>9 DEF Index
      <4> QED BY <1>1, <1>6, <2>1, <3>3, <4>1, <4>2
    <3> QED BY <1>2, <1>8, <3>2, <3>3, <3>4 DEF Unhashed, Private
  <2>10. UndoOf(s)'
    <3>1. TailIndex(s)' = k
      BY <1>2, <2>1 DEF TailIndex
    <3>2. \A i \in 1 .. Len(before[s]) : blocks'[s][i] = before[s][i] \/ i = k
      BY <1>5, <2>3
    <3> QED BY <1>2, <1>5, <1>8, <2>1, <3>1, <3>2 DEF UndoOf
  <2>11. MetaOf(s)'
    <3>1. ASSUME NEW i \in head[s] + 1 .. Len(hist[s]) \div BlockSize
          PROVE  blocks'[s][i] = blocks[s][i]
      <4>1. i \in 1 .. Len(blocks[s]) /\ i # k
        BY <1>1, <1>3, <2>1
      <4> QED BY <2>3, <4>1
    <3> QED BY <1>1, <1>2, <3>1, MetaKept DEF OwnInv, SameMeta
  <2>12. OwnInv'
    BY <1>1, <1>2, <2>3, <2>4, <2>5, <2>7, <2>8, <2>9, <2>10, <2>11, OwnSwaps
  <2> QED BY <2>4, <2>6, <2>12 DEF RefInv
<1> QED BY <1>1, <1>7, <1>8, CopyTailEffect

LEMMA RefDropReplaced ==
  ASSUME TableInv, TypeInv', RefInv, NEW s \in Seqs, DropReplaced(s)
  PROVE  RefInv'
<1>1. /\ TypeInv /\ s \in Owners /\ -1 \in Index /\ OwnInv
  BY SeqShape DEF RefInv
<1>2. /\ Alone(s) /\ pc[s] \in {"copied", "restored"}
      /\ pc'[s] = (IF pc[s] = "copied" THEN "alloc" ELSE "rollback")
      /\ UnrefBlock(dropping[s]) /\ dropping'[s] = NoBlock /\ SameTable(s)
      /\ tokens'[s] = tokens[s] /\ before'[s] = before[s] /\ tail'[s] = tail[s]
      /\ noted'[s] = noted[s] /\ SameMeta(s)
  BY <1>1, DropReplacedEffect
<1>3. dropping[s] \in Blocks
  BY <1>1, <1>2, Typed DEF TypeInv, Progress, ProgressOf
<1>4. Slot(s, -1) = dropping[s] /\ NextSlot(s, -1) = NoBlock
  BY <1>2 DEF Slot, NextSlot
<1>5. SlotsKeptBut(s, -1)
  <2> SUFFICES ASSUME NEW i \in Index \ {-1} PROVE NextSlot(s, i) = Slot(s, i)
    BY DEF SlotsKeptBut
  <2>1. i > 0 \/ i = 0
    BY DEF Index
  <2> QED BY <1>2, <2>1 DEF Slot, NextSlot, SameTable
<1>6. NoMore(s)
  BY <1>1, <1>2, NoMoreIf DEF Writing, SameTable, SameMeta
<1>7. UndoOf(s)'
  BY <1>1, <1>2, UndoSteady DEF OwnInv, SameTable, Undoable, Executing
<1>8. MetaOf(s)'
  BY <1>1, <1>2, MetaSteady DEF OwnInv, SameTable, SameMeta
<1> QED BY <1>1, <1>2, <1>3, <1>4, <1>5, <1>6, <1>7, <1>8, RefDrops DEF NotesKept

LEMMA RefAllocNext ==
  ASSUME TableInv, TypeInv', RefInv, NEW s \in Seqs, AllocNext(s)
  PROVE  RefInv'
<1>1. /\ TypeInv /\ LengthInv /\ s \in Owners /\ OwnInv /\ Len(blocks[s]) \in Nat
      /\ Len(before[s]) \in Nat /\ head[s] \in Nat /\ Len(hist[s]) \div BlockSize \in Nat
      /\ Len(hist[s]) \div BlockSize <= BlocksFor(Len(hist[s])) /\ BlocksFor(Len(hist[s])) \in Nat
  BY SeqShape DEF RefInv
<1>2. /\ Alone(s) /\ pc[s] = "alloc" /\ Len(blocks[s]) < BlocksFor(Frontier(s))
      /\ head'[s] = head[s] /\ hist'[s] = hist[s] /\ source'[s] = source[s] /\ SameSeq(s)
  BY <1>1, AllocNextEffect
<1>3. CASE AllocExhausted /\ pc'[s] = "rollback" /\ blocks'[s] = blocks[s]
  <2>1. SlotsKept(s)
    BY <1>1, <1>2, <1>3, SlotsSteady DEF SameSeq, SameRun, SameUndo
  <2>2. NoMore(s)
    BY <1>1, <1>2, <1>3, NoMoreIf DEF Writing, SameSeq, SameMeta
  <2>3. UndoOf(s)'
    BY <1>1, <1>2, <1>3, UndoSteady DEF OwnInv, Undoable, Executing, SameSeq, SameRun, SameUndo
  <2>4. MetaOf(s)'
    BY <1>1, <1>2, <1>3, MetaSteady DEF OwnInv, SameSeq, SameMeta
  <2> QED BY <1>1, <1>2, <1>3, <2>1, <2>2, <2>3, <2>4, RefExhausted DEF NotesKept
<1>4. ASSUME NEW b \in Blocks, AllocBlock(b), blocks'[s] = Append(blocks[s], b), pc'[s] = "alloc"
      PROVE  RefInv'
  <2>1. PICK k \in Index : SlotsKeptBut(s, k) /\ Slot(s, k) = NoBlock /\ NextSlot(s, k) = b
    BY <1>1, <1>2, <1>4, PushSlots DEF SameSeq, SameRun, SameUndo
  <2>2. \A i \in 1 .. Len(blocks[s]) : blocks'[s][i] = blocks[s][i]
    BY <1>1, <1>2, <1>4, PushSlots DEF SameSeq, SameRun, SameUndo
  <2>3. NoMore(s)
    BY <1>1, <1>2, <1>4, NoMoreIf DEF Writing, SameSeq, SameMeta
  <2>4. UndoOf(s)'
    <3>1. Len(before[s]) <= Len(blocks[s])
      BY <1>1, <1>2 DEF TypeInv, Progress, ProgressOf, Undoable, Executing
    <3>2. \A i \in 1 .. Len(before[s]) : blocks'[s][i] = blocks[s][i]
      BY <1>1, <2>2, <3>1
    <3>3. /\ before'[s] = before[s] /\ tail'[s] = tail[s] /\ TailIndex(s)' = TailIndex(s)
          /\ pc[s] \in Undoable /\ pc'[s] = "alloc" /\ UndoOf(s)
      BY <1>1, <1>2, <1>4 DEF OwnInv, TailIndex, Undoable, Executing, SameSeq, SameRun, SameUndo
    <3> QED BY <3>2, <3>3 DEF UndoOf
  <2>5. MetaOf(s)'
    <3>1. BlocksFor(Len(hist[s])) <= Len(blocks[s])
      BY <1>1, <1>2 DEF LengthInv, RunLengths
    <3>2. \A i \in head[s] + 1 .. Len(hist[s]) \div BlockSize : blocks'[s][i] = blocks[s][i]
      BY <1>1, <2>2, <3>1
    <3> QED BY <1>1, <1>2, <3>2, MetaKept DEF OwnInv, SameSeq, SameMeta
  <2> QED BY <1>1, <1>2, <1>4, <2>1, <2>3, <2>4, <2>5, RefAllocs DEF NotesKept
<1> QED BY <1>1, <1>3, <1>4, AllocNextEffect

\* kv_evict gives up the first live block of a sequence without metadata.
LEMMA RefEvict ==
  ASSUME TableInv, TypeInv', RefInv, NoStaleNotes, NEW s \in Seqs, Evict(s)
  PROVE  RefInv'
<1>1. /\ TypeInv /\ LengthInv /\ s \in Owners /\ OwnInv /\ Len(blocks[s]) \in Nat
      /\ head[s] \in Nat
  BY SeqShape DEF RefInv
<1>2. /\ Alone(s) /\ pc[s] = "evict" /\ pc'[s] = "evict" /\ CanEvict(s)
      /\ UnrefBlock(blocks[s][head[s] + 1]) /\ head'[s] = head[s] + 1
      /\ blocks'[s] = blocks[s] /\ hist'[s] = hist[s] /\ source'[s] = source[s]
      /\ SameSeq(s)
  BY <1>1, EvictEffect
<1>3. head[s] < Len(blocks[s]) /\ (head[s] + 1) * BlockSize <= EvictionStart(Frontier(s))
  BY <1>2 DEF CanEvict
<1>4. PICK k \in Index : k = head[s] + 1
  BY <1>1 DEF Index
<1>5. /\ k > 0 /\ Slot(s, k) = blocks[s][k] /\ blocks[s][k] \in Blocks
  BY <1>1, <1>3, <1>4, TableSlot
<1>6. NextSlot(s, k) = NoBlock
  BY <1>1, <1>2, <1>4, <1>5 DEF NextSlot
<1>7. SlotsKeptBut(s, k)
  <2> SUFFICES ASSUME NEW i \in Index \ {k} PROVE NextSlot(s, i) = Slot(s, i)
    BY DEF SlotsKeptBut
  <2>1. head[s] < i <=> head'[s] < i
    BY <1>1, <1>2, <1>4 DEF Index
  <2> QED BY <1>2, <2>1 DEF Slot, NextSlot, SameSeq, SameRun, SameUndo
<1>8. NoMore(s)
  BY <1>1, <1>2, NoMoreIf DEF Writing, SameSeq, SameMeta
<1>9. metadata[s] = <<>>
  <2>1. Windowed
    <3>1. (head[s] + 1) * BlockSize > 0
      BY <1>1, KvPoolConstants
    <3>2. ~ Windowed => EvictionStart(Frontier(s)) = 0
      BY DEF EvictionStart
    <3>3. (head[s] + 1) * BlockSize \in Nat
      BY <1>1, KvPoolConstants
    <3> QED BY <1>3, <3>1, <3>2, <3>3
  <2> QED BY <1>1, <2>1 DEF NoStaleNotes, LengthInv, RunLengths
<1>10. NotesKept(s)
  BY <1>2, <1>9, UndoRest, MetaEmpty DEF NotesKept, Undoable, Executing, SameSeq, SameMeta
<1> QED BY <1>1, <1>2, <1>4, <1>5, <1>6, <1>7, <1>8, <1>10, RefDrops

\* The retained tail is given back, if there is one.
LEMMA RefTailDrops ==
  ASSUME TypeInv, TypeInv', RefInv, NEW s \in Seqs, Alone(s), SameTable(s),
         tail[s] = NoBlock => UNCHANGED storeVars,
         tail[s] # NoBlock => UnrefBlock(tail[s]),
         tail'[s] = NoBlock, dropping'[s] = dropping[s], NoMore(s), NotesKept(s)
  PROVE  RefInv'
<1>1. s \in Owners /\ 0 \in Index /\ tail[s] \in Blocks \cup {NoBlock}
  BY Typed DEF Index
<1>2. CASE tail[s] = NoBlock
  <2>1. SlotsKept(s)
    BY <1>1, <1>2, SlotsSteady DEF SameTable
  <2> QED BY <1>1, <1>2, <2>1, RefSteady
<1>3. CASE tail[s] # NoBlock
  <2>1. Slot(s, 0) = tail[s] /\ NextSlot(s, 0) = NoBlock
    BY DEF Slot, NextSlot
  <2>2. SlotsKeptBut(s, 0)
    BY DEF SlotsKeptBut, Slot, NextSlot, SameTable
  <2> QED BY <1>1, <1>3, <2>1, <2>2, RefDrops
<1> QED BY <1>2, <1>3

LEMMA RefCommitEnd ==
  ASSUME TableInv, TypeInv', RefInv, NEW s \in Seqs, CommitEnd(s)
  PROVE  RefInv'
<1>1. TypeInv /\ s \in Owners /\ OwnInv /\ Len(hist[s]) \div BlockSize \in Nat
  BY SeqShape DEF RefInv
<1>2. /\ Alone(s) /\ pc[s] = "evict" /\ pc'[s] = "note"
      /\ tail[s] = NoBlock => UNCHANGED storeVars
      /\ tail[s] # NoBlock => UnrefBlock(tail[s])
      /\ tail'[s] = NoBlock /\ noted'[s] = Len(hist[s]) \div BlockSize /\ SameTable(s)
      /\ dropping'[s] = dropping[s] /\ SameMeta(s)
  BY <1>1, CommitEndEffect
<1>3. NoMore(s)
  <2>1. Full(s)' = Len(hist[s]) \div BlockSize
    BY <1>2 DEF Full
  <2>2. Full(s) = Len(hist[s]) \div BlockSize
    BY <1>2 DEF Full
  <2> QED BY <1>1, <1>2, <2>1, <2>2 DEF NoMore, Writing, SameMeta
<1>4. NotesKept(s)
  BY <1>1, <1>2, UndoRest, MetaSteady
     DEF NotesKept, OwnInv, Undoable, Executing, SameTable, SameMeta
<1> QED BY <1>1, <1>2, <1>3, <1>4, RefTailDrops

LEMMA RefRollbackEnd ==
  ASSUME TableInv, TypeInv', RefInv, NEW s \in Seqs, RollbackEnd(s)
  PROVE  RefInv'
<1>1. TypeInv /\ s \in Owners /\ OwnInv
  BY SeqShape DEF RefInv
<1>2. /\ Alone(s) /\ pc[s] = "rollback" /\ pc'[s] = "idle"
      /\ tail[s] = NoBlock => UNCHANGED storeVars
      /\ tail[s] # NoBlock => UnrefBlock(tail[s])
      /\ tail'[s] = NoBlock /\ dropping'[s] = dropping[s] /\ SameTable(s) /\ SameMeta(s)
  BY <1>1, RollbackEndEffect
<1>3. NoMore(s)
  BY <1>1, <1>2, NoMoreIf DEF Writing, SameTable, SameMeta
<1>4. NotesKept(s)
  BY <1>1, <1>2, UndoRest, MetaSteady
     DEF NotesKept, OwnInv, Undoable, Executing, SameTable, SameMeta
<1> QED BY <1>1, <1>2, <1>3, <1>4, RefTailDrops

LEMMA RefRollbackBlock ==
  ASSUME TableInv, TypeInv', RefInv, NEW s \in Seqs, RollbackBlock(s)
  PROVE  RefInv'
<1>1. /\ TypeInv /\ LengthInv /\ s \in Owners /\ OwnInv /\ Len(blocks[s]) \in Nat
      /\ Len(before[s]) \in Nat /\ head[s] \in Nat /\ Len(hist[s]) \div BlockSize \in Nat
      /\ Len(hist[s]) \div BlockSize <= BlocksFor(Len(hist[s])) /\ BlocksFor(Len(hist[s])) \in Nat
  BY SeqShape DEF RefInv
<1>2. /\ Alone(s) /\ pc[s] = "rollback" /\ pc'[s] = "rollback"
      /\ Len(blocks[s]) > Len(before[s])
      /\ UnrefBlock(Last(blocks[s])) /\ blocks'[s] = Front(blocks[s])
      /\ head'[s] = head[s] /\ hist'[s] = hist[s] /\ source'[s] = source[s] /\ SameSeq(s)
  BY <1>1, RollbackBlockEffect
<1>3. head[s] <= Len(before[s]) /\ Len(before[s]) = BlocksFor(Len(hist[s]))
  BY <1>1, <1>2
     DEF TypeInv, Progress, ProgressOf, LengthInv, RunLengths, Undoable, Executing
<1>4. Len(blocks[s]) > head[s]
  BY <1>1, <1>2, <1>3
<1>5. PICK k \in Index : /\ SlotsKeptBut(s, k) /\ Slot(s, k) = Last(blocks[s])
                         /\ NextSlot(s, k) = NoBlock
  BY <1>1, <1>2, <1>4, PopSlots DEF SameSeq, SameRun, SameUndo
<1>6. /\ \A i \in 1 .. Len(blocks[s]) - 1 : blocks'[s][i] = blocks[s][i]
      /\ Last(blocks[s]) \in Blocks
  BY <1>1, <1>2, <1>4, PopSlots DEF SameSeq, SameRun, SameUndo
<1>7. NoMore(s)
  BY <1>1, <1>2, NoMoreIf DEF Writing, SameSeq, SameMeta
<1>8. UndoOf(s)'
  <2>1. \A i \in 1 .. Len(before[s]) : blocks'[s][i] = blocks[s][i]
    BY <1>1, <1>2, <1>6
  <2> QED BY <1>1, <1>2, <2>1 DEF OwnInv, UndoOf, TailIndex, Undoable, Executing,
              SameSeq, SameRun, SameUndo
<1>9. MetaOf(s)'
  <2>1. \A i \in head[s] + 1 .. Len(hist[s]) \div BlockSize : blocks'[s][i] = blocks[s][i]
    BY <1>1, <1>2, <1>3, <1>6
  <2> QED BY <1>1, <1>2, <2>1, MetaKept DEF OwnInv, SameSeq, SameMeta
<1> QED BY <1>1, <1>2, <1>5, <1>6, <1>7, <1>8, <1>9, RefDrops DEF NotesKept

\* rollback puts the retained tail back in the table; the copy is dropped next.
LEMMA RefRestoreTail ==
  ASSUME TableInv, TypeInv', RefInv, NEW s \in Seqs, RestoreTail(s)
  PROVE  RefInv'
<1>1. /\ TypeInv /\ LengthInv /\ s \in Owners /\ Balanced /\ StoreOK /\ OwnInv
      /\ TailIndex(s) \in Index /\ TailIndex(s) > 0 /\ TailIndex(s) \in Nat /\ 0 \in Index
      /\ TailIndex(s) = (Len(hist[s]) \div BlockSize) + 1 /\ Len(hist[s]) \div BlockSize \in Nat
      /\ head[s] \in Nat /\ Len(blocks[s]) \in Nat /\ Len(before[s]) \in Nat
  BY SeqShape DEF RefInv
<1>2. /\ Alone(s) /\ pc[s] = "rollback" /\ pc'[s] = "restored"
      /\ Len(blocks[s]) = Len(before[s]) /\ TailReplaced(s)
      /\ RefBlock(tail[s]) /\ blocks'[s] = [blocks[s] EXCEPT ![TailIndex(s)] = tail[s]]
      /\ dropping'[s] = blocks[s][TailIndex(s)]
      /\ head'[s] = head[s] /\ hist'[s] = hist[s] /\ source'[s] = source[s]
      /\ tokens'[s] = tokens[s] /\ before'[s] = before[s] /\ tail'[s] = tail[s]
      /\ noted'[s] = noted[s] /\ SameMeta(s)
  BY <1>1, RestoreTailEffect
<1>3. /\ dropping[s] = NoBlock /\ tail[s] # NoBlock /\ TailIndex(s) <= Len(before[s])
      /\ blocks[s][TailIndex(s)] # tail[s]
  BY <1>1, <1>2 DEF TypeInv, Progress, ProgressOf, TailReplaced
<1>4. head[s] < TailIndex(s)
  BY <1>2, HeadBefore
<1>5. PICK k \in Index : k = TailIndex(s)
  BY <1>1
<1>6. PICK x \in Blocks : x = blocks[s][k]
  BY <1>1, <1>2, <1>3, <1>4, <1>5, TableSlot
<1>7. PICK y \in Blocks : y = tail[s]
  BY <1>1, <1>3, Typed
<1>8. /\ Swaps(s, k, x, y) /\ Slot(s, k) = x
      /\ \A i \in 1 .. Len(blocks[s]) : i # k => blocks'[s][i] = blocks[s][i]
      /\ blocks'[s][k] = y
  <2>1. k > 0 /\ head[s] < k /\ k <= Len(blocks[s])
    BY <1>1, <1>2, <1>3, <1>4, <1>5
  <2>2. blocks'[s] = [blocks[s] EXCEPT ![k] = y] /\ dropping'[s] = blocks[s][k]
    BY <1>2, <1>5, <1>7
  <2>3. dropping[s] = NoBlock /\ head'[s] = head[s] /\ tail'[s] = tail[s] /\ TypeInv
    BY <1>1, <1>2, <1>3
  <2>4. /\ Swaps(s, k, blocks[s][k], y) /\ Slot(s, k) = blocks[s][k]
        /\ \A i \in 1 .. Len(blocks[s]) : i # k => blocks'[s][i] = blocks[s][i]
        /\ blocks'[s][k] = y
    BY <2>1, <2>2, <2>3, SwapSlots
  <2> QED BY <1>6, <2>4
<1>9. x # y /\ Slot(s, 0) = y
  BY <1>3, <1>5, <1>6, <1>7 DEF Slot
<1>10. /\ StoreOK' /\ NoNewHash /\ hashes' = hashes
       /\ refcounts' = [refcounts EXCEPT ![y] = refcounts[y] + 1]
  <2>1. y \notin free
    BY <1>1, <1>9, NamedUsed
  <2> QED BY <1>1, <1>2, <1>7, <2>1, RefOK DEF RefBlock
<1>11. hashes'[y] = NoHash
  <2>1. Unhashed(s, 0) /\ y # NoBlock
    BY KvPoolConstants DEF Unhashed
  <2> QED BY <1>1, <1>9, <1>10, <2>1 DEF OwnInv, UnhashedInv
<1>12. Balanced'
  BY <1>1, <1>2, <1>8, <1>9, <1>10, OthersKept, BalancedSwap
<1>13. \A q \in Owners : \A j \in Index : Slot(q, j) \in {x, y} => ~ Private(q, j)
  <2>1. ~ Private(s, 0)
    BY DEF Private
  <2>2. ~ Private(s, k)
    <3>0. x # NoBlock
      BY KvPoolConstants
    <3>1. k > Len(hist[s]) \div BlockSize
      BY <1>1, <1>5
    <3>2. ~ Listed(s, Slot(s, k))
      BY <1>2, <1>8, <3>0, <3>1, NotListed
    <3> QED BY <1>2, <3>2 DEF Private, Writing
  <2> QED BY <1>1, <1>8, <1>9, <2>1, <2>2, SharedPlaces
<1>14. NoMore(s)
  BY <1>1, <1>2, NoMoreIf DEF Writing, SameMeta
<1>15. \A i \in Index \ {k, -1} :
         (Unhashed(s, i)' => Unhashed(s, i)) /\ (Private(s, i)' => Private(s, i))
  BY <1>1, <1>8, <1>14, NoMorePrivate DEF NoMore, Swaps
<1>16. ~ Private(s, k)'
  <2>1. ASSUME Listed(s, y) PROVE FALSE
    <3>1. PICK m \in DOMAIN metadata[s] : metadata[s][m][2] = y
      BY <2>1 DEF Listed
    <3>2. PICK i \in head[s] + 1 .. Len(hist[s]) \div BlockSize :
            metadata[s][m] = <<HashAt(hist[s], i), blocks[s][i]>>
      BY <1>1, <1>2, <3>1 DEF OwnInv, MetaOf
    <3>3. i \in Int /\ head[s] < i /\ i <= Len(blocks[s])
      BY <1>1, <1>2, <1>3, <3>2
    <3>4. i \in Index /\ i > 0 /\ Slot(s, i) = y /\ Slot(s, i) # NoBlock
      BY <1>1, <3>1, <3>2, <3>3, TableSlot
    <3>5. Private(s, i)
      BY <2>1, <3>4 DEF Private
    <3> QED BY <1>13, <1>1, <3>4, <3>5
  <2>2. Slot(s, k)' = y
    BY <1>8, SlotNext DEF Swaps
  <2>3. ~ Listed(s, Slot(s, k))'
    BY <1>2, <2>1, <2>2 DEF Listed, SameMeta
  <2> QED BY <1>2, <2>3 DEF Private, Writing
<1>17. UndoOf(s)'
  <2>1. TailIndex(s)' = k
    BY <1>2, <1>5 DEF TailIndex
  <2>2. \A i \in 1 .. Len(before[s]) : blocks'[s][i] = before[s][i] \/ i = k
    BY <1>1, <1>2, <1>5, <1>8 DEF OwnInv, UndoOf, Undoable, Executing
  <2>3. tail[s] = before[s][k]
    BY <1>1, <1>2, <1>3, <1>5 DEF OwnInv, UndoOf, Undoable, Executing
  <2> QED BY <1>2, <1>3, <2>1, <2>2, <2>3 DEF UndoOf
<1>18. MetaOf(s)'
  <2>1. ASSUME NEW i \in head[s] + 1 .. Len(hist[s]) \div BlockSize
        PROVE  blocks'[s][i] = blocks[s][i]
    <3>1. i \in 1 .. Len(blocks[s]) /\ i # k
      BY <1>1, <1>2, <1>3, <1>5
    <3> QED BY <1>8, <3>1
  <2> QED BY <1>1, <1>2, <2>1, MetaKept DEF OwnInv, SameMeta
<1>19. OwnInv'
  BY <1>1, <1>2, <1>8, <1>9, <1>10, <1>11, <1>13, <1>15, <1>16, <1>17, <1>18, OwnSwaps
<1> QED BY <1>10, <1>12, <1>19 DEF RefInv

-----------------------------------------------------------------------------
(* Returning and copying.                                                  *)

LEMMA OwnerShape ==
  ASSUME TableInv, NEW o \in Owners
  PROVE  /\ TypeInv /\ LengthInv /\ blocks[o] \in Seq(Blocks) /\ head[o] \in Nat
         /\ head[o] <= Len(blocks[o]) /\ Len(blocks[o]) \in Nat
  BY Typed DEF TableInv

LEMMA RefReturnBlock ==
  ASSUME TableInv, TypeInv', RefInv, NEW o \in Owners, ReturnBlock(o)
  PROVE  RefInv'
<1>1. TypeInv
  BY DEF TableInv
<1>2. /\ Alone(o) /\ pc[o] = "return" /\ pc'[o] = "return" /\ Len(blocks[o]) > head[o]
      /\ UnrefBlock(Last(blocks[o])) /\ blocks'[o] = Front(blocks[o])
      /\ head'[o] = head[o] /\ hist'[o] = hist[o] /\ source'[o] = source[o]
      /\ (o \in Seqs => SameSeq(o))
  BY <1>1, ReturnBlockEffect
<1>3. PICK k \in Index : /\ SlotsKeptBut(o, k) /\ Slot(o, k) = Last(blocks[o])
                         /\ NextSlot(o, k) = NoBlock
  BY <1>1, <1>2, PopSlots DEF SameSeq, SameRun, SameUndo
<1>4. Last(blocks[o]) \in Blocks
  BY <1>1, <1>2, PopSlots DEF SameSeq, SameRun, SameUndo
<1>5. NoMore(o)
  BY <1>1, <1>2, NoMoreIf DEF Writing, SameSeq, SameMeta
<1>6. NotesKept(o)
  BY <1>2, UndoRest DEF NotesKept, MetaOf, Undoable, Executing
<1> QED BY <1>1, <1>2, <1>3, <1>4, <1>5, <1>6, RefDrops

LEMMA RefReturnEnd ==
  ASSUME TableInv, TypeInv', RefInv, NEW o \in Owners, ReturnEnd(o)
  PROVE  RefInv'
<1>1. /\ TypeInv /\ head[o] \in Nat /\ Len(blocks[o]) \in Nat
  BY OwnerShape
<1>2. /\ Alone(o) /\ pc[o] = "return" /\ pc'[o] = Unused /\ Len(blocks[o]) <= head[o]
      /\ blocks'[o] = <<>> /\ hist'[o] = <<>> /\ head'[o] = 0 /\ SameStore
      /\ o \in Seqs => SameRun(o) /\ metadata'[o] = <<>>
  BY <1>1, ReturnEndEffect
<1>3. \A i \in Index : Slot(o, i) = NoBlock /\ NextSlot(o, i) = NoBlock
  <2>1. o \in Seqs => tail[o] = NoBlock /\ dropping[o] = NoBlock
                      /\ tail'[o] = NoBlock /\ dropping'[o] = NoBlock
    BY <1>1, <1>2 DEF TypeInv, Progress, ProgressOf, Executing, SameRun, SameUndo
  <2>2. \A i \in Index : ~ (head[o] < i /\ i <= Len(blocks[o]))
    BY <1>1, <1>2 DEF Index
  <2>3. Len(blocks'[o]) = 0
    BY <1>2
  <2>4. \A i \in Index : ~ (head'[o] < i /\ i <= Len(blocks'[o]))
    BY <1>2, <2>3 DEF Index
  <2> QED BY <2>1, <2>2, <2>4 DEF Slot, NextSlot
<1>4. NotesKept(o)
  BY <1>2, UndoRest, MetaEmpty DEF NotesKept, Undoable, Executing, Unused
<1> QED BY <1>1, <1>2, <1>3, <1>4, RefKeeps DEF SlotsKept, SameStore, storeVars

\* What is being copied is not written meanwhile.
LEMMA RefCopyRef ==
  ASSUME TableInv, TypeInv', RefInv, NEW o \in Owners, CopyRef(o)
  PROVE  RefInv'
<1>1. /\ TypeInv /\ LengthInv /\ WindowInv /\ head[o] \in Nat /\ Len(blocks[o]) \in Nat
      /\ head[o] <= Len(blocks[o])
  BY OwnerShape DEF TableInv
<1>2. /\ Alone(o) /\ pc[o] = "copying" /\ pc'[o] = "copying"
      /\ Len(blocks[o]) < Len(blocks[source[o]])
      /\ RefBlock(blocks[source[o]][Len(blocks[o]) + 1])
      /\ blocks'[o] = Append(blocks[o], blocks[source[o]][Len(blocks[o]) + 1])
      /\ head'[o] = head[o] /\ hist'[o] = hist[o] /\ source'[o] = source[o]
      /\ (o \in Seqs => SameSeq(o))
  BY <1>1, CopyRefEffect
<1>3. /\ source[o] \in Owners \ {o} /\ source[o] \notin SessionSeqs
      /\ pc[source[o]] \in {"lent", "idle"} /\ hist[o] = <<>>
  BY <1>1, <1>2, SourceIdle DEF LengthInv, LengthsOf
<1>4. PICK src \in Owners \ {o} : src = source[o]
  BY <1>3
<1>5. /\ Len(blocks[src]) \in Nat /\ head[src] = head[o]
  BY <1>1, <1>2, <1>4, OwnerShape DEF WindowInv, Behind
<1>6. PICK k \in Int : k = Len(blocks[o]) + 1
  BY <1>1
<1>7. /\ k \in Index /\ k > 0 /\ Slot(src, k) = blocks[src][k] /\ blocks[src][k] \in Blocks
      /\ Slot(src, k) # NoBlock
  <2>1. head[src] < k /\ k <= Len(blocks[src])
    BY <1>1, <1>2, <1>4, <1>5, <1>6
  <2> QED BY <1>1, <2>1, TableSlot
<1>8. PICK b \in Blocks : b = blocks[src][k]
  BY <1>7
<1>9. /\ RefBlock(b) /\ SlotsKeptBut(o, k) /\ Slot(o, k) = NoBlock /\ NextSlot(o, k) = b
  BY <1>1, <1>2, <1>4, <1>6, <1>8, PushSlots DEF SameSeq, SameRun, SameUndo
<1>10. b \notin free
  BY <1>1, <1>7, <1>8, NamedUsed
<1>11. o \in Seqs => metadata[o] = <<>> /\ metadata'[o] = <<>>
  BY <1>1, <1>2, <1>3, NoMetadata DEF RefInv, OwnInv, SameSeq, SameMeta
<1>12. Full(o)' = Full(o) /\ Full(src) = Full(o) /\ Full(o) \in Nat
  <2>1. Full(o) = Len(hist[src]) \div BlockSize
    BY <1>2, <1>4 DEF Full
  <2>2. Full(src) = Len(hist[src]) \div BlockSize
    BY <1>3, <1>4 DEF Full
  <2>3. hist'[src] = hist[src]
    BY <1>2 DEF Alone, Kept, SameTable
  <2>4. Full(o)' = Len(hist'[src]) \div BlockSize
    BY <1>2, <1>4 DEF Full
  <2> QED BY <1>1, <2>1, <2>2, <2>3, <2>4, FullType
<1>13. Unhashed(o, k)' => hashes[b] = NoHash
  <2>1. Unhashed(o, k)' => k > Full(o)'
    BY <1>7, <1>11 DEF Unhashed, Listed
  <2>2. k > Full(src) => Unhashed(src, k)
    BY <1>3, <1>4, <1>7 DEF Unhashed
  <2>3. Unhashed(src, k) => hashes[b] = NoHash
    BY <1>7, <1>8 DEF RefInv, OwnInv, UnhashedInv
  <2> QED BY <1>12, <2>1, <2>2, <2>3
<1>14. \A q \in Owners : \A j \in Index : Slot(q, j) = b => ~ Private(q, j)
  <2>1. ~ Writing(src)
    BY <1>3, <1>4 DEF Writing
  <2>2. \A x : ~ Listed(src, x)
    <3>1. src \in Seqs => metadata[src] = <<>>
      BY <1>1, <1>3, <1>4 DEF LengthInv, RunLengths
    <3> QED BY <3>1 DEF Listed
  <2>3. ~ Private(src, k)
    BY <2>1, <2>2 DEF Private
  <2> QED BY <1>1, <1>7, <1>8, <2>3, SharedPlaces
<1>15. ~ Writing(o)'
  BY <1>2 DEF Writing
<1>16. ~ Private(o, k)'
  BY <1>11, <1>15 DEF Private, Listed
<1>17. NoMore(o)
  BY <1>2, <1>11, <1>12, <1>15 DEF NoMore
<1>18. NotesKept(o)
  BY <1>2, <1>11, UndoRest, MetaEmpty DEF NotesKept, Undoable, Executing
<1> QED BY <1>1, <1>2, <1>7, <1>9, <1>10, <1>13, <1>14, <1>16, <1>17, <1>18, RefAdds

-----------------------------------------------------------------------------
(* Hashing.                                                                *)

LEMMA HashAtConcat ==
  ASSUME NEW h \in Seq(Token), NEW t \in Seq(Token), NEW i \in Nat, i <= Len(h) \div BlockSize
  PROVE  HashAt(h \o t, i) = HashAt(h, i)
<1>1. i * BlockSize \in Nat /\ i * BlockSize <= Len(h)
  BY BlockEndFits
<1>2. CASE i * BlockSize = 0
  BY <1>2, SubSeqEmpty DEF HashAt
<1>3. CASE i * BlockSize # 0
  <2>1. i * BlockSize \in 1 .. Len(h) /\ 1 \in 1 .. Len(h)
    BY <1>1, <1>3
  <2> QED BY <2>1, SubSeqOfConcat1 DEF HashAt
<1> QED BY <1>2, <1>3

\* Only o's places may be hashed, and only where they were to be hashed.
LEMMA OwnHashes ==
  ASSUME TypeInv, OwnInv, NEW o \in Owners, Alone(o), SlotsKept(o),
         \A i \in Index : Slot(o, i) # NoBlock /\ Unhashed(o, i)' =>
           Unhashed(o, i) /\ hashes'[Slot(o, i)] = hashes[Slot(o, i)],
         \A i \in Index : Slot(o, i) # NoBlock /\ Private(o, i)' => Private(o, i),
         \A q \in Owners \ {o} : \A j \in Index :
           Slot(q, j) # NoBlock => hashes'[Slot(q, j)] = hashes[Slot(q, j)],
         NotesKept(o)
  PROVE  OwnInv'
<1>1. ASSUME NEW q \in Owners \ {o}
      PROVE  /\ SlotsKept(q)
             /\ \A i \in Index : (Private(q, i)' <=> Private(q, i)) /\ (Unhashed(q, i)' <=> Unhashed(q, i))
             /\ q \in Seqs => (UndoOf(q) => UndoOf(q)') /\ (MetaOf(q) => MetaOf(q)')
  <2>1. Kept(q) /\ (pc[q] = "copying" => Kept(source[q]))
    BY SourceIdle DEF Alone
  <2> QED BY <2>1, PlaceFrame
<1>2. \A q \in Owners : \A i \in Index : NextSlot(q, i) = Slot(q, i)
  BY <1>1 DEF SlotsKept
<1>3. UnhashedInv'
  <2> SUFFICES ASSUME NEW q \in Owners, NEW i \in Index,
                      NextSlot(q, i) # NoBlock, Unhashed(q, i)'
               PROVE  hashes'[NextSlot(q, i)] = NoHash
    BY SlotNext DEF UnhashedInv
  <2>1. Slot(q, i) # NoBlock /\ NextSlot(q, i) = Slot(q, i)
    BY <1>2
  <2>2. Unhashed(q, i) /\ hashes'[Slot(q, i)] = hashes[Slot(q, i)]
    BY <1>1, <2>1
  <2> QED BY <2>1, <2>2 DEF OwnInv, UnhashedInv
<1>4. PrivateInv'
  <2> SUFFICES ASSUME NEW q \in Owners, NEW i \in Index,
                      NextSlot(q, i) # NoBlock, Private(q, i)',
                      NEW p \in Owners, NEW j \in Index, NextSlot(p, j) = NextSlot(q, i)
               PROVE  p = q /\ j = i
    BY SlotNext DEF PrivateInv, Sole
  <2>1. Slot(q, i) # NoBlock /\ Slot(p, j) = Slot(q, i)
    BY <1>2
  <2>2. Private(q, i)
    BY <1>1, <2>1
  <2> QED BY <2>1, <2>2 DEF OwnInv, PrivateInv, Sole
<1>5. \A s \in Seqs : UndoOf(s)' /\ MetaOf(s)'
  BY <1>1, Typed DEF OwnInv, NotesKept
<1> QED BY <1>3, <1>4, <1>5 DEF OwnInv

\* A block that note_tokens is about to hash is the sequence's own, live and
\* not hashed yet.
LEMMA NotedPlace ==
  ASSUME TableInv, RefInv, NoStaleNotes, NEW s \in Seqs, pc[s] = "note", NEW i \in Int,
         noted[s] < i, i <= CompletedBlocks(s)
  PROVE  /\ i \in Index /\ i > 0 /\ i > Full(s) /\ i > Len(hist[s]) \div BlockSize
         /\ head[s] < i /\ i <= Len(blocks[s])
         /\ Slot(s, i) = blocks[s][i] /\ blocks[s][i] \in Blocks /\ Slot(s, i) # NoBlock
         /\ Private(s, i) /\ Sole(s, i) /\ Unhashed(s, i)
         /\ hashes[blocks[s][i]] = NoHash /\ refcounts[blocks[s][i]] > 0
         /\ HashAt(hist[s] \o tokens[s], i) \in Seq(Token)
         /\ HashAt(hist[s] \o tokens[s], i) # NoHash
<1>1. /\ TypeInv /\ LengthInv /\ s \in Owners /\ head[s] \in Nat /\ noted[s] \in Nat
      /\ Len(blocks[s]) \in Nat /\ Len(hist[s]) \div BlockSize \in Nat
      /\ hist[s] \o tokens[s] \in Seq(Token) /\ Frontier(s) = Len(hist[s] \o tokens[s])
      /\ Frontier(s) \in Nat /\ CompletedBlocks(s) \in Nat /\ BlocksFor(Frontier(s)) \in Nat
  BY SeqShape, SequenceType, Typed DEF TypeInv
<1>2. /\ head[s] <= Len(hist[s]) \div BlockSize /\ Len(hist[s]) \div BlockSize <= noted[s]
  BY <1>1, HeadBefore DEF LengthInv, RunLengths
<1>3. CompletedBlocks(s) <= BlocksFor(Frontier(s)) /\ BlocksFor(Frontier(s)) <= Len(blocks[s])
  BY <1>1, CompletedFit DEF TypeInv, Progress, ProgressOf, CompletedBlocks
<1>4. Full(s) = noted[s]
  BY DEF Full
<1>5. /\ i > Full(s) /\ i > Len(hist[s]) \div BlockSize /\ head[s] < i /\ i <= Len(blocks[s])
      /\ i \in Nat
  <2> DEFINE full == Len(hist[s]) \div BlockSize
             last == CompletedBlocks(s)
             fit == BlocksFor(Frontier(s))
  <2>1. /\ head[s] <= full /\ full <= noted[s] /\ last <= fit /\ fit <= Len(blocks[s])
        /\ noted[s] < i /\ i <= last /\ full \in Nat /\ last \in Nat /\ fit \in Nat
    BY <1>1, <1>2, <1>3
  <2> HIDE DEF full, last, fit
  <2>2. i > noted[s] /\ i > full /\ head[s] < i /\ i <= Len(blocks[s]) /\ i \in Nat
    BY <1>1, <2>1
  <2> QED BY <1>4, <2>2 DEF full
<1>6. /\ i \in Index /\ i > 0 /\ Slot(s, i) = blocks[s][i] /\ blocks[s][i] \in Blocks
      /\ Slot(s, i) # NoBlock
  BY <1>1, <1>5, TableSlot
<1>7. Private(s, i) /\ Unhashed(s, i)
  BY <1>5, <1>6 DEF Private, Unhashed, Writing
<1>8. Sole(s, i) /\ hashes[blocks[s][i]] = NoHash /\ refcounts[blocks[s][i]] > 0
  BY <1>1, <1>6, <1>7, NamedUsed DEF RefInv, OwnInv, PrivateInv, UnhashedInv
<1>9. /\ HashAt(hist[s] \o tokens[s], i) \in Seq(Token)
      /\ Len(HashAt(hist[s] \o tokens[s], i)) = i * BlockSize
  BY <1>1, <1>5, HashAtType DEF CompletedBlocks
<1>10. i * BlockSize > 0
  BY <1>5, <1>6, KvPoolConstants
<1>11. HashAt(hist[s] \o tokens[s], i) # NoHash
  <2>1. Len(NoHash) = 0
    BY DEF NoHash
  <2> QED BY <1>9, <1>10, <2>1
<1> QED BY <1>5, <1>6, <1>7, <1>8, <1>9, <1>11

LEMMA RefNote ==
  ASSUME TableInv, TypeInv', RefInv, NoStaleNotes, NEW s \in Seqs, Note(s)
  PROVE  RefInv'
<1>1. /\ TypeInv /\ s \in Owners /\ Balanced /\ StoreOK /\ OwnInv /\ noted[s] \in Nat
      /\ CompletedBlocks(s) \in Nat
  BY SeqShape, SequenceType, Typed DEF RefInv, TypeInv
<1>2. /\ Alone(s) /\ pc[s] = "note" /\ pc'[s] = "note" /\ noted[s] < CompletedBlocks(s)
      /\ SetHash(blocks[s][noted[s] + 1], HashAt(hist[s] \o tokens[s], noted[s] + 1))
      /\ noted'[s] = noted[s] + 1 /\ SameTable(s) /\ SameUndo(s) /\ SameMeta(s)
  BY <1>1, NoteEffect
<1>3. PICK k \in Int : k = noted[s] + 1
  BY <1>1
<1>4. /\ k \in Index /\ k > 0 /\ k > Full(s) /\ k > Len(hist[s]) \div BlockSize
      /\ Slot(s, k) = blocks[s][k] /\ blocks[s][k] \in Blocks /\ Slot(s, k) # NoBlock
      /\ Sole(s, k) /\ hashes[blocks[s][k]] = NoHash /\ refcounts[blocks[s][k]] > 0
      /\ HashAt(hist[s] \o tokens[s], k) \in Seq(Token)
      /\ HashAt(hist[s] \o tokens[s], k) # NoHash
  <2>1. noted[s] < k /\ k <= CompletedBlocks(s)
    BY <1>1, <1>2, <1>3
  <2> QED BY <1>2, <2>1, NotedPlace
<1>5. PICK b \in Blocks : b = blocks[s][k]
  BY <1>4
<1>6. PICK h \in Seq(Token) : h = HashAt(hist[s] \o tokens[s], k)
  BY <1>4
<1>7. /\ StoreOK' /\ refcounts' = refcounts
      /\ \A c \in Blocks : c # b => hashes'[c] = hashes[c]
  <2>1. SetHash(b, h) /\ h # NoHash /\ hashes[b] = NoHash /\ refcounts[b] > 0
    BY <1>2, <1>3, <1>4, <1>5, <1>6
  <2> QED BY <1>1, <2>1, SetHashOK
<1>8. SlotsKept(s)
  BY <1>1, <1>2, SlotsSteady DEF SameTable, SameUndo
<1>9. Balanced'
  BY <1>1, <1>2, <1>7, <1>8, OthersKept, BalancedSame
<1>10. ASSUME NEW q \in Owners, NEW j \in Index, Slot(q, j) # NoBlock, q # s \/ j # k
       PROVE  hashes'[Slot(q, j)] = hashes[Slot(q, j)]
  <2>1. Slot(q, j) \in Blocks
    BY <1>1, <1>10, SlotOf
  <2>2. Slot(q, j) # b
    BY <1>4, <1>5, <1>10 DEF Sole
  <2> QED BY <1>7, <2>1, <2>2
<1>11. Full(s) = noted[s] /\ Full(s)' = k
  BY <1>2, <1>3 DEF Full
<1>12. ~ Unhashed(s, k)'
  <2>1. ~ Listed(s, Slot(s, k))
    BY <1>2, <1>4, NotListed
  <2>2. Slot(s, k)' = Slot(s, k)
    BY <1>4, <1>8, SlotNext DEF SlotsKept
  <2>3. ~ Listed(s, Slot(s, k))'
    BY <1>2, <2>1, <2>2 DEF Listed, SameMeta
  <2> QED BY <1>4, <1>11, <2>3 DEF Unhashed
<1>13. NoMore(s)
  BY <1>1, <1>2, <1>3, <1>11 DEF NoMore, Writing, SameMeta
<1>14. \A i \in Index : (Unhashed(s, i)' => Unhashed(s, i)) /\ (Private(s, i)' => Private(s, i))
  BY <1>1, <1>8, <1>13, NoMorePrivate DEF NoMore, SlotsKept
<1>15. \A i \in Index : Slot(s, i) # NoBlock /\ Unhashed(s, i)' =>
         Unhashed(s, i) /\ hashes'[Slot(s, i)] = hashes[Slot(s, i)]
  BY <1>1, <1>10, <1>12, <1>14
<1>16. NotesKept(s)
  BY <1>1, <1>2, UndoRest, MetaSteady
     DEF NotesKept, OwnInv, Undoable, Executing, SameTable, SameMeta
<1>17. OwnInv'
  BY <1>1, <1>2, <1>8, <1>10, <1>14, <1>15, <1>16, OwnHashes
<1> QED BY <1>7, <1>9, <1>17 DEF RefInv

\* The metadata of a history stays right when the history grows.
LEMMA MetaAdvances ==
  ASSUME TableInv, NEW s \in Seqs, MetaOf(s), pc[s] = "note", hist'[s] = hist[s] \o tokens[s],
         blocks'[s] = blocks[s], head'[s] = head[s], NEW k \in DOMAIN metadata[s]
  PROVE  \E i \in head'[s] + 1 .. Len(hist'[s]) \div BlockSize :
           metadata[s][k] = <<HashAt(hist'[s], i), blocks'[s][i]>>
<1>1. /\ head[s] \in Nat /\ hist[s] \in Seq(Token) /\ tokens[s] \in Seq(Token)
      /\ Len(hist[s]) \in Nat /\ Frontier(s) \in Nat /\ Len(hist[s]) <= Frontier(s)
      /\ Len(hist'[s]) = Frontier(s) /\ Len(hist[s]) \div BlockSize \in Nat
      /\ Frontier(s) \div BlockSize \in Nat
      /\ Len(hist[s]) \div BlockSize <= Frontier(s) \div BlockSize
  BY SequenceType, SeqShape, DivMonotone, DivBounds, KvPoolConstants DEF TypeInv
<1>2. PICK i \in head[s] + 1 .. Len(hist[s]) \div BlockSize :
        metadata[s][k] = <<HashAt(hist[s], i), blocks[s][i]>>
  BY DEF MetaOf
<1>3. i \in Nat /\ i <= Len(hist[s]) \div BlockSize
  BY <1>1
<1>4. HashAt(hist'[s], i) = HashAt(hist[s], i)
  BY <1>1, <1>3, HashAtConcat
<1>5. i \in head'[s] + 1 .. Len(hist'[s]) \div BlockSize
  BY <1>1, <1>3
<1> QED BY <1>2, <1>4, <1>5

LEMMA RefNoteEnd ==
  ASSUME TableInv, TypeInv', RefInv, NEW s \in Seqs, NoteEnd(s)
  PROVE  RefInv'
<1>1. /\ TypeInv /\ s \in Owners /\ OwnInv /\ noted[s] \in Nat
  BY SeqShape, Typed DEF RefInv
<1>2. /\ Alone(s) /\ pc[s] = "note" /\ pc'[s] = "idle" /\ noted[s] = CompletedBlocks(s)
      /\ hist'[s] = hist[s] \o tokens[s] /\ blocks'[s] = blocks[s] /\ head'[s] = head[s]
      /\ tail'[s] = tail[s] /\ dropping'[s] = dropping[s] /\ SameMeta(s) /\ SameStore
  BY <1>1, NoteEndEffect
<1>3. SlotsKept(s)
  BY <1>1, <1>2, SlotsSteady
<1>4. NoMore(s)
  <2>1. Full(s) = noted[s]
    BY <1>2 DEF Full
  <2>2. Full(s)' = Len(hist'[s]) \div BlockSize
    BY <1>2 DEF Full
  <2>3. Len(hist'[s]) = Frontier(s)
    BY <1>1, <1>2, SequenceType DEF TypeInv
  <2> QED BY <1>1, <1>2, <2>1, <2>2, <2>3 DEF NoMore, Writing, SameMeta, CompletedBlocks
<1>5. MetaOf(s)'
  BY <1>1, <1>2, MetaAdvances DEF OwnInv, SameMeta, MetaOf
<1>6. NotesKept(s)
  BY <1>2, <1>5, UndoRest DEF NotesKept, Undoable, Executing
<1> QED BY <1>1, <1>2, <1>3, <1>4, <1>6, RefSteady DEF SameStore, storeVars

\* An entry of the metadata after note_tokens_deferred is an old one, or that
\* of a block it has just completed.
LEMMA DeferredEntry ==
  ASSUME TypeInv, NEW s \in Seqs, NoteDeferred(s), NEW k \in DOMAIN metadata'[s]
  PROVE  \/ k \in DOMAIN metadata[s] /\ metadata'[s][k] = metadata[s][k]
         \/ \E i \in Int : /\ noted[s] < i /\ i <= CompletedBlocks(s)
                           /\ metadata'[s][k] = <<HashAt(hist[s] \o tokens[s], i), blocks[s][i]>>
<1> DEFINE pair(j) == <<HashAt(hist[s] \o tokens[s], noted[s] + j), blocks[s][noted[s] + j]>>
           more == [j \in 1 .. (CompletedBlocks(s) - noted[s]) |-> pair(j)]
           any == {metadata[s][j] : j \in DOMAIN metadata[s]} \cup
                  {pair(j) : j \in 1 .. (CompletedBlocks(s) - noted[s])}
<1>1. /\ CompletedBlocks(s) \in Nat /\ noted[s] \in Nat
      /\ metadata[s] \in Seq(Seq(Token) \X Blocks)
  BY SequenceType, Typed DEF TypeInv
<1>2. noted[s] <= CompletedBlocks(s) /\ metadata'[s] = metadata[s] \o more
  BY NoteDeferredEffect DEF TypeInv, Progress, ProgressOf
<1>3. CompletedBlocks(s) - noted[s] \in Nat
  BY <1>1, <1>2
<1>4. more \in Seq(any)
  <2> HIDE DEF pair
  <2> QED BY <1>3, IsASeq
<1>5. metadata[s] \in Seq(any)
  <2>1. /\ Len(metadata[s]) \in Nat /\ DOMAIN metadata[s] = 1 .. Len(metadata[s])
        /\ metadata[s] = [j \in 1 .. Len(metadata[s]) |-> metadata[s][j]]
    BY <1>1
  <2>2. \A j \in 1 .. Len(metadata[s]) : metadata[s][j] \in any
    BY <2>1
  <2> HIDE DEF any
  <2>3. [j \in 1 .. Len(metadata[s]) |-> metadata[s][j]] \in Seq(any)
    BY <2>1, <2>2, IsASeq
  <2> QED BY <2>1, <2>3
<1>6. Len(more) = CompletedBlocks(s) - noted[s]
  BY <1>3
<1>7. \A j \in 1 .. (CompletedBlocks(s) - noted[s]) : more[j] = pair(j)
  OBVIOUS
<1> HIDE DEF more, any
<1>8. /\ k \in 1 .. Len(metadata[s]) + Len(more)
      /\ metadata'[s][k] = IF k <= Len(metadata[s]) THEN metadata[s][k] ELSE more[k - Len(metadata[s])]
  <2>1. /\ metadata'[s] \in Seq(any) /\ Len(metadata'[s]) = Len(metadata[s]) + Len(more)
        /\ \A i \in 1 .. Len(metadata[s]) + Len(more) : metadata'[s][i] =
             IF i <= Len(metadata[s]) THEN metadata[s][i] ELSE more[i - Len(metadata[s])]
    BY <1>2, <1>4, <1>5, ConcatProperties
  <2>2. DOMAIN metadata'[s] = 1 .. Len(metadata[s]) + Len(more)
    BY <2>1
  <2> QED BY <2>1, <2>2
<1>9. CASE k <= Len(metadata[s])
  BY <1>1, <1>8, <1>9
<1>10. CASE ~ (k <= Len(metadata[s]))
  <2>1. PICK j \in Int : j = k - Len(metadata[s])
    BY <1>1, <1>8
  <2>2. j \in 1 .. (CompletedBlocks(s) - noted[s]) /\ metadata'[s][k] = more[j]
    BY <1>1, <1>6, <1>8, <1>10, <2>1
  <2>3. PICK i \in Int : i = noted[s] + j
    BY <1>1
  <2>4. noted[s] < i /\ i <= CompletedBlocks(s)
    BY <1>1, <2>2, <2>3
  <2>5. metadata'[s][k] = <<HashAt(hist[s] \o tokens[s], i), blocks[s][i]>>
    BY <1>7, <2>2, <2>3
  <2> QED BY <2>4, <2>5
<1> QED BY <1>9, <1>10

LEMMA RefNoteDeferred ==
  ASSUME TableInv, TypeInv', RefInv, NoStaleNotes, NEW s \in Seqs, NoteDeferred(s)
  PROVE  RefInv'
<1>1. /\ TypeInv /\ s \in Owners /\ OwnInv /\ noted[s] \in Nat /\ head[s] \in Nat
      /\ CompletedBlocks(s) \in Nat
  BY SeqShape, SequenceType, Typed DEF RefInv, TypeInv
<1>2. /\ Alone(s) /\ pc[s] = "note" /\ pc'[s] = "idle"
      /\ hist'[s] = hist[s] \o tokens[s] /\ blocks'[s] = blocks[s] /\ head'[s] = head[s]
      /\ tail'[s] = tail[s] /\ dropping'[s] = dropping[s] /\ SameStore
  BY <1>1, NoteDeferredEffect
<1>3. SlotsKept(s)
  BY <1>1, <1>2, SlotsSteady
<1>4. Full(s) = noted[s] /\ Full(s)' = CompletedBlocks(s) /\ noted[s] <= CompletedBlocks(s)
  <2>1. Full(s)' = Len(hist'[s]) \div BlockSize
    BY <1>2 DEF Full
  <2>2. Len(hist'[s]) = Frontier(s)
    BY <1>1, <1>2, SequenceType DEF TypeInv
  <2> QED BY <1>1, <1>2, <2>1, <2>2 DEF Full, CompletedBlocks, TypeInv, Progress, ProgressOf
<1>5. ASSUME NEW i \in Index, i > 0, Slot(s, i) # NoBlock, Listed(s, Slot(s, i))'
      PROVE  Listed(s, Slot(s, i)) \/ (Private(s, i) /\ Unhashed(s, i) /\ Sole(s, i))
  <2>1. Slot(s, i)' = Slot(s, i)
    BY <1>3, SlotNext DEF SlotsKept
  <2>2. PICK k \in DOMAIN metadata'[s] : metadata'[s][k][2] = Slot(s, i)
    BY <1>5, <2>1 DEF Listed
  <2>3. CASE k \in DOMAIN metadata[s] /\ metadata'[s][k] = metadata[s][k]
    BY <2>2, <2>3 DEF Listed
  <2>4. CASE \E j \in Int : /\ noted[s] < j /\ j <= CompletedBlocks(s)
               /\ metadata'[s][k] = <<HashAt(hist[s] \o tokens[s], j), blocks[s][j]>>
    <3>1. PICK j \in Int : /\ noted[s] < j /\ j <= CompletedBlocks(s)
               /\ metadata'[s][k] = <<HashAt(hist[s] \o tokens[s], j), blocks[s][j]>>
      BY <2>4
    <3>2. /\ j \in Index /\ Slot(s, j) = blocks[s][j] /\ Slot(s, j) # NoBlock
          /\ Private(s, j) /\ Sole(s, j) /\ Unhashed(s, j)
      BY <1>2, <3>1, NotedPlace
    <3>3. Slot(s, i) = Slot(s, j)
      BY <2>2, <3>1, <3>2
    <3>4. i = j
      BY <1>1, <3>2, <3>3 DEF Sole
    <3> QED BY <3>2, <3>4
  <2> QED BY <1>1, <2>3, <2>4, DeferredEntry
<1>6. ASSUME NEW i \in Index, Slot(s, i) # NoBlock
      PROVE  /\ Unhashed(s, i)' => Unhashed(s, i)
             /\ Private(s, i)' => Private(s, i) \/ Sole(s, i)
  <2>1. i > Full(s)' => i > Full(s)
    BY <1>1, <1>4 DEF Index
  <2>2. ~ Writing(s)'
    BY <1>2 DEF Writing
  <2>3. ASSUME Unhashed(s, i)' PROVE Unhashed(s, i)
    <3>1. i = 0 \/ (i > 0 /\ i > Full(s)') \/ (i > 0 /\ Listed(s, Slot(s, i))')
      BY <2>3 DEF Unhashed
    <3> QED BY <1>2, <1>5, <1>6, <2>1, <3>1 DEF Unhashed
  <2>4. ASSUME Private(s, i)' PROVE Private(s, i) \/ Sole(s, i)
    <3>1. i > 0 /\ Listed(s, Slot(s, i))'
      BY <2>2, <2>4 DEF Private
    <3> QED BY <1>5, <1>6, <3>1 DEF Private
  <2> QED BY <2>3, <2>4
<1>7. MetaOf(s)'
  <2> SUFFICES ASSUME NEW k \in DOMAIN metadata'[s]
               PROVE  \E i \in head'[s] + 1 .. Len(hist'[s]) \div BlockSize :
                        metadata'[s][k] = <<HashAt(hist'[s], i), blocks'[s][i]>>
    BY DEF MetaOf
  <2>1. CASE k \in DOMAIN metadata[s] /\ metadata'[s][k] = metadata[s][k]
    BY <1>1, <1>2, <2>1, MetaAdvances DEF OwnInv
  <2>2. CASE \E j \in Int : /\ noted[s] < j /\ j <= CompletedBlocks(s)
               /\ metadata'[s][k] = <<HashAt(hist[s] \o tokens[s], j), blocks[s][j]>>
    <3>1. PICK j \in Int : /\ noted[s] < j /\ j <= CompletedBlocks(s)
               /\ metadata'[s][k] = <<HashAt(hist[s] \o tokens[s], j), blocks[s][j]>>
      BY <2>2
    <3>2. head[s] < j
      BY <1>2, <3>1, NotedPlace
    <3>3. Len(hist'[s]) \div BlockSize = CompletedBlocks(s)
      BY <1>2, <1>4 DEF Full
    <3>4. j \in head'[s] + 1 .. Len(hist'[s]) \div BlockSize
      <4>1. head'[s] + 1 <= j /\ head'[s] + 1 \in Int
        BY <1>1, <1>2, <3>1, <3>2
      <4> QED BY <1>1, <3>1, <3>3, <4>1
    <3> QED BY <1>2, <3>1, <3>4
  <2> QED BY <1>1, <2>1, <2>2, DeferredEntry
<1>8. NotesKept(s)
  BY <1>2, <1>7, UndoRest DEF NotesKept, Undoable, Executing
<1> QED BY <1>1, <1>2, <1>3, <1>6, <1>8, RefKeeps DEF SameStore, storeVars

\* The deferred metadata of a sequence at rest names its own unhashed blocks.
LEMMA ListedPlace ==
  ASSUME TableInv, RefInv, NEW s \in Seqs, pc[s] = "idle", NEW k \in DOMAIN metadata[s]
  PROVE  \E i \in Index :
           /\ i > 0 /\ i <= Len(hist[s]) \div BlockSize
           /\ metadata[s][k] = <<HashAt(hist[s], i), Slot(s, i)>>
           /\ Slot(s, i) \in Blocks /\ Slot(s, i) # NoBlock /\ Sole(s, i)
           /\ hashes[Slot(s, i)] = NoHash /\ refcounts[Slot(s, i)] > 0
           /\ HashAt(hist[s], i) # NoHash
<1>1. /\ TypeInv /\ s \in Owners /\ OwnInv /\ head[s] \in Nat /\ Len(hist[s]) \in Nat
      /\ hist[s] \in Seq(Token) /\ Len(hist[s]) \div BlockSize \in Nat
      /\ Len(blocks[s]) \in Nat /\ Len(hist[s]) \div BlockSize <= Len(blocks[s])
  BY SeqShape DEF RefInv, LengthInv, LengthsOf
<1>2. PICK i \in head[s] + 1 .. Len(hist[s]) \div BlockSize :
        metadata[s][k] = <<HashAt(hist[s], i), blocks[s][i]>>
  BY <1>1 DEF OwnInv, MetaOf
<1>3. i \in Nat /\ head[s] < i /\ i <= Len(hist[s]) \div BlockSize /\ i <= Len(blocks[s])
  BY <1>1, <1>2
<1>4. /\ i \in Index /\ i > 0 /\ Slot(s, i) = blocks[s][i] /\ blocks[s][i] \in Blocks
      /\ Slot(s, i) # NoBlock
  BY <1>1, <1>3, TableSlot
<1>5. Private(s, i) /\ Unhashed(s, i)
  BY <1>2, <1>4 DEF Private, Unhashed, Listed
<1>6. Sole(s, i) /\ hashes[Slot(s, i)] = NoHash /\ refcounts[Slot(s, i)] > 0
  BY <1>1, <1>4, <1>5, NamedUsed DEF OwnInv, PrivateInv, UnhashedInv
<1>7. HashAt(hist[s], i) # NoHash
  <2>1. Len(HashAt(hist[s], i)) = i * BlockSize
    BY <1>1, <1>3, HashAtType
  <2>2. i * BlockSize > 0
    BY <1>3, <1>4, KvPoolConstants
  <2>3. Len(NoHash) = 0
    BY DEF NoHash
  <2> QED BY <2>1, <2>2, <2>3
<1> QED BY <1>2, <1>3, <1>4, <1>6, <1>7

LEMMA RefPublish ==
  ASSUME TableInv, TypeInv', RefInv, NEW s \in Seqs, Publish(s)
  PROVE  RefInv'
<1>1. /\ TypeInv /\ s \in Owners /\ Balanced /\ StoreOK /\ OwnInv
      /\ metadata[s] \in Seq(Seq(Token) \X Blocks)
  BY SeqShape, Typed DEF RefInv
<1>2. /\ Alone(s) /\ pc[s] = "idle" /\ pc'[s] = "idle" /\ InstallMetadata(metadata[s])
      /\ metadata'[s] = <<>> /\ SameTable(s) /\ SameUndo(s)
  BY <1>1, PublishEffect DEF SameRun
<1>3. SlotsKept(s)
  BY <1>1, <1>2, SlotsSteady DEF SameTable, SameUndo
<1>4. \A k \in DOMAIN metadata[s] : \E i \in Index :
        /\ i > 0 /\ i <= Len(hist[s]) \div BlockSize
        /\ metadata[s][k] = <<HashAt(hist[s], i), Slot(s, i)>>
        /\ Slot(s, i) \in Blocks /\ Slot(s, i) # NoBlock /\ Sole(s, i)
        /\ hashes[Slot(s, i)] = NoHash /\ refcounts[Slot(s, i)] > 0
        /\ HashAt(hist[s], i) # NoHash
  BY <1>2, ListedPlace
<1>5. \A k \in DOMAIN metadata[s] : /\ metadata[s][k][1] # NoHash
                                    /\ hashes[metadata[s][k][2]] = NoHash
                                    /\ refcounts[metadata[s][k][2]] > 0
  BY <1>4
<1>6. ASSUME NEW k \in DOMAIN metadata[s], NEW l \in DOMAIN metadata[s],
             metadata[s][k][2] = metadata[s][l][2]
      PROVE  metadata[s][k] = metadata[s][l]
  <2>1. PICK i \in Index : metadata[s][k] = <<HashAt(hist[s], i), Slot(s, i)>> /\ Sole(s, i)
    BY <1>4
  <2>2. PICK j \in Index : metadata[s][l] = <<HashAt(hist[s], j), Slot(s, j)>>
    BY <1>4
  <2>3. Slot(s, i) = Slot(s, j)
    BY <1>6, <2>1, <2>2
  <2>4. i = j
    BY <1>1, <2>1, <2>3 DEF Sole
  <2> QED BY <2>1, <2>2, <2>4
<1>7. /\ StoreOK' /\ refcounts' = refcounts
      /\ \A c \in Blocks : (\A k \in DOMAIN metadata[s] : metadata[s][k][2] # c) =>
                             hashes'[c] = hashes[c]
  BY <1>1, <1>2, <1>5, <1>6, InstallOK
<1>8. Balanced'
  BY <1>1, <1>2, <1>3, <1>7, OthersKept, BalancedSame
<1>9. ASSUME NEW q \in Owners, NEW j \in Index, Slot(q, j) # NoBlock,
             q # s \/ j = 0 \/ j > Len(hist[s]) \div BlockSize
      PROVE  hashes'[Slot(q, j)] = hashes[Slot(q, j)]
  <2>1. Slot(q, j) \in Blocks
    BY <1>1, <1>9, SlotOf
  <2>2. ASSUME NEW k \in DOMAIN metadata[s], metadata[s][k][2] = Slot(q, j)
        PROVE  FALSE
    <3>1. PICK i \in Index : /\ i > 0 /\ i <= Len(hist[s]) \div BlockSize /\ Sole(s, i)
                             /\ metadata[s][k] = <<HashAt(hist[s], i), Slot(s, i)>>
      BY <1>4
    <3>2. q = s /\ j = i
      BY <2>2, <3>1 DEF Sole
    <3>3. Len(hist[s]) \div BlockSize \in Nat /\ i \in Int
      BY SeqShape DEF Index
    <3> QED BY <1>9, <3>1, <3>2, <3>3
  <2> QED BY <1>7, <2>1, <2>2
<1>10. Full(s) = Len(hist[s]) \div BlockSize /\ Full(s)' = Len(hist[s]) \div BlockSize
  BY <1>2 DEF Full, SameTable
<1>11. \A b : ~ Listed(s, b)'
  BY <1>2 DEF Listed
<1>12. ASSUME NEW i \in Index, Slot(s, i) # NoBlock, Unhashed(s, i)'
       PROVE  Unhashed(s, i) /\ hashes'[Slot(s, i)] = hashes[Slot(s, i)]
  <2>1. i = 0 \/ (i > 0 /\ i > Len(hist[s]) \div BlockSize)
    BY <1>2, <1>10, <1>12 DEF Unhashed, Listed
  <2>2. Unhashed(s, i)
    BY <1>2, <1>10, <2>1 DEF Unhashed
  <2> QED BY <1>1, <1>9, <1>12, <2>1, <2>2
<1>13. ASSUME NEW i \in Index, Private(s, i)' PROVE FALSE
  BY <1>2, <1>13 DEF Private, Writing, Listed
<1>14. NotesKept(s)
  BY <1>2, UndoRest, MetaEmpty DEF NotesKept, Undoable, Executing
<1>15. OwnInv'
  <2>1. \A i \in Index : Slot(s, i) # NoBlock /\ Unhashed(s, i)' =>
          Unhashed(s, i) /\ hashes'[Slot(s, i)] = hashes[Slot(s, i)]
    BY <1>12
  <2>2. \A i \in Index : Slot(s, i) # NoBlock /\ Private(s, i)' => Private(s, i)
    BY <1>13
  <2>3. \A q \in Owners \ {s} : \A j \in Index :
          Slot(q, j) # NoBlock => hashes'[Slot(q, j)] = hashes[Slot(q, j)]
    BY <1>9
  <2> QED BY <1>1, <1>2, <1>3, <1>14, <2>1, <2>2, <2>3, OwnHashes
<1> QED BY <1>7, <1>8, <1>15 DEF RefInv

-----------------------------------------------------------------------------
(* Theorems.                                                               *)

LEMMA RefExecution ==
  ASSUME TableInv, TypeInv', RefInv, NoStaleNotes, NEW s \in Seqs, Execution(s)
  PROVE  RefInv'
<1>1. TypeInv
  BY DEF TableInv
<1> QED
  BY <1>1, RefRetainTail, RefPrepare, RefCopyTail, RefDropReplaced, RefAllocNext, RefWriteRows,
     RefFail, RefCommit, RefEvict, RefCommitEnd, RefNote, RefNoteEnd, RefNoteDeferred,
     RefRollbackBlock, RefRestoreTail, RefRollbackEnd
     DEF Execution

LEMMA RefStep ==
  ASSUME TableInv, TypeInv', RefInv, NoStaleNotes, [Next]_vars
  PROVE  RefInv'
<1>0. TypeInv /\ LengthInv
  BY DEF TableInv
<1>1. CASE Quiet
  BY <1>0, <1>1, RefQuiet
<1>2. CASE \E s \in Seqs : NewSequence(s)
  BY <1>0, <1>2, RefNewSequence
<1>3. CASE \E s \in Seqs : Publish(s)
  BY <1>3, RefPublish
<1>4. CASE \E s \in Seqs : \E t \in Chunks(MaxLen) : MatchBegin(s, t)
  BY <1>0, <1>4, RefMatchBegin
<1>5. CASE \E s \in Seqs : \E t \in Chunks(MaxChunk) : ExecBegin(s, t)
  BY <1>5, RefExecBegin
<1>6. CASE \E s \in Seqs : MatchTake(s)
  BY <1>6, RefMatchTake
<1>7. CASE \E s \in Seqs : MatchEnd(s)
  BY <1>7, RefMatchEnd
<1>8. CASE \E s \in Seqs : Execution(s)
  BY <1>8, RefExecution
<1>9. CASE \E o \in Owners : StartsReturn(o)
  BY <1>0, <1>9, RefStartsReturn
<1>10. CASE \E o \in Owners : Returning(o)
  BY <1>10, RefReturnBlock, RefReturnEnd DEF Returning
<1>11. CASE \E from, to \in Owners : StartsCopy(from, to)
  BY <1>0, <1>11, RefStartsCopy
<1>12. CASE \E o \in Owners : CopyRef(o)
  BY <1>12, RefCopyRef
<1>13. CASE \E o \in Owners : EndsCopy(o, source[o])
  BY <1>0, <1>13, RefEndsCopy
<1> QED BY <1>0, NextCases, <1>1, <1>2, <1>3, <1>4, <1>5, <1>6, <1>7, <1>8, <1>9, <1>10, <1>11,
           <1>12, <1>13

LEMMA RefInit == Init => RefInv
<1> SUFFICES ASSUME Init PROVE RefInv
  OBVIOUS
<1>1. TypeInv
  BY TypeInit
<1>2. ASSUME NEW o \in Owners, NEW i \in Index PROVE Slot(o, i) = NoBlock
  <2>1. blocks[o] = <<>> /\ (o \in Seqs => tail[o] = NoBlock /\ dropping[o] = NoBlock)
    BY DEF Init
  <2>2. ~ (i > 0 /\ i <= Len(blocks[o]))
    BY <2>1 DEF Index
  <2> QED BY <2>1, <2>2 DEF Slot
<1>3. Balanced
  <2> SUFFICES ASSUME NEW b \in Blocks
               PROVE  IsFiniteSet(Refs(b)) /\ refcounts[b] = Cardinality(Refs(b))
    BY DEF Balanced
  <2>1. b # NoBlock
    BY KvPoolConstants
  <2>2. Refs(b) = {}
    BY <1>1, <1>2, <2>1, RefsAre
  <2> QED BY <2>2, FS_EmptySet DEF Init
<1>4. StoreOK
  BY DEF Init, StoreOK
<1>5. OwnInv
  <2>1. UnhashedInv /\ PrivateInv
    BY <1>2 DEF UnhashedInv, PrivateInv
  <2>2. ASSUME NEW s \in Seqs PROVE UndoOf(s) /\ MetaOf(s)
    <3>1. pc[s] = Unused /\ metadata[s] = <<>>
      BY DEF Init, Owners
    <3> QED BY <3>1 DEF UndoOf, MetaOf, Undoable, Executing, Unused
  <2> QED BY <2>1, <2>2 DEF OwnInv
<1> QED BY <1>3, <1>4, <1>5 DEF RefInv

LEMMA RefInvariant == NoStaleNotes /\ Spec => [](TableInv /\ RefInv)
<1> DEFINE Inv == TypeInv /\ TableInv /\ RefInv /\ NoStaleNotes
<1>1. NoStaleNotes /\ Init => Inv
  BY TypeInit, LengthInit, WindowInit, RefInit DEF TableInv
<1>2. Inv /\ TableInv' /\ [Next]_vars => Inv'
  <2> SUFFICES ASSUME Inv, TableInv', [Next]_vars PROVE Inv'
    OBVIOUS
  <2>1. TypeInv'
    BY DEF TableInv
  <2>2. RefInv'
    BY <2>1, RefStep
  <2>3. NoStaleNotes'
    BY DEF NoStaleNotes
  <2> QED BY <2>1, <2>2, <2>3
<1>3. Inv => TableInv /\ RefInv
  OBVIOUS
<1> QED BY <1>1, <1>2, <1>3, TableInvariant, PTL DEF Spec

\* Every reference a sequence or a prefix holds to a block is counted, and
\* nothing else is: over allocation, prefix matching, copy-on-write of a
\* shared tail, eviction, rollback, snapshot, fork and return, ref_block and
\* unref_block pair up.
THEOREM RefcountsCorrect == NoStaleNotes /\ Spec => []RefcountExact
<1>1. RefInv => RefcountExact
  BY DEF RefInv, Balanced, RefcountExact
<1> QED BY <1>1, RefInvariant, PTL

\* BlockStore neither loses a block nor has it in two places: the free list
\* holds exactly the unreferenced blocks without a hash, and by_hash indexes a
\* block under the hash it carries and under no other.
THEOREM BlocksConserved == NoStaleNotes /\ Spec => []Conserved
<1>1. TableInv /\ RefInv => Conserved
  <2> SUFFICES ASSUME TypeInv, StoreOK, NEW b \in Blocks
               PROVE  /\ b \in free <=> refcounts[b] = 0 /\ hashes[b] = NoHash
                      /\ {e[1] : e \in {x \in byHash : x[2] = b}} = {hashes[b]} \ {NoHash}
    BY DEF Conserved, TableInv, RefInv
  <2>1. b \in free <=> refcounts[b] = 0 /\ hashes[b] = NoHash
    BY DEF StoreOK
  <2>2. ASSUME NEW h \in {e[1] : e \in {x \in byHash : x[2] = b}}
        PROVE  h \in {hashes[b]} \ {NoHash}
    BY DEF StoreOK
  <2>3. ASSUME NEW h \in {hashes[b]} \ {NoHash}
        PROVE  h \in {e[1] : e \in {x \in byHash : x[2] = b}}
    <3>1. <<h, b>> \in byHash
      BY <2>3 DEF StoreOK
    <3>2. <<h, b>> \in {x \in byHash : x[2] = b} /\ <<h, b>>[1] = h
      BY <3>1
    <3> QED BY <3>2
  <2> QED BY <2>1, <2>2, <2>3
<1> QED BY <1>1, RefInvariant, PTL

\* alloc_block can always reclaim what it counts as available: every cached
\* block is still in the queue it pops.
THEOREM CachedReclaimable == NoStaleNotes /\ Spec => []Reclaimable
<1>1. RefInv => Reclaimable
  BY CachedIff DEF RefInv, StoreOK, Reclaimable
<1> QED BY <1>1, RefInvariant, PTL

\* A step other than the last one of a rollback does not take s from rollback
\* to idle.
LEMMA OnlyRollbackEnds ==
  ASSUME TypeInv, [Next]_vars, NEW s \in Seqs, pc[s] = "rollback", pc'[s] = "idle"
  PROVE  RollbackEnd(s)
<1>0. s \in Owners /\ pc'[s] # pc[s]
  BY Typed
<1>a. \A o \in Owners : Alone(o) => o = s
  BY <1>0 DEF Alone, Kept
<1>1. ~ Quiet
  BY <1>0 DEF Quiet, Kept
<1>2. \A q \in Seqs : q \in Owners
  BY DEF Owners
<1>3. ASSUME NEW q \in Seqs,
             \/ NewSequence(q) \/ Publish(q) \/ MatchTake(q) \/ MatchEnd(q)
             \/ (\E t \in Chunks(MaxLen) : MatchBegin(q, t))
             \/ (\E t \in Chunks(MaxChunk) : ExecBegin(q, t))
      PROVE  FALSE
  BY <1>3, <1>a, <1>2, NewSequenceEffect, PublishEffect, MatchTakeEffect, MatchEndEffect,
     MatchBeginEffect, ExecBeginEffect DEF Unused
<1>4. ASSUME NEW o \in Owners, StartsReturn(o) \/ Returning(o) \/ CopyRef(o)
      PROVE  FALSE
  BY <1>4, <1>a, ReturnBlockEffect, ReturnEndEffect, CopyRefEffect DEF StartsReturn, Returning
<1>5. ASSUME NEW from \in Owners, NEW to \in Owners, StartsCopy(from, to) PROVE FALSE
  BY <1>0, <1>5 DEF StartsCopy, Kept, Unused
<1>6. ASSUME NEW o \in Owners, EndsCopy(o, source[o]) PROVE FALSE
  BY <1>0, <1>6 DEF EndsCopy, Kept
<1>7. ASSUME NEW q \in Seqs, Execution(q) PROVE RollbackEnd(s)
  <2>1. CASE RetainTail(q) \/ Prepare(q) \/ CopyTail(q)
    BY <2>1, <1>a, <1>2, RetainTailEffect, PrepareEffect, CopyTailEffect
  <2>2. CASE DropReplaced(q) \/ AllocNext(q) \/ WriteRows(q) \/ Fail(q)
    BY <2>2, <1>a, <1>2, DropReplacedEffect, AllocNextEffect, WriteRowsEffect, FailEffect
  <2>3. CASE Commit(q) \/ Evict(q) \/ CommitEnd(q) \/ Note(q)
    BY <2>3, <1>a, <1>2, CommitEffect, EvictEffect, CommitEndEffect, NoteEffect
  <2>4. CASE NoteEnd(q) \/ NoteDeferred(q) \/ RollbackBlock(q) \/ RestoreTail(q)
    BY <2>4, <1>a, <1>2, NoteEndEffect, NoteDeferredEffect, RollbackBlockEffect,
       RestoreTailEffect
  <2>5. CASE RollbackEnd(q)
    BY <2>5, <1>a, <1>2, RollbackEndEffect
  <2> QED BY <1>7, <2>1, <2>2, <2>3, <2>4, <2>5 DEF Execution
<1> QED BY NextCases, <1>1, <1>3, <1>4, <1>5, <1>6, <1>7

\* A rollback ends with the block table that begin saw, a shared tail
\* included, and the committed history untouched (CpuState::rollback).
THEOREM RollbackCorrect == NoStaleNotes /\ Spec => RollbackExact
<1>1. TableInv /\ RefInv /\ [Next]_vars =>
        [\A s \in Seqs : pc[s] = "rollback" /\ pc'[s] = "idle" =>
           blocks'[s] = before[s] /\ hist'[s] = hist[s]]_vars
  <2> SUFFICES ASSUME TableInv, RefInv, [Next]_vars, NEW s \in Seqs, pc[s] = "rollback",
                      pc'[s] = "idle"
               PROVE  blocks'[s] = before[s] /\ hist'[s] = hist[s]
    OBVIOUS
  <2>1. TypeInv /\ blocks[s] \in Seq(Blocks) /\ before[s] \in Seq(Blocks)
    BY SeqShape
  <2>2. /\ Len(blocks[s]) = Len(before[s]) /\ ~ TailReplaced(s)
        /\ blocks'[s] = blocks[s] /\ hist'[s] = hist[s]
    BY <2>1, OnlyRollbackEnds, RollbackEndEffect DEF SameTable
  <2>3. ASSUME NEW i \in 1 .. Len(before[s]) PROVE blocks[s][i] = before[s][i]
    BY <2>2 DEF RefInv, OwnInv, UndoOf, Undoable, Executing, TailReplaced
  <2>4. blocks[s] = before[s]
    BY <2>1, <2>2, <2>3, SeqEqual
  <2> QED BY <2>2, <2>4
<1> QED BY <1>1, RefInvariant, PTL DEF Spec, RollbackExact
=============================================================================
