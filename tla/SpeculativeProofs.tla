--------------------------- MODULE SpeculativeProofs ---------------------------
(***************************************************************************)
(* Speculative rounds: what a cancelled call leaves behind, how far the    *)
(* tables of target and proposer reach, and who holds a block, for every   *)
(* number of lanes, blocks and candidates.                                 *)
(***************************************************************************)
EXTENDS SpeculativeRound, TLAPS, FiniteSetTheorems, SequenceTheorems

Table == [blocks : Seq(Blocks), head : Nat, cursor : Nat]

\* No layer has a sliding window.
Unwindowed == \A p \in Pools : Window[p] = 0

Tables == [Pools -> [Lanes -> Table]]

Stores ==
  /\ free \in [Pools -> SUBSET Blocks] /\ hashed \in [Pools -> SUBSET Blocks]
  /\ refcounts \in [Pools -> [Blocks -> Nat]]

Typed ==
  /\ Stores
  /\ canonical \in Tables /\ shadow \in Tables /\ old \in Tables
  /\ drafted \in [Lanes -> Table]
  /\ noted \in [Pools -> SUBSET Blocks]
  /\ kind \in Kinds /\ step \in Nat
  /\ draft \in [Lanes -> 0 .. MaxDraft] /\ page \in [Lanes -> 0 .. MaxDraft + 1]
  /\ released \in [Lanes -> BOOLEAN]

\* A table has the blocks of the tokens it counts.
Backed(t) ==
  /\ t.cursor <= Len(t.blocks) * BlockSize
  /\ Unwindowed => t.head = 0 /\ t.cursor <= MaxTokens

AllBacked ==
  /\ \A p \in Pools, l \in Lanes :
       Backed(canonical[p][l]) /\ Backed(shadow[p][l]) /\ Backed(old[p][l])
  /\ \A l \in Lanes : Backed(drafted[l])

\* What the stages of a round know of the call.
Control ==
  /\ batch \subseteq Live /\ todo \subseteq batch
  /\ pc \in {"idle", "clone", "draft", "copy", "undraft", "verify", "catchup",
             "truncate", "replay", "arbitrate", "commit", "drop", "publish", "discard"}
  /\ token \in {"pending", "complete", "cancelled"}
  /\ pc = "idle" => batch = {} /\ token = "pending"
  /\ pc \in {"idle", "clone"} => step = 0
  /\ pc \in {"copy", "undraft", "replay"} => kind = "parallel"
  /\ pc = "catchup" => kind = "exact"
  /\ pc = "draft" => kind \in {"exact", "parallel"}
  /\ pc \in {"commit", "drop", "publish"} => token = "complete"
  /\ pc \in {"draft", "copy", "undraft"} =>
       todo \subseteq Drafting(IF kind = "exact" THEN step ELSE 0)
  /\ pc = "catchup" => todo \subseteq Behind
  /\ step <= MaxDraft
  /\ \A l \in batch : page[l] >= 1 /\ page[l] <= draft[l] + 1

\* A table of these blocks has room for n tokens.
Room(blocks, n) ==
  /\ n <= Len(blocks) * BlockSize
  /\ Unwindowed => n <= MaxTokens

Base(l) == canonical["target"][l].cursor
Settled(l) == (pc = "truncate" /\ l \notin todo) \/ pc \in {"replay", "arbitrate", "commit"}
Unsettled(l) == pc = "truncate" /\ l \in todo

\* How far the verifier's shadow reaches.
TargetStage(l) ==
  LET t == shadow["target"][l] IN
  /\ (pc = "clone" /\ l \notin todo) \/ pc \in {"draft", "copy", "undraft", "verify"} =>
       t.cursor = Base(l)
  /\ pc = "verify" /\ l \notin todo => Room(t.blocks, t.cursor + draft[l] + 1)
  /\ pc = "catchup" \/ Unsettled(l) => Room(t.blocks, Base(l) + draft[l] + 1)
  /\ Settled(l) => t.cursor = Base(l) + page[l]

\* How far an autoregressive proposer's shadow reaches.
ExactStage(l) ==
  LET t == shadow["proposer"][l] IN
  /\ pc = "clone" /\ l \notin todo => t.cursor = Base(l)
  /\ pc = "draft" => t.cursor = Base(l) + Smaller(step, draft[l])
  /\ pc = "draft" /\ l \in Drafting(step) \ todo => Room(t.blocks, t.cursor + 1)
  /\ pc \in {"verify", "catchup"} \/ Unsettled(l) => t.cursor = Base(l) + draft[l]
  /\ l \in Behind /\ ((pc = "catchup" /\ l \notin todo) \/ Unsettled(l)) => Room(t.blocks, t.cursor + 1)
  /\ Settled(l) => t.cursor = Base(l) + page[l]

\* How far a block proposer's shadow and its copy reach.
ParallelStage(l) ==
  LET t == shadow["proposer"][l] IN
  /\ (pc = "clone" /\ l \notin todo)
       \/ pc \in {"draft", "copy", "undraft", "verify", "truncate", "replay"} =>
       t.cursor = Base(l)
  /\ pc = "replay" /\ l \notin todo => Room(t.blocks, t.cursor + page[l])
  /\ pc \in {"arbitrate", "commit"} => t.cursor = Base(l) + page[l]
  /\ pc = "draft" /\ l \in Drafting(0) \ todo =>
       Room(drafted[l].blocks, drafted[l].cursor + (TrainedRows + 1))

Stages ==
  \A l \in batch :
    /\ TargetStage(l)
    /\ kind = "exact" => ExactStage(l)
    /\ kind = "parallel" => ParallelStage(l)

IInv == Typed /\ AllBacked /\ Control /\ Paired /\ Stages

-----------------------------------------------------------------------------
(* Blocks and their numbers.                                               *)

LEMMA Constants ==
  /\ BlockSize \in Nat \ {0} /\ MaxTokens \in Nat /\ MaxDraft \in Nat \ {0}
  /\ TrainedRows \in Nat /\ MaxCursor \in Nat
  /\ Lanes \subseteq Nat /\ IsFiniteSet(Lanes)
  /\ Blocks \subseteq Nat /\ IsFiniteSet(Blocks)
  /\ Window \in [Pools -> Nat] /\ Kinds \subseteq {"exact", "history", "parallel"}
<1>1. MaxTokens \div BlockSize \in Nat
  BY SpeculativeConstants
<1>2. Blocks \subseteq Nat
  BY <1>1, SpeculativeConstants
<1>3. \A n \in Nat : IsFiniteSet(1 .. n)
  BY FS_Interval
<1>4. IsFiniteSet(Blocks)
  BY <1>1, <1>3, SpeculativeConstants
<1> QED BY <1>2, <1>4, SpeculativeConstants

\* Blocks of n tokens, and tokens of k blocks.
LEMMA BlocksReach ==
  ASSUME NEW n \in Nat
  PROVE  /\ BlocksFor(n) \in Nat
         /\ \A k \in Nat : BlocksFor(n) <= k <=> n <= k * BlockSize
<1>1. \A m \in Nat, d \in Nat \ {0} :
        /\ m \div d \in Nat /\ d * (m \div d) <= m /\ m < d * (m \div d) + d
  OBVIOUS
<1> DEFINE m == n + BlockSize - 1
           q == m \div BlockSize
<1>2. BlockSize \in Nat \ {0} /\ m \in Nat
  BY Constants
<1>3. q \in Nat /\ BlockSize * q <= m /\ m < BlockSize * q + BlockSize
  BY <1>1, <1>2
<1>4. BlocksFor(n) = q
  BY DEF BlocksFor
<1>5. \A k \in Nat : q <= k => n <= k * BlockSize
  <2> SUFFICES ASSUME NEW k \in Nat, q <= k PROVE n <= k * BlockSize
    OBVIOUS
  <2> HIDE DEF q
  <2>1. BlockSize * q <= BlockSize * k
    BY <1>2, <1>3
  <2>2. n + BlockSize - 1 < BlockSize * q + BlockSize
    BY <1>3
  <2>3. BlockSize * q \in Nat /\ BlockSize * k \in Nat /\ k * BlockSize = BlockSize * k
    BY <1>2, <1>3
  <2> QED BY <1>2, <2>1, <2>2, <2>3
<1>6. \A k \in Nat : n <= k * BlockSize => q <= k
  <2> SUFFICES ASSUME NEW k \in Nat, n <= k * BlockSize, k + 1 <= q PROVE FALSE
    BY <1>3
  <2> HIDE DEF q
  <2>1. BlockSize * (k + 1) <= BlockSize * q
    BY <1>2, <1>3
  <2>2. BlockSize * (k + 1) = k * BlockSize + BlockSize
    BY <1>2
  <2>3. BlockSize * q <= n + BlockSize - 1
    BY <1>3
  <2>4. k * BlockSize \in Nat /\ BlockSize * q \in Nat
    BY <1>2, <1>3
  <2> QED BY <1>2, <2>1, <2>2, <2>3, <2>4
<1> HIDE DEF q
<1> QED BY <1>3, <1>4, <1>5, <1>6

\* The elements of a finite set of numbers in ascending order.
LEMMA AscendingIs ==
  ASSUME NEW S \in SUBSET Nat, IsFiniteSet(S)
  PROVE  /\ Ascending(S) \in Seq(S) /\ Len(Ascending(S)) = Cardinality(S)
         /\ Cardinality(S) \in Nat
         /\ \A i, j \in DOMAIN Ascending(S) : Ascending(S)[i] = Ascending(S)[j] => i = j
<1> DEFINE Below(b) == {c \in S : c < b}
<1>1. PICK n \in Nat : n = Cardinality(S)
  BY FS_CardinalityType
<1> DEFINE rank == [b \in S |-> Cardinality(Below(b))]
           ranks == 0 .. n - 1
           at == [i \in 1 .. n |-> CHOOSE b \in S : Cardinality(Below(b)) = i - 1]
<1>2. \A b \in S : IsFiniteSet(Below(b)) /\ Cardinality(Below(b)) \in Nat
  <2> TAKE b \in S
  <2>1. Below(b) \in SUBSET S
    OBVIOUS
  <2>2. IsFiniteSet(Below(b))
    BY <2>1, FS_Subset
  <2> QED BY <2>2, FS_CardinalityType
<1>3. ASSUME NEW b \in S, NEW T \in SUBSET S, IsFiniteSet(T),
             Below(b) \cup {b} \subseteq T
      PROVE  Cardinality(Below(b)) < Cardinality(T)
  <2>1. b \notin Below(b)
    OBVIOUS
  <2>2. Cardinality(Below(b) \cup {b}) = Cardinality(Below(b)) + 1
    BY <1>2, <2>1, FS_AddElement
  <2>3. Cardinality(Below(b) \cup {b}) <= Cardinality(T) /\ Cardinality(T) \in Nat
    BY <1>3, FS_Subset, FS_CardinalityType
  <2> HIDE DEF Below
  <2> QED BY <1>2, <2>2, <2>3
<1>4. \A b, c \in S : b < c => Cardinality(Below(b)) < Cardinality(Below(c))
  <2> SUFFICES ASSUME NEW b \in S, NEW c \in S, b < c
               PROVE  Cardinality(Below(b)) < Cardinality(Below(c))
    OBVIOUS
  <2>1. \A a \in S : a < b => a < c
    OBVIOUS
  <2>2. Below(c) \in SUBSET S /\ Below(b) \cup {b} \subseteq Below(c)
    BY <2>1
  <2> QED BY <1>2, <1>3, <2>2
<1>5. \A b \in S : Cardinality(Below(b)) < n
  BY <1>1, <1>3
<1>6. \A b, c \in S : Cardinality(Below(b)) = Cardinality(Below(c)) => b = c
  <2> SUFFICES ASSUME NEW b \in S, NEW c \in S, b # c,
                      Cardinality(Below(b)) = Cardinality(Below(c))
               PROVE  FALSE
    OBVIOUS
  <2>1. b < c \/ c < b
    OBVIOUS
  <2> HIDE DEF Below
  <2> QED BY <1>2, <1>4, <2>1
<1>7. rank \in Injection(S, ranks)
  <2>1. rank \in [S -> ranks]
    <3> HIDE DEF Below
    <3> QED BY <1>2, <1>5
  <2>2. \A b, c \in S : rank[b] = rank[c] => b = c
    BY <1>6
  <2> HIDE DEF rank, ranks
  <2> QED BY <2>1, <2>2 DEF Injection, IsInjective
<1>8. IsFiniteSet(ranks) /\ Cardinality(ranks) = n
  BY FS_Interval
<1>9. rank \in Surjection(S, ranks)
  <2> HIDE DEF rank, ranks
  <2> QED BY <1>1, <1>7, <1>8, FS_Injection
<1>10. \A i \in 1 .. n : \E b \in S : Cardinality(Below(b)) = i - 1
  <2> TAKE i \in 1 .. n
  <2>1. i - 1 \in ranks
    OBVIOUS
  <2>2. \E b \in S : rank[b] = i - 1
    <3> HIDE DEF rank, ranks
    <3> QED BY <1>9, <2>1 DEF Surjection
  <2> QED BY <2>2
<1>11. \A i \in 1 .. n : at[i] \in S /\ Cardinality(Below(at[i])) = i - 1
  <2> TAKE i \in 1 .. n
  <2> DEFINE P(b) == Cardinality(Below(b)) = i - 1
  <2>1. \E b \in S : P(b)
    BY <1>10
  <2> HIDE DEF P
  <2>2. (CHOOSE b \in S : P(b)) \in S /\ P(CHOOSE b \in S : P(b))
    BY <2>1
  <2>3. at[i] = CHOOSE b \in S : P(b)
    BY DEF P
  <2> QED BY <2>2, <2>3 DEF P
<1>12. Ascending(S) = at
  BY <1>1 DEF Ascending
<1>13. at \in [1 .. n -> S]
  BY <1>11
<1> HIDE DEF at, Below
<1>14. at \in Seq(S) /\ Len(at) = n /\ DOMAIN at = 1 .. n
  BY <1>13
<1>15. \A i, j \in 1 .. n : at[i] = at[j] => i = j
  BY <1>11
<1> QED BY <1>1, <1>12, <1>14, <1>15

-----------------------------------------------------------------------------
(* What an execution does to a table.                                      *)

LEMMA Windows ==
  ASSUME NEW p \in Pools, NEW n \in Nat
  PROVE  Lagging(p, n) \in Nat /\ (Unwindowed => Lagging(p, n) = 0)
BY Constants DEF Lagging, Larger, Unwindowed

\* The blocks alloc_block can hand out, each of them once.
LEMMA AllocatableIs ==
  ASSUME Typed, NEW p \in Pools
  PROVE  /\ Allocatable(p) \in Seq(Blocks)
         /\ \A i \in DOMAIN Allocatable(p) : Allocatable(p)[i] \in free[p] \cup Cached(p)
         /\ \A i, j \in DOMAIN Allocatable(p) :
              Allocatable(p)[i] = Allocatable(p)[j] => i = j
<1> DEFINE F == free[p]
           C == Cached(p)
           f == Ascending(F)
           c == Ascending(C)
<1>1. F \in SUBSET Blocks /\ C \in SUBSET Blocks /\ F \cap C = {}
  BY DEF Typed, Stores, Cached
<1>2. F \in SUBSET Nat /\ C \in SUBSET Nat /\ IsFiniteSet(F) /\ IsFiniteSet(C)
  BY <1>1, Constants, FS_Subset
<1> HIDE DEF F, C
<1>3. /\ f \in Seq(F) /\ \A i, j \in DOMAIN f : f[i] = f[j] => i = j
      /\ c \in Seq(C) /\ \A i, j \in DOMAIN c : c[i] = c[j] => i = j
  BY <1>2, AscendingIs
<1> HIDE DEF f, c
<1>4. PICK m \in Nat, n \in Nat : /\ m = Len(f) /\ DOMAIN f = 1 .. m
                                  /\ n = Len(c) /\ DOMAIN c = 1 .. n
  BY <1>3
<1>5. /\ \A i \in 1 .. m : f[i] \in F
      /\ \A i \in 1 .. n : c[i] \in C
  BY <1>3, <1>4
<1>6. f \in Seq(Blocks) /\ c \in Seq(Blocks)
  BY <1>1, <1>3
<1>7. /\ f \o c \in Seq(Blocks) /\ DOMAIN (f \o c) = 1 .. m + n
      /\ \A i \in 1 .. m + n : (f \o c)[i] = IF i <= m THEN f[i] ELSE c[i - m]
  BY <1>4, <1>6, ConcatProperties
<1> DEFINE s == f \o c
<1>8. s \in Seq(Blocks) /\ DOMAIN s = 1 .. m + n
      /\ \A i \in 1 .. m + n : s[i] = IF i <= m THEN f[i] ELSE c[i - m]
  BY <1>7
<1> HIDE DEF s
<1>9. \A i \in DOMAIN s : s[i] \in F \cup C
  BY <1>5, <1>8
<1>10. \A i, j \in DOMAIN s : s[i] = s[j] => i = j
  <2> SUFFICES ASSUME NEW i \in 1 .. m + n, NEW j \in 1 .. m + n, s[i] = s[j] PROVE i = j
    BY <1>8
  <2>1. CASE i <= m /\ j <= m
    <3>1. i \in DOMAIN f /\ j \in DOMAIN f
      BY <1>4, <2>1
    <3>2. f[i] = f[j]
      BY <1>8, <2>1
    <3> QED BY <1>3, <3>1, <3>2
  <2>2. CASE ~ (i <= m) /\ ~ (j <= m)
    <3>1. i - m \in 1 .. n /\ j - m \in 1 .. n
      BY <2>2
    <3>2. c[i - m] = c[j - m]
      BY <1>8, <2>2
    <3>3. i - m = j - m
      BY <1>3, <1>4, <3>1, <3>2
    <3> QED BY <3>3
  <2>3. ASSUME NEW a \in 1 .. m + n, NEW b \in 1 .. m + n, a <= m, ~ (b <= m)
        PROVE  s[a] # s[b]
    <3>1. s[a] \in F
      BY <1>5, <1>8, <2>3
    <3>2. b - m \in 1 .. n
      BY <2>3
    <3>3. s[b] \in C
      BY <1>5, <1>8, <2>3, <3>2
    <3> QED BY <1>1, <3>1, <3>3
  <2> QED BY <2>1, <2>2, <2>3
<1> QED BY <1>8, <1>9, <1>10 DEF s, f, c, F, C, Allocatable

LEMMA FirstAllocatable ==
  ASSUME Typed, NEW p \in Pools, NEW k \in Nat, k <= Len(Allocatable(p))
  PROVE  /\ SubSeq(Allocatable(p), 1, k) \in Seq(Blocks)
         /\ Len(SubSeq(Allocatable(p), 1, k)) = k
         /\ \A i \in 1 .. k : /\ SubSeq(Allocatable(p), 1, k)[i] = Allocatable(p)[i]
                              /\ i \in DOMAIN Allocatable(p)
<1>1. PICK s : s = Allocatable(p)
  OBVIOUS
<1>2. s \in Seq(Blocks) /\ k <= Len(s)
  BY <1>1, AllocatableIs
<1>3. SubSeq(s, 1, k) \in Seq(Blocks) /\ Len(SubSeq(s, 1, k)) = k
      /\ \A i \in 1 .. k : SubSeq(s, 1, k)[i] = s[i] /\ i \in DOMAIN s
  BY <1>2
<1> QED BY <1>1, <1>3

\* g is t with the missing blocks of n more tokens.
Prepared(p, t, n, g) ==
  /\ g \in Table /\ g.head = t.head /\ g.cursor = t.cursor
  /\ Missing(t, n) \in Nat /\ Missing(t, n) <= Len(Allocatable(p))
  /\ Len(g.blocks) = Len(t.blocks) + Missing(t, n)
  /\ g.cursor + n <= Len(g.blocks) * BlockSize
  /\ \A i \in 1 .. Len(t.blocks) : g.blocks[i] = t.blocks[i]
  /\ \A i \in 1 .. Missing(t, n) :
       g.blocks[Len(t.blocks) + i] = Allocatable(p)[i] /\ i \in DOMAIN Allocatable(p)

\* The table of a lane after kv_prepare of n tokens.
LEMMA GrownIs ==
  ASSUME Typed, NEW p \in Pools, NEW t \in Table, NEW n \in Nat, Fits(p, t, n),
         NEW g, g = Grown(p, t, n)
  PROVE  Prepared(p, t, n, g)
<1>1. t.cursor \in Nat /\ t.blocks \in Seq(Blocks) /\ t.head \in Nat
  BY DEF Table
<1>2. PICK c \in Nat : c = t.cursor
  BY <1>1
<1>3. PICK len \in Nat : len = Len(t.blocks)
  BY <1>1
<1>4. BlocksFor(c + n) \in Nat /\ \A k \in Nat : BlocksFor(c + n) <= k <=> c + n <= k * BlockSize
  BY BlocksReach
<1>5. PICK k \in Nat : k = Missing(t, n) /\ BlocksFor(c + n) <= len + k
  <2>1. Missing(t, n) = Larger(0, BlocksFor(c + n) - len)
    BY <1>2, <1>3 DEF Missing
  <2> QED BY <1>4, <2>1 DEF Larger
<1>6. k <= Len(Allocatable(p))
  BY <1>5 DEF Fits
<1>7. PICK new : new = SubSeq(Allocatable(p), 1, k)
  OBVIOUS
<1>8. /\ new \in Seq(Blocks) /\ Len(new) = k
      /\ \A i \in 1 .. k : new[i] = Allocatable(p)[i] /\ i \in DOMAIN Allocatable(p)
  BY <1>6, <1>7, FirstAllocatable
<1>9. g = [t EXCEPT !.blocks = t.blocks \o new]
  BY <1>5, <1>7 DEF Grown
<1>10. /\ t.blocks \o new \in Seq(Blocks) /\ Len(t.blocks \o new) = len + k
       /\ \A i \in 1 .. len + k : (t.blocks \o new)[i] =
            IF i <= len THEN t.blocks[i] ELSE new[i - len]
  BY <1>1, <1>3, <1>8, ConcatProperties
<1>11. g \in Table /\ g.head = t.head /\ g.cursor = c /\ g.blocks = t.blocks \o new
  BY <1>2, <1>9, <1>10 DEF Table
<1>12. \A i \in 1 .. len : g.blocks[i] = t.blocks[i]
  BY <1>10, <1>11
<1>13. \A i \in 1 .. k : g.blocks[len + i] = new[i]
  <2> TAKE i \in 1 .. k
  <2>1. len + i \in 1 .. len + k /\ ~ (len + i <= len) /\ (len + i) - len = i
    OBVIOUS
  <2> QED BY <1>10, <1>11, <2>1
<1>14. c + n <= (len + k) * BlockSize
  BY <1>4, <1>5
<1> QED BY <1>2, <1>3, <1>5, <1>6, <1>8, <1>10, <1>11, <1>12, <1>13, <1>14 DEF Prepared

LEMMA EvictedIs ==
  ASSUME NEW p \in Pools, NEW t \in Table, NEW n \in Nat
  PROVE  /\ Evicted(p, t, n) \in Table
         /\ Evicted(p, t, n).blocks = t.blocks /\ Evicted(p, t, n).cursor = t.cursor
         /\ Unwindowed /\ t.head = 0 => Evicted(p, t, n).head = 0
<1>1. t.head \in Nat /\ Len(t.blocks) \in Nat /\ t.cursor + n \in Nat
  BY DEF Table
<1>2. Lagging(p, t.cursor + n) \in Nat /\ (Unwindowed => Lagging(p, t.cursor + n) = 0)
  BY <1>1, Windows
<1>3. PICK q \in Nat : q = Lagging(p, t.cursor + n) \div BlockSize /\ (Unwindowed => q = 0)
  <2>1. \A m \in Nat, d \in Nat \ {0} : m \div d \in Nat /\ (m = 0 => m \div d = 0)
    OBVIOUS
  <2> QED BY <1>2, <2>1, Constants
<1>4. PICK h \in Nat : h = Larger(t.head, Smaller(Len(t.blocks), q))
                       /\ (Unwindowed /\ t.head = 0 => h = 0)
  BY <1>1, <1>3 DEF Larger, Smaller
<1>5. Evicted(p, t, n) = [t EXCEPT !.head = h]
  BY <1>3, <1>4 DEF Evicted
<1> QED BY <1>4, <1>5 DEF Table

\* Tables after a lane of an execution: only that lane grows, and the last one
\* moves the cursors of all.
Advanced(p, tables, after, l, lanes, advance, moves) ==
  /\ after \in [Lanes -> Table]
  /\ \A m \in Lanes : m # l => after[m].blocks = tables[m].blocks
  /\ after[l].blocks = Grown(p, tables[l], advance[l]).blocks
  /\ Len(tables[l].blocks) <= Len(after[l].blocks)
  /\ tables[l].cursor + advance[l] <= Len(after[l].blocks) * BlockSize
  /\ Unwindowed => tables[l].cursor + advance[l] <= MaxTokens
  /\ \A m \in Lanes : /\ after[m].cursor = tables[m].cursor +
                           (IF todo = {l} /\ m \in lanes THEN moves[m] ELSE 0)
                      /\ Unwindowed /\ tables[m].head = 0 => after[m].head = 0

LEMMA ExecutedIs ==
  ASSUME Typed, NEW p \in Pools, NEW tables \in [Lanes -> Table], NEW l \in Lanes,
         NEW lanes, NEW advance \in [Lanes -> Nat], NEW moves \in [Lanes -> Nat],
         Fits(p, tables[l], advance[l]),
         NEW after, after = Executed(p, tables, l, lanes, advance, moves)
  PROVE  Advanced(p, tables, after, l, lanes, advance, moves)
<1>1. PICK g : g = Grown(p, tables[l], advance[l])
  OBVIOUS
<1>2. tables[l] \in Table /\ advance[l] \in Nat
  OBVIOUS
<1>3. /\ g \in Table /\ g.head = tables[l].head /\ g.cursor = tables[l].cursor
      /\ Missing(tables[l], advance[l]) \in Nat
      /\ Len(g.blocks) = Len(tables[l].blocks) + Missing(tables[l], advance[l])
      /\ g.cursor + advance[l] <= Len(g.blocks) * BlockSize
  <2>1. Prepared(p, tables[l], advance[l], g)
    BY <1>1, <1>2, GrownIs
  <2> QED BY <2>1 DEF Prepared
<1>4. Len(tables[l].blocks) <= Len(g.blocks)
  BY <1>2, <1>3 DEF Table
<1>5. PICK grown \in [Lanes -> Table] :
        grown = [tables EXCEPT ![l] = g] /\ grown[l] = g
        /\ \A m \in Lanes : m # l => grown[m] = tables[m]
  <2>1. g \in Table
    BY <1>3
  <2>2. [tables EXCEPT ![l] = g] \in [Lanes -> Table]
    BY <2>1
  <2> QED BY <2>2
<1>6. after = [m \in Lanes |->
                 IF todo # {l} \/ m \notin lanes THEN grown[m]
                 ELSE [Evicted(p, grown[m], advance[m]) EXCEPT !.cursor = @ + moves[m]]]
  BY <1>1, <1>5 DEF Executed
<1>7. ASSUME NEW m \in Lanes
      PROVE  /\ after[m] \in Table /\ after[m].blocks = grown[m].blocks
             /\ after[m].cursor = grown[m].cursor +
                  (IF todo = {l} /\ m \in lanes THEN moves[m] ELSE 0)
             /\ Unwindowed /\ grown[m].head = 0 => after[m].head = 0
  <2>1. grown[m] \in Table /\ advance[m] \in Nat /\ moves[m] \in Nat
    OBVIOUS
  <2>2. CASE todo # {l} \/ m \notin lanes
    BY <1>6, <2>1, <2>2 DEF Table
  <2>3. CASE todo = {l} /\ m \in lanes
    <3>1. PICK e : e = Evicted(p, grown[m], advance[m])
      OBVIOUS
    <3>2. /\ e \in Table /\ e.blocks = grown[m].blocks /\ e.cursor = grown[m].cursor
          /\ Unwindowed /\ grown[m].head = 0 => e.head = 0
      BY <2>1, <3>1, EvictedIs
    <3>3. after[m] = [e EXCEPT !.cursor = e.cursor + moves[m]]
      BY <1>6, <2>3, <3>1
    <3>4. e.cursor + moves[m] \in Nat
      BY <2>1, <3>2 DEF Table
    <3>5. after[m] \in Table /\ after[m].blocks = e.blocks /\ after[m].head = e.head
          /\ after[m].cursor = e.cursor + moves[m]
      BY <3>2, <3>3, <3>4 DEF Table
    <3> QED BY <2>3, <3>2, <3>5
  <2> QED BY <2>2, <2>3
<1>8. DOMAIN after = Lanes /\ after = [m \in Lanes |-> after[m]]
  BY <1>6
<1>9. after \in [Lanes -> Table]
  BY <1>7, <1>8
<1>10. Unwindowed => tables[l].cursor + advance[l] <= MaxTokens
  <2> SUFFICES ASSUME Unwindowed PROVE tables[l].cursor + advance[l] <= MaxTokens
    OBVIOUS
  <2>1. tables[l].cursor \in Nat
    BY <1>2 DEF Table
  <2>2. Lagging(p, tables[l].cursor) = 0
    BY <2>1, Windows
  <2>3. tables[l].cursor + advance[l] - 0 <= MaxTokens
    BY <2>2 DEF Fits
  <2> QED BY <1>2, <2>1, <2>3
<1>11. after[l].blocks = g.blocks /\ \A m \in Lanes : m # l => after[m].blocks = tables[m].blocks
  BY <1>5, <1>7
<1>12. ASSUME NEW m \in Lanes
       PROVE  /\ after[m].cursor = tables[m].cursor +
                   (IF todo = {l} /\ m \in lanes THEN moves[m] ELSE 0)
              /\ Unwindowed /\ tables[m].head = 0 => after[m].head = 0
  <2>1. grown[m].cursor = tables[m].cursor /\ grown[m].head = tables[m].head
    BY <1>3, <1>5
  <2> QED BY <1>7, <2>1
<1>13. tables[l].cursor + advance[l] <= Len(after[l].blocks) * BlockSize
       /\ Len(tables[l].blocks) <= Len(after[l].blocks)
  BY <1>3, <1>4, <1>11, Zenon
<1> QED BY <1>1, <1>9, <1>10, <1>11, <1>12, <1>13 DEF Advanced

-----------------------------------------------------------------------------
(* The stores keep their types.                                            *)

LEMMA StoreTyped ==
  ASSUME Typed, NEW fresh \in [Pools -> SUBSET Blocks],
         NEW gone \in [Pools -> [Blocks -> Nat]], NEW contents, Store(fresh, gone, contents)
  PROVE  Stores'
<1>1. \A p \in Pools : Counts(p, fresh[p], gone[p]) \in [Blocks -> Nat]
  <2> TAKE p \in Pools
  <2>1. \A b \in Blocks : refcounts[p][b] \in Nat /\ gone[p][b] \in Nat
    BY DEF Typed, Stores
  <2>2. \A b \in Blocks :
          Larger(0, (IF b \in fresh[p] THEN 1 ELSE refcounts[p][b]) - gone[p][b]) \in Nat
    BY <2>1 DEF Larger
  <2> QED BY <2>2 DEF Counts
<1>2. refcounts' \in [Pools -> [Blocks -> Nat]]
  BY <1>1 DEF Store
<1>3. hashed' \in [Pools -> SUBSET Blocks]
  BY DEF Store, Typed, Stores
<1>4. free' \in [Pools -> SUBSET Blocks]
  BY DEF Store, Typed, Stores
<1> QED BY <1>2, <1>3, <1>4 DEF Stores

LEMMA TimesNat ==
  ASSUME NEW s \in Seq(Blocks), NEW b
  PROVE  IsFiniteSet({i \in DOMAIN s : s[i] = b}) /\ Times(b, s) \in Nat
<1>1. \A n \in Nat : IsFiniteSet(1 .. n)
  BY FS_Interval
<1>2. IsFiniteSet(DOMAIN s)
  BY <1>1
<1>3. {i \in DOMAIN s : s[i] = b} \in SUBSET DOMAIN s
  OBVIOUS
<1>4. IsFiniteSet({i \in DOMAIN s : s[i] = b})
  BY <1>2, <1>3, FS_Subset
<1> QED BY <1>4, FS_CardinalityType DEF Times

LEMMA UnrefTyped ==
  ASSUME Typed, NEW blocks \in [Pools -> Seq(Blocks)], Unref(blocks)
  PROVE  Stores'
<1> DEFINE gone == [p \in Pools |-> [b \in Blocks |-> Times(b, blocks[p])]]
<1>1. \A p \in Pools : blocks[p] \in Seq(Blocks)
  OBVIOUS
<1>2. gone \in [Pools -> [Blocks -> Nat]]
  BY <1>1, TimesNat
<1>3. None \in [Pools -> SUBSET Blocks]
  BY DEF None
<1>4. Store(None, gone, rows)
  BY DEF Unref
<1> HIDE DEF gone
<1> QED BY <1>2, <1>3, <1>4, StoreTyped

LEMMA RefTyped ==
  ASSUME Typed, NEW blocks \in [Pools -> Seq(Blocks)], Ref(blocks)
  PROVE  Stores'
<1>1. \A p \in Pools, b \in Blocks : refcounts[p][b] \in Nat /\ Times(b, blocks[p]) \in Nat
  BY TimesNat DEF Typed, Stores
<1>2. \A p \in Pools, b \in Blocks : refcounts[p][b] + Times(b, blocks[p]) \in Nat
  BY <1>1
<1>3. refcounts' \in [Pools -> [Blocks -> Nat]]
  BY <1>2 DEF Ref
<1> QED BY <1>3 DEF Ref, Typed, Stores

\* The places a commit evicts are finitely many.
LEMMA LeftFinite ==
  ASSUME NEW before \in [Lanes -> Table], NEW after \in [Lanes -> Table]
  PROVE  IsFiniteSet(UNION {{m} \X (before[m].head + 1 .. after[m].head) : m \in Lanes})
<1> DEFINE column == [m \in Lanes |-> {m} \X (before[m].head + 1 .. after[m].head)]
           all == {column[m] : m \in Lanes}
<1>1. \A m \in Lanes : IsFiniteSet(column[m])
  <2> TAKE m \in Lanes
  <2>1. before[m].head + 1 \in Int /\ after[m].head \in Int
    BY DEF Table
  <2>2. IsFiniteSet(before[m].head + 1 .. after[m].head)
    BY <2>1, FS_Interval
  <2>3. IsFiniteSet({m} \X (before[m].head + 1 .. after[m].head))
    BY <2>2, FS_Singleton, FS_Product
  <2> QED BY <2>3
<1>2. column \in Surjection(Lanes, all)
  BY DEF Surjection
<1>3. IsFiniteSet(all)
  BY <1>2, Constants, FS_Surjection
<1>4. \A S \in all : IsFiniteSet(S)
  BY <1>1
<1>5. IsFiniteSet(UNION all)
  <2> HIDE DEF all
  <2> QED BY <1>3, <1>4, FS_UNION
<1> QED BY <1>5

LEMMA ExecutionTyped ==
  ASSUME Typed, NEW p \in Pools, NEW before \in [Lanes -> Table],
         NEW after \in [Lanes -> Table], NEW l \in Lanes, NEW advance, NEW good,
         Execution(p, before, after, l, advance, good)
  PROVE  Stores'
<1> DEFINE t == [after[l] EXCEPT !.cursor = before[l].cursor]
           fresh == ToSet(SubSeq(t.blocks, Len(before[l].blocks) + 1, Len(t.blocks)))
           left == UNION {{m} \X (before[m].head + 1 .. after[m].head) : m \in Lanes}
           gone == [b \in Blocks |-> Cardinality({e \in left : after[e[1]].blocks[e[2]] = b})]
           contents == [rows EXCEPT ![p] = Written(p, t, l, advance[l], good[l])]
<1>1. /\ Fits(p, before[l], advance[l])
      /\ Store([None EXCEPT ![p] = fresh], [Nothing EXCEPT ![p] = gone], contents)
  BY DEF Execution
<1>2. t.blocks = after[l].blocks /\ t.blocks \in Seq(Blocks) /\ Len(before[l].blocks) \in Nat
  BY DEF Table
<1>3. fresh \in SUBSET Blocks
  <2>1. PICK s : s = t.blocks
    OBVIOUS
  <2>2. PICK n \in Nat : n = Len(before[l].blocks)
    BY <1>2
  <2>3. SubSeq(s, n + 1, Len(s)) \in Seq(Blocks)
    BY <1>2, <2>1
  <2>4. ToSet(SubSeq(s, n + 1, Len(s))) \subseteq Blocks
    BY <2>3 DEF ToSet
  <2> QED BY <2>1, <2>2, <2>4
<1>4. gone \in [Blocks -> Nat]
  <2>1. IsFiniteSet(left)
    BY LeftFinite
  <2> HIDE DEF left
  <2>2. \A b \in Blocks : Cardinality({e \in left : after[e[1]].blocks[e[2]] = b}) \in Nat
    <3> TAKE b \in Blocks
    <3>1. {e \in left : after[e[1]].blocks[e[2]] = b} \in SUBSET left
      OBVIOUS
    <3>2. IsFiniteSet({e \in left : after[e[1]].blocks[e[2]] = b})
      BY <2>1, <3>1, FS_Subset
    <3> QED BY <3>2, FS_CardinalityType
  <2> QED BY <2>2
<1> HIDE DEF fresh, gone, contents
<1>5. [None EXCEPT ![p] = fresh] \in [Pools -> SUBSET Blocks]
  BY <1>3 DEF None
<1>6. [Nothing EXCEPT ![p] = gone] \in [Pools -> [Blocks -> Nat]]
  BY <1>4 DEF Nothing
<1> QED BY <1>1, <1>5, <1>6, StoreTyped

\* One lane of an execution, as far as tables and cursors go.
Stepped(tables, after, l, lanes, advance, moves) ==
  /\ after \in [Lanes -> Table] /\ \A m \in Lanes : Backed(after[m])
  /\ \A m \in Lanes : m # l => after[m].blocks = tables[m].blocks
  /\ Room(after[l].blocks, tables[l].cursor + advance[l])
  /\ \A m \in Lanes : after[m].cursor = tables[m].cursor +
                         (IF todo = {l} /\ m \in lanes THEN moves[m] ELSE 0)

LEMMA ExecutionStep ==
  ASSUME Typed, NEW p \in Pools, NEW tables \in [Lanes -> Table], NEW l \in Lanes,
         NEW lanes, NEW advance \in [Lanes -> Nat], NEW moves \in [Lanes -> Nat], NEW good,
         NEW after, after = Executed(p, tables, l, lanes, advance, moves),
         Execution(p, tables, after, l, advance, good),
         \A m \in Lanes : Backed(tables[m]),
         moves[l] <= advance[l],
         todo = {l} => \A m \in Lanes : m \in lanes /\ m # l =>
           Room(tables[m].blocks, tables[m].cursor + moves[m])
  PROVE  Stores' /\ Stepped(tables, after, l, lanes, advance, moves)
<1>0. Advanced(p, tables, after, l, lanes, advance, moves)
  <2>1. Fits(p, tables[l], advance[l])
    BY DEF Execution
  <2> QED BY <2>1, ExecutedIs
<1>1. Stores' /\ after \in [Lanes -> Table]
  <2>1. Fits(p, tables[l], advance[l])
    BY DEF Execution
  <2>2. after \in [Lanes -> Table]
    BY <1>0 DEF Advanced
  <2> QED BY <2>1, <2>2, ExecutionTyped
<1>2. /\ \A m \in Lanes : m # l => after[m].blocks = tables[m].blocks
      /\ Len(tables[l].blocks) <= Len(after[l].blocks)
      /\ tables[l].cursor + advance[l] <= Len(after[l].blocks) * BlockSize
      /\ Unwindowed => tables[l].cursor + advance[l] <= MaxTokens
      /\ \A m \in Lanes : /\ after[m].cursor = tables[m].cursor +
                               (IF todo = {l} /\ m \in lanes THEN moves[m] ELSE 0)
                          /\ Unwindowed /\ tables[m].head = 0 => after[m].head = 0
  BY <1>0 DEF Advanced
<1>3. Room(after[l].blocks, tables[l].cursor + advance[l])
  BY <1>2 DEF Room
<1>4. ASSUME NEW m \in Lanes PROVE Backed(after[m])
  <2>1. PICK old0 \in Nat, new0 \in Nat, c \in Nat, a \in Nat, k \in Nat :
          /\ old0 = Len(tables[m].blocks) /\ new0 = Len(after[m].blocks)
          /\ c = tables[m].cursor /\ a = advance[m] /\ k = moves[m]
    <3>1. tables[m] \in Table /\ after[m] \in Table /\ advance[m] \in Nat /\ moves[m] \in Nat
      BY <1>1
    <3>2. Len(tables[m].blocks) \in Nat /\ Len(after[m].blocks) \in Nat /\ tables[m].cursor \in Nat
      BY <3>1 DEF Table
    <3> QED BY <3>1, <3>2
  <2>2. old0 <= new0
    BY <1>2, <2>1
  <2>3. old0 * BlockSize <= new0 * BlockSize /\ old0 * BlockSize \in Nat /\ new0 * BlockSize \in Nat
    BY <2>2, Constants
  <2>4. c <= old0 * BlockSize /\ (Unwindowed => tables[m].head = 0 /\ c <= MaxTokens)
    BY <2>1 DEF Backed
  <2>5. Unwindowed => after[m].head = 0
    BY <1>2, <2>4
  <2>6. CASE ~ (todo = {l} /\ m \in lanes)
    <3>1. after[m].cursor = c
      BY <1>2, <2>1, <2>6
    <3> QED BY <2>1, <2>3, <2>4, <2>5, <3>1 DEF Backed
  <2>7. CASE todo = {l} /\ m \in lanes
    <3>1. after[m].cursor = c + k
      BY <1>2, <2>1, <2>7
    <3>2. c + k <= new0 * BlockSize /\ (Unwindowed => c + k <= MaxTokens)
      <4>1. CASE m = l
        <5>1. c + a <= new0 * BlockSize /\ (Unwindowed => c + a <= MaxTokens) /\ k <= a
          BY <1>2, <2>1, <4>1
        <5> QED BY <2>3, <5>1, Constants
      <4>2. CASE m # l
        <5>1. Room(tables[m].blocks, tables[m].cursor + moves[m])
          BY <2>7, <4>2
        <5>2. c + k <= old0 * BlockSize /\ (Unwindowed => c + k <= MaxTokens)
          BY <2>1, <5>1 DEF Room
        <5> QED BY <2>3, <5>2, Constants
      <4> QED BY <4>1, <4>2
    <3> QED BY <2>1, <2>5, <3>1, <3>2 DEF Backed
  <2> QED BY <2>6, <2>7
<1> QED BY <1>1, <1>2, <1>3, <1>4 DEF Stepped

-----------------------------------------------------------------------------
(* The actions of a round that leave the tables alone.                     *)

LEMMA NoTableIs ==
  NoTable \in Table /\ Backed(NoTable) /\ NoTables \in Tables
  /\ NoTable.cursor = 0 /\ NoTable.head = 0 /\ NoTable.blocks = <<>>
<1>1. NoTable \in Table
  BY DEF NoTable, Table
<1>2. NoTables \in Tables
  BY <1>1 DEF NoTables, Tables
<1>3. Len(<<>>) * BlockSize = 0
  BY Constants
<1> QED BY <1>1, <1>2, <1>3, Constants DEF NoTable, Backed

\* Which lanes are left, and where the round goes when none is.
LEMMA DoneIs ==
  ASSUME NEW l \in Lanes, Turn(l), NEW stage, NEW lanes, Done(l, stage, lanes)
  PROVE  /\ l \in todo
         /\ \/ todo = {l} /\ pc' = stage /\ todo' = lanes
            \/ todo # {l} /\ pc' = pc /\ todo' = todo \ {l} /\ l \notin todo'
BY DEF Turn, Done

LEMMA SpecInit ==
  ASSUME Init
  PROVE  IInv
<1>1. Typed
  <2>1. Stores
    BY DEF Init, Stores
  <2>2. draft \in [Lanes -> 0 .. MaxDraft] /\ page \in [Lanes -> 0 .. MaxDraft + 1]
    BY Constants DEF Init
  <2>3. drafted \in [Lanes -> Table]
    BY NoTableIs DEF Init
  <2> QED BY <2>1, <2>2, <2>3, NoTableIs DEF Init, Typed
<1>2. AllBacked
  BY NoTableIs DEF Init, AllBacked, NoTables
<1>3. Control
  BY Constants DEF Init, Control
<1>4. Paired
  BY DEF Init, Paired, NoTables, Pools
<1>5. Stages
  BY DEF Init, Stages
<1> QED BY <1>1, <1>2, <1>3, <1>4, <1>5 DEF IInv

\* What no action of the call's control alone can disturb.
LEMMA SameTables ==
  ASSUME IInv, UNCHANGED <<storeVars, tableVars, kind, noted>>, step' = step,
         draft' \in [Lanes -> 0 .. MaxDraft], page' \in [Lanes -> 0 .. MaxDraft + 1],
         released' \in [Lanes -> BOOLEAN]
  PROVE  Typed' /\ AllBacked' /\ Paired' /\ Live' = Live
BY DEF IInv, storeVars, tableVars, Typed, Stores, AllBacked, Paired, Live

LEMMA StepBegin ==
  ASSUME IInv, NEW lanes \in SUBSET Lanes, Begin(lanes)
  PROVE  IInv'
<1>1. /\ draft' \in [Lanes -> 0 .. MaxDraft] /\ page' \in [Lanes -> 0 .. MaxDraft + 1]
      /\ \A l \in lanes : page'[l] >= 1 /\ page'[l] <= draft'[l] + 1
  <2>1. PICK lengths \in [Lanes -> 0 .. MaxDraft], pages \in [Lanes -> 0 .. MaxDraft + 1] :
          /\ \A l \in lanes : pages[l] \in 1 .. lengths[l] + 1
          /\ draft' = lengths /\ page' = pages
    BY DEF Begin
  <2>2. \A l \in lanes : lengths[l] \in Nat /\ pages[l] \in Nat
    BY <2>1, Constants
  <2> QED BY <2>1, <2>2
<1>2. Typed' /\ AllBacked' /\ Paired' /\ Live' = Live
  BY <1>1, SameTables DEF Begin, IInv, Typed, storeVars, tableVars
<1>3. pc' = "clone" /\ todo' = lanes /\ batch' = lanes /\ lanes \subseteq Live
      /\ step' = step /\ token' = token /\ step = 0 /\ token = "pending"
  BY DEF Begin, IInv, Control
<1>4. Control'
  BY <1>1, <1>2, <1>3, Constants DEF Control
<1>5. Stages'
  BY <1>3 DEF Stages, TargetStage, ExactStage, ParallelStage, Settled, Unsettled
<1> QED BY <1>2, <1>4, <1>5 DEF IInv

LEMMA StepPlain ==
  ASSUME IInv, Arbitrate \/ Publish \/ Fail \/ Cancel \/ \E l \in Lanes : Release(l)
  PROVE  IInv'
<1>1. /\ tableVars' = tableVars /\ kind' = kind /\ callVars' = callVars /\ noted' = noted
      /\ hashed' \in [Pools -> SUBSET Blocks] /\ released' \in [Lanes -> BOOLEAN]
      /\ free' = free /\ refcounts' = refcounts
  BY DEF Arbitrate, Publish, Fail, Cancel, Release, IInv, Typed, Stores, storeVars
<1>2. Typed' /\ AllBacked' /\ Paired' /\ Live' = Live
  BY <1>1 DEF IInv, Typed, Stores, AllBacked, Paired, Live, tableVars, callVars
<1>3. /\ \/ pc' = pc /\ todo' = todo /\ (token' = token \/ (token' = "cancelled" /\ token = "pending"))
         \/ pc' = "discard" /\ todo' = batch /\ token' = token
         \/ pc = "arbitrate" /\ pc' = "commit" /\ todo' = {} /\ token' = "complete"
      /\ pc # "idle" \/ (pc' = pc /\ token' = token)
  <2>1. CASE Arbitrate
    BY <2>1 DEF Arbitrate
  <2>2. CASE Publish
    BY <2>2 DEF Publish
  <2>3. CASE Fail
    BY <2>3 DEF Fail, Accepting
  <2>4. CASE Cancel
    BY <2>4 DEF Cancel
  <2>5. CASE \E l \in Lanes : Release(l)
    BY <2>5 DEF Release
  <2> QED BY <2>1, <2>2, <2>3, <2>4, <2>5
<1>5. Control'
  BY <1>1, <1>2, <1>3 DEF IInv, Control, callVars, Drafting, Behind
<1>6. Stages'
  BY <1>1, <1>3 DEF IInv, Stages, TargetStage, ExactStage, ParallelStage, Settled, Unsettled,
                    callVars, tableVars, Drafting, Behind, Base
<1> QED BY <1>2, <1>5, <1>6 DEF IInv

-----------------------------------------------------------------------------
(* The actions that copy tables.                                           *)

\* The call of a lane, in numbers.
LEMMA CallIs ==
  ASSUME IInv, NEW l \in batch
  PROVE  /\ l \in Lanes /\ l \in Live
         /\ draft[l] \in Nat /\ draft[l] <= MaxDraft /\ page[l] \in Nat
         /\ page[l] >= 1 /\ page[l] <= draft[l] + 1
         /\ step \in Nat /\ Base(l) \in Nat
         /\ canonical["target"][l].cursor = Base(l)
         /\ kind # "history" => canonical["proposer"][l].cursor = Base(l)
<1>1. l \in Lanes /\ l \in Live
  BY DEF IInv, Control, Live
<1>2. /\ draft[l] \in 0 .. MaxDraft /\ page[l] \in 0 .. MaxDraft + 1 /\ step \in Nat
      /\ canonical["target"][l] \in Table
  BY <1>1 DEF IInv, Typed, Tables, Pools
<1>3. Base(l) \in Nat
  BY <1>2 DEF Base, Table
<1>4. kind # "history" => canonical["proposer"][l].cursor = Base(l)
  BY <1>1 DEF IInv, Paired, Base
<1> QED BY <1>1, <1>2, <1>3, <1>4, Constants DEF IInv, Control, Base

LEMMA StepClone ==
  ASSUME IInv, NEW l \in Lanes, Clone(l)
  PROVE  IInv'
<1>1. /\ pc = "clone" /\ l \in todo /\ l \in batch /\ step = 0 /\ kind \in Kinds
      /\ UNCHANGED <<free, hashed, canonical, drafted, old, kind, batch, draft, page, step,
                     noted, token, released>>
  BY DEF Clone, IInv, Control, Typed, Turn, Ref, callVars
<1>2. ASSUME NEW p \in Pools, NEW m \in Lanes
      PROVE  shadow'[p][m] =
               IF p \in PoolsOf(kind) /\ m = l THEN canonical[p][l] ELSE shadow[p][m]
  BY DEF Clone, IInv, Typed, Tables
<1>3. shadow' \in Tables
  BY DEF Clone, IInv, Typed, Tables
<1>4. Stores'
  <2> DEFINE blocks == [p \in Pools |-> IF p \in PoolsOf(kind) THEN canonical[p][l].blocks ELSE <<>>]
  <2>1. blocks \in [Pools -> Seq(Blocks)]
    BY DEF IInv, Typed, Tables, Table
  <2>2. Ref(blocks) /\ Typed
    BY DEF Clone, IInv
  <2> HIDE DEF blocks
  <2> QED BY <2>1, <2>2, RefTyped
<1>5. Typed'
  BY <1>1, <1>3, <1>4 DEF IInv, Typed
<1>6. AllBacked'
  BY <1>1, <1>2 DEF IInv, AllBacked
<1>7. Live' = Live /\ Paired'
  BY <1>1 DEF IInv, Paired, Live
<1>8. \/ todo # {l} /\ pc' = pc /\ todo' = todo \ {l}
      \/ /\ todo = {l} /\ pc' = "verify" /\ todo' = batch
         /\ kind = "history" \/ Drafting(0) = {}
      \/ todo = {l} /\ pc' = "draft" /\ todo' = Drafting(0) /\ kind = "exact"
      \/ todo = {l} /\ pc' = "copy" /\ todo' = Drafting(0) /\ kind = "parallel"
  <2>1. kind \in {"exact", "history", "parallel"}
    BY <1>1, Constants
  <2>2. Turn(l)
    BY DEF Clone
  <2>3. CASE kind = "history" \/ Drafting(0) = {}
    BY <2>2, <2>3, DoneIs DEF Clone
  <2>4. CASE ~ (kind = "history" \/ Drafting(0) = {})
    BY <2>1, <2>2, <2>4, DoneIs DEF Clone
  <2> QED BY <2>3, <2>4
<1>9. Drafting(0) \subseteq batch
  BY DEF Drafting
<1>10. Control'
  BY <1>1, <1>7, <1>8, <1>9 DEF IInv, Control, Drafting
<1>11. ASSUME NEW m \in batch
       PROVE  TargetStage(m)' /\ (kind = "exact" => ExactStage(m)')
              /\ (kind = "parallel" => ParallelStage(m)')
  <2>1. m \in Lanes /\ Base(m) \in Nat /\ draft[m] \in Nat /\ Base(m)' = Base(m)
        /\ canonical["target"][m].cursor = Base(m)
        /\ (kind # "history" => canonical["proposer"][m].cursor = Base(m))
    BY <1>1, CallIs DEF Base
  <2>2. m \notin todo \ {l} =>
          /\ shadow'["target"][m].cursor = Base(m)
          /\ kind # "history" => shadow'["proposer"][m].cursor = Base(m)
    <3>1. kind \in {"exact", "history", "parallel"} /\ {"target", "proposer"} = Pools
          /\ "target" \in PoolsOf(kind) /\ (kind # "history" => "proposer" \in PoolsOf(kind))
      BY <1>1, Constants DEF PoolsOf, Pools
    <3>2. CASE m = l
      BY <1>2, <2>1, <3>1, <3>2
    <3>3. CASE m # l
      <4>1. shadow'["target"][m] = shadow["target"][m] /\ shadow'["proposer"][m] = shadow["proposer"][m]
        BY <1>2, <2>1, <3>1, <3>3
      <4>2. m \notin todo =>
              /\ shadow["target"][m].cursor = Base(m)
              /\ kind # "history" => shadow["proposer"][m].cursor = Base(m)
        <5>1. TargetStage(m) /\ (kind = "exact" => ExactStage(m))
              /\ (kind = "parallel" => ParallelStage(m))
          BY DEF IInv, Stages
        <5>2. m \notin todo => shadow["target"][m].cursor = Base(m)
          BY <1>1, <5>1 DEF TargetStage
        <5>3. kind = "exact" /\ m \notin todo => shadow["proposer"][m].cursor = Base(m)
          BY <1>1, <5>1 DEF ExactStage
        <5>4. kind = "parallel" /\ m \notin todo => shadow["proposer"][m].cursor = Base(m)
          BY <1>1, <5>1 DEF ParallelStage
        <5> QED BY <3>1, <5>2, <5>3, <5>4
      <4> QED BY <3>3, <4>1, <4>2
    <3> QED BY <3>2, <3>3
  <2>3. CASE todo # {l} /\ pc' = pc /\ todo' = todo \ {l}
    BY <1>1, <2>1, <2>2, <2>3
    DEF TargetStage, ExactStage, ParallelStage, Settled, Unsettled
  <2>4. CASE todo = {l} /\ pc' = "verify" /\ todo' = batch /\ (kind = "history" \/ Drafting(0) = {})
    <3>1. kind # "history" => draft[m] = 0
      BY <2>1, <2>4 DEF Drafting
    <3> QED BY <1>1, <2>1, <2>2, <2>4, <3>1
            DEF TargetStage, ExactStage, ParallelStage, Settled, Unsettled
  <2>5. CASE todo = {l} /\ pc' = "draft" /\ todo' = Drafting(0) /\ kind = "exact"
    BY <1>1, <2>1, <2>2, <2>5
    DEF TargetStage, ExactStage, ParallelStage, Settled, Unsettled, Smaller, Drafting
  <2>6. CASE todo = {l} /\ pc' = "copy" /\ todo' = Drafting(0) /\ kind = "parallel"
    BY <1>1, <2>1, <2>2, <2>6
    DEF TargetStage, ExactStage, ParallelStage, Settled, Unsettled
  <2> QED BY <1>8, <2>3, <2>4, <2>5, <2>6
<1>12. Stages'
  BY <1>1, <1>11 DEF Stages
<1> QED BY <1>5, <1>6, <1>7, <1>10, <1>12 DEF IInv

LEMMA StepCopy ==
  ASSUME IInv, NEW l \in Lanes, Copy(l)
  PROVE  IInv'
<1>1. /\ pc = "copy" /\ l \in todo /\ l \in batch /\ kind = "parallel"
      /\ UNCHANGED <<free, hashed, canonical, shadow, old, kind, batch, draft, page, step,
                     noted, token, released>>
  BY DEF Copy, IInv, Control, Typed, Turn, Ref, callVars
<1>2. /\ drafted' \in [Lanes -> Table]
      /\ \A m \in Lanes : drafted'[m] = IF m = l THEN shadow["proposer"][l] ELSE drafted[m]
  BY DEF Copy, IInv, Typed, Tables, Pools
<1>3. Stores'
  <2> DEFINE blocks == [p \in Pools |-> IF p = "proposer" THEN shadow[p][l].blocks ELSE <<>>]
  <2>1. blocks \in [Pools -> Seq(Blocks)]
    BY DEF IInv, Typed, Tables, Table
  <2>2. Ref(blocks) /\ Typed
    BY DEF Copy, IInv
  <2> HIDE DEF blocks
  <2> QED BY <2>1, <2>2, RefTyped
<1>4. Typed'
  BY <1>1, <1>2, <1>3 DEF IInv, Typed
<1>5. AllBacked'
  BY <1>1, <1>2 DEF IInv, AllBacked, Pools
<1>6. Live' = Live /\ Paired'
  BY <1>1 DEF IInv, Paired, Live
<1>7. \/ todo # {l} /\ pc' = "copy" /\ todo' = todo \ {l}
      \/ todo = {l} /\ pc' = "draft" /\ todo' = Drafting(0)
  BY <1>1, DoneIs DEF Copy
<1>8. Control'
  BY <1>1, <1>6, <1>7 DEF IInv, Control, Drafting
<1>9. Stages'
  BY <1>1, <1>7 DEF IInv, Stages, TargetStage, ParallelStage, Settled, Unsettled, Drafting, Base
<1> QED BY <1>4, <1>5, <1>6, <1>8, <1>9 DEF IInv

LEMMA StepDropDraft ==
  ASSUME IInv, NEW l \in Lanes, DropDraft(l)
  PROVE  IInv'
<1>1. /\ pc = "undraft" /\ l \in todo /\ l \in batch /\ kind = "parallel"
      /\ UNCHANGED <<canonical, shadow, old, kind, batch, draft, page, step,
                     noted, token, released>>
  BY DEF DropDraft, IInv, Control, Typed, Turn, callVars
<1>2. /\ drafted' \in [Lanes -> Table]
      /\ \A m \in Lanes : drafted'[m] = IF m = l THEN NoTable ELSE drafted[m]
  BY NoTableIs DEF DropDraft, IInv, Typed
<1>3. Stores'
  <2> DEFINE blocks == [p \in Pools |-> IF p = "proposer" THEN drafted[l].blocks ELSE <<>>]
  <2>1. blocks \in [Pools -> Seq(Blocks)]
    BY DEF IInv, Typed, Tables, Table
  <2>2. Unref(blocks) /\ Typed
    BY DEF DropDraft, IInv
  <2> HIDE DEF blocks
  <2> QED BY <2>1, <2>2, UnrefTyped
<1>4. Typed'
  BY <1>1, <1>2, <1>3 DEF IInv, Typed
<1>5. AllBacked'
  BY <1>1, <1>2, NoTableIs DEF IInv, AllBacked
<1>6. Live' = Live /\ Paired'
  BY <1>1 DEF IInv, Paired, Live
<1>7. \/ todo # {l} /\ pc' = "undraft" /\ todo' = todo \ {l}
      \/ todo = {l} /\ pc' = "verify" /\ todo' = batch
  BY <1>1, DoneIs DEF DropDraft
<1>8. Control'
  BY <1>1, <1>6, <1>7 DEF IInv, Control, Drafting
<1>9. Stages'
  BY <1>1, <1>7 DEF IInv, Stages, TargetStage, ParallelStage, Settled, Unsettled, Drafting, Base
<1> QED BY <1>4, <1>5, <1>6, <1>8, <1>9 DEF IInv

-----------------------------------------------------------------------------
(* The end of a round.                                                     *)

LEMMA StepCommit ==
  ASSUME IInv, Commit
  PROVE  IInv'
<1>1. /\ pc = "commit" /\ pc' = "drop" /\ todo' = batch /\ shadow' = NoTables /\ kind \in Kinds
      /\ UNCHANGED <<free, refcounts, drafted, kind, batch, draft, page, step, noted,
                     token, released>>
  BY DEF Commit, IInv, Control, Typed, callVars, Taken
<1>2. /\ canonical' = [p \in Pools |-> [m \in Lanes |->
           IF m \in batch /\ p \in PoolsOf(kind) THEN shadow[p][m] ELSE canonical[p][m]]]
      /\ old' = [p \in Pools |-> [m \in Lanes |->
           IF m \in batch /\ p \in PoolsOf(kind) THEN canonical[p][m] ELSE NoTable]]
  BY DEF Commit
<1>3. canonical' \in Tables /\ old' \in Tables
  BY <1>2, NoTableIs DEF IInv, Typed, Tables
<1>4. Stores'
  BY <1>1 DEF Commit, IInv, Typed, Stores
<1>5. Typed'
  BY <1>1, <1>3, <1>4, NoTableIs DEF IInv, Typed
<1>6. AllBacked'
  BY <1>1, <1>2, NoTableIs DEF IInv, AllBacked, NoTables
<1>7. kind \in {"exact", "history", "parallel"} /\ {"target", "proposer"} = Pools
      /\ "target" \in PoolsOf(kind) /\ (kind # "history" => "proposer" \in PoolsOf(kind))
  BY <1>1, Constants DEF PoolsOf, Pools
<1>8. ASSUME NEW m \in batch
      PROVE  /\ m \in Lanes
             /\ canonical'["target"][m].cursor = Base(m) + page[m]
             /\ kind # "history" => canonical'["proposer"][m].cursor = Base(m) + page[m]
             /\ canonical'["target"][m] # NoTable
  <2>1. m \in Lanes /\ Base(m) \in Nat /\ page[m] \in Nat /\ page[m] >= 1
    BY CallIs
  <2>2. TargetStage(m) /\ (kind = "exact" => ExactStage(m)) /\ (kind = "parallel" => ParallelStage(m))
    BY DEF IInv, Stages
  <2>3. shadow["target"][m].cursor = Base(m) + page[m]
    BY <1>1, <2>2 DEF TargetStage, Settled
  <2>4. kind = "exact" => shadow["proposer"][m].cursor = Base(m) + page[m]
    BY <1>1, <2>2 DEF ExactStage, Settled
  <2>5. kind = "parallel" => shadow["proposer"][m].cursor = Base(m) + page[m]
    BY <1>1, <2>2 DEF ParallelStage
  <2>6. canonical'["target"][m] = shadow["target"][m]
        /\ (kind # "history" => canonical'["proposer"][m] = shadow["proposer"][m])
    BY <1>2, <1>7, <2>1
  <2>7. Base(m) + page[m] # 0
    BY <2>1
  <2> QED BY <1>7, <2>1, <2>3, <2>4, <2>5, <2>6, <2>7, NoTableIs
<1>9. \A m \in Lanes : m \notin batch =>
        canonical'["target"][m] = canonical["target"][m] /\ canonical'["proposer"][m] = canonical["proposer"][m]
  BY <1>2, <1>7
<1>10. Paired'
  BY <1>1, <1>8, <1>9 DEF IInv, Paired
<1>11. batch \subseteq Live'
  BY <1>8 DEF Live
<1>12. Control'
  BY <1>1, <1>11 DEF IInv, Control
<1>13. Stages'
  BY <1>1 DEF Stages, TargetStage, ExactStage, ParallelStage, Settled, Unsettled
<1> QED BY <1>5, <1>6, <1>10, <1>12, <1>13 DEF IInv

LEMMA StepDropOld ==
  ASSUME IInv, NEW l \in Lanes, DropOld(l)
  PROVE  IInv'
<1>1. /\ pc = "drop" /\ l \in todo /\ l \in batch
      /\ UNCHANGED <<canonical, shadow, drafted, kind, batch, draft, page, step,
                     noted, token, released>>
  BY DEF DropOld, IInv, Control, Typed, Turn, callVars
<1>2. /\ old' \in Tables
      /\ \A p \in Pools, m \in Lanes : old'[p][m] = IF m = l THEN NoTable ELSE old[p][m]
  BY NoTableIs DEF DropOld, IInv, Typed, Tables
<1>3. Stores'
  <2> DEFINE blocks == [p \in Pools |-> old[p][l].blocks]
  <2>1. blocks \in [Pools -> Seq(Blocks)]
    BY DEF IInv, Typed, Tables, Table
  <2>2. Unref(blocks) /\ Typed
    BY DEF DropOld, IInv
  <2> HIDE DEF blocks
  <2> QED BY <2>1, <2>2, UnrefTyped
<1>4. Typed'
  BY <1>1, <1>2, <1>3 DEF IInv, Typed
<1>5. AllBacked'
  BY <1>1, <1>2, NoTableIs DEF IInv, AllBacked
<1>6. Live' = Live /\ Paired'
  BY <1>1 DEF IInv, Paired, Live
<1>7. \/ todo # {l} /\ pc' = "drop" /\ todo' = todo \ {l}
      \/ pc' = "discard" /\ todo' = batch
      \/ pc' = "publish" /\ todo' = {}
  BY <1>1, DoneIs DEF DropOld
<1>8. Control'
  BY <1>1, <1>6, <1>7 DEF IInv, Control
<1>9. Stages'
  BY <1>1, <1>7 DEF Stages, TargetStage, ExactStage, ParallelStage, Settled, Unsettled
<1> QED BY <1>4, <1>5, <1>6, <1>8, <1>9 DEF IInv

LEMMA StepDiscard ==
  ASSUME IInv, NEW l \in Lanes, Discard(l)
  PROVE  IInv'
<1>1. /\ pc = "discard" /\ l \in todo /\ l \in batch
      /\ UNCHANGED <<canonical, old, kind, released>>
      /\ step \in Nat /\ batch \subseteq Lanes
  BY DEF Discard, IInv, Control, Typed, Turn, Live
<1>2. /\ shadow' \in Tables
      /\ \A p \in Pools, m \in Lanes : shadow'[p][m] = IF m = l THEN NoTable ELSE shadow[p][m]
      /\ drafted' \in [Lanes -> Table]
      /\ \A m \in Lanes : drafted'[m] = IF m = l THEN NoTable ELSE drafted[m]
  BY NoTableIs DEF Discard, IInv, Typed, Tables
<1>3. Stores'
  <2> DEFINE blocks == [p \in Pools |-> Drained(p, l)]
  <2>1. \A p \in Pools : shadow[p][l].blocks \in Seq(Blocks) /\ drafted[l].blocks \in Seq(Blocks)
    BY DEF IInv, Typed, Tables, Table
  <2>2. blocks \in [Pools -> Seq(Blocks)]
    BY <2>1 DEF Drained
  <2>3. Unref(blocks) /\ Typed
    BY DEF Discard, IInv
  <2> HIDE DEF blocks
  <2> QED BY <2>2, <2>3, UnrefTyped
<1>4. \/ /\ todo # {l} /\ pc' = "discard" /\ todo' = todo \ {l}
         /\ UNCHANGED <<batch, draft, page, step, noted, token>>
      \/ /\ todo = {l} /\ pc' = "idle" /\ todo' = {}
         /\ batch' = {} /\ step' = 0 /\ token' = "pending"
         /\ draft' = Still /\ page' = Still /\ noted' = None
  BY <1>1, DoneIs DEF Discard, callVars
<1>5. Still \in [Lanes -> 0 .. MaxDraft] /\ Still \in [Lanes -> 0 .. MaxDraft + 1]
      /\ None \in [Pools -> SUBSET Blocks]
  BY Constants DEF Still, None
<1>6. Typed'
  BY <1>1, <1>2, <1>3, <1>4, <1>5 DEF IInv, Typed
<1>7. AllBacked'
  BY <1>1, <1>2, NoTableIs DEF IInv, AllBacked
<1>8. Live' = Live /\ Paired'
  BY <1>1 DEF IInv, Paired, Live
<1>9. Control'
  <2>1. CASE todo # {l} /\ pc' = "discard" /\ todo' = todo \ {l}
             /\ UNCHANGED <<batch, draft, page, step, noted, token>>
    BY <1>8, <2>1 DEF IInv, Control
  <2>2. CASE /\ pc' = "idle" /\ todo' = {} /\ batch' = {} /\ step' = 0 /\ token' = "pending"
    BY <2>2, Constants DEF Control
  <2> QED BY <1>4, <2>1, <2>2
<1>10. Stages'
  BY <1>1, <1>4 DEF Stages, TargetStage, ExactStage, ParallelStage, Settled, Unsettled
<1> QED BY <1>6, <1>7, <1>8, <1>9, <1>10 DEF IInv

-----------------------------------------------------------------------------
(* Admission and release of sequences.                                     *)

\* A canonical state of a lane outside the round changes.
LEMMA OtherLane ==
  ASSUME IInv, NEW l \in Lanes, l \notin batch, Stores', canonical' \in Tables,
         \A p \in Pools, m \in Lanes : m # l => canonical'[p][m] = canonical[p][m],
         \A p \in Pools : Backed(canonical'[p][l]),
         kind # "history" =>
           canonical'["target"][l].cursor = canonical'["proposer"][l].cursor,
         UNCHANGED <<shadow, drafted, old, kind, pc, todo, batch, draft, page, step, noted,
                     token, released>>
  PROVE  IInv'
<1>1. Typed'
  BY DEF IInv, Typed
<1>2. AllBacked'
  BY DEF IInv, AllBacked
<1>3. "target" \in Pools /\ "proposer" \in Pools
  BY DEF Pools
<1>4. Paired'
  BY <1>3 DEF IInv, Paired
<1>5. batch \subseteq Live' /\ batch \subseteq Lanes
  BY <1>3 DEF IInv, Control, Live
<1>6. Control'
  BY <1>5 DEF IInv, Control, Drafting, Behind
<1>7. \A m \in batch : Base(m)' = Base(m)
  BY <1>3, <1>5 DEF Base
<1>8. ASSUME NEW m \in batch
      PROVE  TargetStage(m)' /\ (kind = "exact" => ExactStage(m)')
             /\ (kind = "parallel" => ParallelStage(m)')
  <2>1. TargetStage(m) /\ (kind = "exact" => ExactStage(m)) /\ (kind = "parallel" => ParallelStage(m))
    BY DEF IInv, Stages
  <2>2. TargetStage(m)'
    BY <1>7, <2>1 DEF TargetStage, Settled, Unsettled
  <2>3. kind = "exact" => ExactStage(m)'
    BY <1>7, <2>1 DEF ExactStage, Settled, Unsettled, Drafting, Behind
  <2>4. kind = "parallel" => ParallelStage(m)'
    BY <1>7, <2>1 DEF ParallelStage, Drafting
  <2> QED BY <2>2, <2>3, <2>4
<1>9. Stages'
  BY <1>8 DEF Stages
<1> QED BY <1>1, <1>2, <1>4, <1>6, <1>9 DEF IInv

LEMMA StepReturnBlocks ==
  ASSUME IInv, NEW l \in Lanes, ReturnBlocks(l)
  PROVE  IInv'
<1>1. /\ l \notin batch
      /\ UNCHANGED <<shadow, drafted, old, kind, pc, todo, batch, draft, page, step, noted,
                     token, released>>
  BY DEF ReturnBlocks, callVars
<1>2. /\ canonical' \in Tables
      /\ \A p \in Pools, m \in Lanes : canonical'[p][m] = IF m = l THEN NoTable ELSE canonical[p][m]
  BY NoTableIs DEF ReturnBlocks, IInv, Typed, Tables
<1>3. Stores'
  <2> DEFINE blocks == [p \in Pools |->
                          LET t == canonical[p][l] IN SubSeq(t.blocks, t.head + 1, Len(t.blocks))]
  <2>1. \A p \in Pools : canonical[p][l].blocks \in Seq(Blocks) /\ canonical[p][l].head \in Nat
    BY DEF IInv, Typed, Tables, Table
  <2>2. \A s \in Seq(Blocks), h \in Nat : SubSeq(s, h + 1, Len(s)) \in Seq(Blocks)
    OBVIOUS
  <2>3. blocks \in [Pools -> Seq(Blocks)]
    BY <2>1, <2>2
  <2>4. Unref(blocks) /\ Typed
    BY DEF ReturnBlocks, IInv
  <2> HIDE DEF blocks
  <2> QED BY <2>3, <2>4, UnrefTyped
<1>4. "target" \in Pools /\ "proposer" \in Pools
  BY DEF Pools
<1> QED BY <1>1, <1>2, <1>3, <1>4, NoTableIs, OtherLane

\* The table of a prompt of n tokens.
Prefilled(p, n) ==
  [blocks |-> SubSeq(Allocatable(p), 1, BlocksFor(n)), head |-> 0, cursor |-> n]

LEMMA PrefilledIs ==
  ASSUME IInv, NEW p \in Pools, NEW n \in Nat, n <= MaxTokens,
         BlocksFor(n) <= Len(Allocatable(p))
  PROVE  /\ Prefilled(p, n) \in Table /\ Backed(Prefilled(p, n)) /\ Prefilled(p, n).cursor = n
         /\ Prefilled(p, n).blocks = SubSeq(Allocatable(p), 1, BlocksFor(n))
         /\ ToSet(Prefilled(p, n).blocks) \subseteq Blocks
<1>1. PICK k \in Nat : k = BlocksFor(n) /\ n <= k * BlockSize
  BY BlocksReach
<1>2. PICK s \in Seq(Blocks) : s = SubSeq(Allocatable(p), 1, k) /\ Len(s) = k
  BY <1>1, FirstAllocatable DEF IInv
<1>3. PICK t : t = Prefilled(p, n)
  OBVIOUS
<1>4. t = [blocks |-> s, head |-> 0, cursor |-> n]
  BY <1>1, <1>2, <1>3 DEF Prefilled
<1>5. t \in Table /\ t.cursor = n /\ t.head = 0 /\ t.blocks = s
  BY <1>4 DEF Table
<1>6. Backed(t)
  BY <1>1, <1>2, <1>5 DEF Backed
<1>7. ToSet(s) \subseteq Blocks
  BY <1>2 DEF ToSet
<1> QED BY <1>1, <1>2, <1>3, <1>5, <1>6, <1>7

\* What the prefill of a prompt of n tokens does to tables and stores.
SizeOf(n) == [p \in Pools |-> IF p \in PoolsOf(kind) THEN n ELSE 0]

Admitted(l, size, tables) ==
  /\ \A p \in Pools :
       /\ size[p] \in Nat /\ size[p] <= MaxTokens /\ BlocksFor(size[p]) <= Len(Allocatable(p))
       /\ tables[p] \in Table /\ Backed(tables[p]) /\ tables[p].cursor = size[p]
       /\ tables[p].blocks = SubSeq(Allocatable(p), 1, BlocksFor(size[p]))
       /\ ToSet(tables[p].blocks) \subseteq Blocks
  /\ canonical' = [p \in Pools |-> [canonical[p] EXCEPT ![l] = tables[p]]]
  /\ refcounts' = [p \in Pools |-> Counts(p, ToSet(tables[p].blocks), Nothing[p])]
  /\ free' = [p \in Pools |-> free[p] \ ToSet(tables[p].blocks)]
  /\ hashed' = [p \in Pools |-> (hashed[p] \ ToSet(tables[p].blocks)) \cup
       {tables[p].blocks[i] : i \in 1 .. size[p] \div BlockSize}]

LEMMA AdmitIs ==
  ASSUME IInv, NEW l \in Lanes, NEW n \in Prompts, Admit(l, n)
  PROVE  \E tables : Admitted(l, SizeOf(n), tables)
<1> DEFINE size == SizeOf(n)
<1>1. n \in Nat /\ n <= MaxTokens
  BY SpeculativeConstants
<1>2. ASSUME NEW p \in Pools
      PROVE  size[p] \in Nat /\ size[p] <= MaxTokens /\ BlocksFor(size[p]) <= Len(Allocatable(p))
  <2>1. Len(Allocatable(p)) \in Nat
    BY AllocatableIs DEF IInv
  <2>2. BlocksFor(0) <= 0
    BY BlocksReach, Constants
  <2>3. BlocksFor(0) \in Nat
    BY BlocksReach
  <2>4. CASE p \in PoolsOf(kind)
    BY <1>1, <2>4 DEF Admit, SizeOf
  <2>5. CASE p \notin PoolsOf(kind)
    BY <2>1, <2>2, <2>3, <2>5, Constants DEF SizeOf
  <2> QED BY <2>4, <2>5
<1>3. PICK tables : tables = [p \in Pools |-> Prefilled(p, size[p])]
  OBVIOUS
<1>4. ASSUME NEW p \in Pools
      PROVE  /\ tables[p] = Prefilled(p, size[p])
             /\ tables[p] \in Table /\ Backed(tables[p]) /\ tables[p].cursor = size[p]
             /\ tables[p].blocks = SubSeq(Allocatable(p), 1, BlocksFor(size[p]))
             /\ ToSet(tables[p].blocks) \subseteq Blocks
  <2>1. tables[p] = Prefilled(p, size[p])
    BY <1>3
  <2> HIDE DEF size
  <2> QED BY <1>2, <2>1, PrefilledIs
<1>5. /\ canonical' = [p \in Pools |-> [canonical[p] EXCEPT ![l] = tables[p]]]
      /\ refcounts' = [p \in Pools |-> Counts(p, ToSet(tables[p].blocks), Nothing[p])]
      /\ free' = [p \in Pools |-> free[p] \ ToSet(tables[p].blocks)]
      /\ hashed' = [p \in Pools |-> (hashed[p] \ ToSet(tables[p].blocks)) \cup
           {tables[p].blocks[i] : i \in 1 .. size[p] \div BlockSize}]
  <2> DEFINE fresh == [p \in Pools |-> SubSeq(Allocatable(p), 1, BlocksFor(size[p]))]
             table == [p \in Pools |-> [blocks |-> fresh[p], head |-> 0, cursor |-> size[p]]]
  <2>1. table = tables
    BY <1>3 DEF Prefilled
  <2>2. \A p \in Pools : fresh[p] = tables[p].blocks
    <3> HIDE DEF size
    <3> QED BY <1>4
  <2>3. /\ canonical' = [p \in Pools |-> [canonical[p] EXCEPT ![l] = table[p]]]
        /\ refcounts' = [p \in Pools |-> Counts(p, ToSet(fresh[p]), Nothing[p])]
        /\ free' = [p \in Pools |-> free[p] \ ToSet(fresh[p])]
        /\ hashed' = [p \in Pools |-> (hashed[p] \ ToSet(fresh[p])) \cup
             {fresh[p][i] : i \in 1 .. size[p] \div BlockSize}]
    BY DEF Admit, SizeOf
  <2> HIDE DEF table, fresh, size
  <2>4. canonical' = [p \in Pools |-> [canonical[p] EXCEPT ![l] = tables[p]]]
    BY <2>1, <2>3
  <2>5. /\ refcounts' = [p \in Pools |-> Counts(p, ToSet(tables[p].blocks), Nothing[p])]
        /\ free' = [p \in Pools |-> free[p] \ ToSet(tables[p].blocks)]
    BY <2>2, <2>3
  <2>6. hashed' = [p \in Pools |-> (hashed[p] \ ToSet(tables[p].blocks)) \cup
             {tables[p].blocks[i] : i \in 1 .. size[p] \div BlockSize}]
    BY <2>2, <2>3
  <2> QED BY <2>4, <2>5, <2>6
<1> HIDE DEF size
<1>6. Admitted(l, size, tables)
  BY <1>2, <1>4, <1>5 DEF Admitted
<1> QED BY <1>6 DEF size

LEMMA StepAdmit ==
  ASSUME IInv, NEW l \in Lanes, NEW n \in Prompts, Admit(l, n)
  PROVE  IInv'
<1>1. /\ l \notin Live /\ l \notin batch
      /\ UNCHANGED <<shadow, drafted, old, kind, pc, todo, batch, draft, page, step, noted,
                     token, released>>
  BY DEF Admit, callVars, IInv, Control
<1>2. n \in Nat /\ n <= MaxTokens
  BY SpeculativeConstants
<1>3. PICK size, tables : size = SizeOf(n) /\ Admitted(l, size, tables)
  BY AdmitIs
<1>4. ASSUME NEW p \in Pools
      PROVE  /\ size[p] \in Nat /\ size[p] <= MaxTokens
             /\ tables[p] \in Table /\ Backed(tables[p]) /\ tables[p].cursor = size[p]
             /\ ToSet(tables[p].blocks) \subseteq Blocks
  BY <1>3 DEF Admitted
<1>5. /\ canonical' = [p \in Pools |-> [canonical[p] EXCEPT ![l] = tables[p]]]
      /\ refcounts' = [p \in Pools |-> Counts(p, ToSet(tables[p].blocks), Nothing[p])]
      /\ free' = [p \in Pools |-> free[p] \ ToSet(tables[p].blocks)]
      /\ hashed' = [p \in Pools |-> (hashed[p] \ ToSet(tables[p].blocks)) \cup
           {tables[p].blocks[i] : i \in 1 .. size[p] \div BlockSize}]
  BY <1>3 DEF Admitted
<1>6. /\ canonical' \in Tables
      /\ \A p \in Pools, m \in Lanes : canonical'[p][m] = IF m = l THEN tables[p] ELSE canonical[p][m]
  BY <1>4, <1>5 DEF IInv, Typed, Tables
<1>7. refcounts' \in [Pools -> [Blocks -> Nat]]
  <2>1. \A p \in Pools : Counts(p, ToSet(tables[p].blocks), Nothing[p]) \in [Blocks -> Nat]
    <3> TAKE p \in Pools
    <3>1. \A b \in Blocks : refcounts[p][b] \in Nat /\ Nothing[p][b] = 0
      BY DEF IInv, Typed, Stores, Nothing
    <3>2. \A b \in Blocks : Larger(0, (IF b \in ToSet(tables[p].blocks) THEN 1
                                       ELSE refcounts[p][b]) - Nothing[p][b]) \in Nat
      BY <3>1 DEF Larger
    <3> QED BY <3>2 DEF Counts
  <2> QED BY <1>5, <2>1
<1>8. free' \in [Pools -> SUBSET Blocks]
  BY <1>5 DEF IInv, Typed, Stores
<1>9. \A p \in Pools : \A i \in 1 .. size[p] \div BlockSize : tables[p].blocks[i] \in Blocks
  <2> SUFFICES ASSUME NEW p \in Pools, NEW i \in 1 .. size[p] \div BlockSize
               PROVE  tables[p].blocks[i] \in Blocks
    OBVIOUS
  <2>1. PICK s \in Seq(Blocks), k \in Nat : s = tables[p].blocks /\ k = size[p]
                                            /\ k <= Len(s) * BlockSize
    BY <1>4 DEF Table, Backed
  <2>2. \A a \in Nat, q \in Nat, d \in Nat \ {0} : a <= q * d => a \div d <= q
    <3> SUFFICES ASSUME NEW a \in Nat, NEW q \in Nat, NEW d \in Nat \ {0}, a <= q * d
                 PROVE  a \div d <= q
      OBVIOUS
    <3>1. a \div d \in Nat /\ d * (a \div d) <= a
      OBVIOUS
    <3>2. PICK r \in Nat : r = a \div d /\ d * r <= a
      BY <3>1
    <3>3. d * r <= d * q
      BY <3>2
    <3>4. r <= q
      BY <3>3
    <3> QED BY <3>2, <3>4
  <2>3. k \div BlockSize <= Len(s) /\ k \div BlockSize \in Nat
    <3>1. Len(s) \in Nat /\ BlockSize \in Nat \ {0}
      BY Constants
    <3>2. k \div BlockSize <= Len(s)
      BY <2>1, <2>2, <3>1
    <3>3. \A a \in Nat, d \in Nat \ {0} : a \div d \in Nat
      OBVIOUS
    <3> QED BY <3>1, <3>2, <3>3
  <2>4. i \in 1 .. Len(s)
    BY <2>1, <2>3
  <2> QED BY <2>1, <2>4
<1>10. hashed' \in [Pools -> SUBSET Blocks]
  BY <1>5, <1>9 DEF IInv, Typed, Stores
<1>11. Stores'
  BY <1>7, <1>8, <1>10 DEF Stores
<1>12. "target" \in Pools /\ "proposer" \in Pools
       /\ (kind # "history" => size["target"] = n /\ size["proposer"] = n)
  BY <1>3 DEF Pools, PoolsOf, SizeOf
<1>13. /\ \A p \in Pools : Backed(canonical'[p][l])
       /\ kind # "history" => canonical'["target"][l].cursor = canonical'["proposer"][l].cursor
       /\ \A p \in Pools, m \in Lanes : m # l => canonical'[p][m] = canonical[p][m]
  BY <1>4, <1>6, <1>12
<1> QED BY <1>1, <1>6, <1>11, <1>13, OtherLane

-----------------------------------------------------------------------------
(* The executions of a round.                                              *)

\* The shadows of pool p are replaced.
LEMMA NewShadows ==
  ASSUME IInv, NEW p \in Pools, NEW after \in [Lanes -> Table],
         \A m \in Lanes : Backed(after[m]), Stores', shadow' = [shadow EXCEPT ![p] = after],
         UNCHANGED <<canonical, drafted, old, kind, batch, draft, page, released>>,
         noted' \in [Pools -> SUBSET Blocks], step' \in Nat
  PROVE  /\ Typed' /\ AllBacked' /\ Paired' /\ Live' = Live
         /\ shadow'[p] = after /\ \A q \in Pools : q # p => shadow'[q] = shadow[q]
         /\ \A m \in Lanes : Base(m)' = Base(m)
<1>1. /\ shadow' \in Tables /\ shadow'[p] = after
      /\ \A q \in Pools : q # p => shadow'[q] = shadow[q]
  BY DEF IInv, Typed, Tables
<1>2. Typed'
  BY <1>1 DEF IInv, Typed
<1>3. AllBacked'
  BY <1>1 DEF IInv, AllBacked
<1> QED BY <1>1, <1>2, <1>3 DEF IInv, Paired, Live, Base

LEMMA StepDraftStep ==
  ASSUME IInv, NEW l \in Lanes, DraftStep(l)
  PROVE  IInv'
<1> DEFINE tables == shadow["proposer"]
           lanes == Drafting(step)
           good == [m \in Lanes |-> IF step < page[m] THEN 1 ELSE 0]
<1>1. /\ pc = "draft" /\ l \in todo /\ l \in batch /\ kind = "exact" /\ Turn(l)
      /\ l \in Drafting(step)
      /\ UNCHANGED <<canonical, drafted, old, kind, batch, draft, page, noted, token, released>>
  BY DEF DraftStep, IInv, Control, Typed, Turn
<1>2. PICK after : /\ after = Executed("proposer", tables, l, lanes, One, One)
                   /\ Execution("proposer", tables, after, l, One, good)
                   /\ shadow' = [shadow EXCEPT !["proposer"] = after]
  BY DEF DraftStep
<1>3. One \in [Lanes -> Nat] /\ \A m \in Lanes : One[m] = 1
  BY DEF One
<1>4. "proposer" \in Pools /\ "target" \in Pools
  BY DEF Pools
<1>5. tables \in [Lanes -> Table] /\ Typed /\ \A m \in Lanes : Backed(tables[m])
  BY <1>4 DEF IInv, Typed, Tables, AllBacked
<1>6. ASSUME NEW m \in batch
      PROVE  /\ m \in Lanes /\ Base(m) \in Nat /\ draft[m] \in Nat /\ step \in Nat
             /\ shadow["target"][m].cursor = Base(m)
             /\ tables[m].cursor = Base(m) + Smaller(step, draft[m])
             /\ m \in Drafting(step) \ todo => Room(tables[m].blocks, tables[m].cursor + 1)
  <2>1. TargetStage(m) /\ ExactStage(m)
    BY <1>1 DEF IInv, Stages
  <2>2. shadow["target"][m].cursor = Base(m)
    BY <1>1, <2>1 DEF TargetStage
  <2> QED BY <1>1, <2>1, <2>2, CallIs DEF ExactStage
<1>7. Stores' /\ Stepped(tables, after, l, lanes, One, One)
  <2>1. todo = {l} => \A m \in Lanes : m \in lanes /\ m # l =>
          Room(tables[m].blocks, tables[m].cursor + One[m])
    BY <1>3, <1>6 DEF Drafting
  <2>2. One[l] <= One[l]
    BY <1>3
  <2> HIDE DEF tables, lanes, good
  <2> QED BY <1>2, <1>3, <1>4, <1>5, <2>1, <2>2, ExecutionStep
<1>8. /\ step' = IF todo = {l} THEN step + 1 ELSE step
      /\ step' \in Nat /\ step \in Nat /\ (todo = {l} => step' <= MaxDraft)
  <2>1. step' = (IF todo = {l} THEN step + 1 ELSE step) /\ step \in Nat
    BY DEF DraftStep, IInv, Typed
  <2>2. draft[l] \in Nat /\ draft[l] <= MaxDraft /\ step < draft[l]
    BY <1>1, CallIs DEF Drafting
  <2> QED BY <2>1, <2>2, Constants
<1>9. /\ Typed' /\ AllBacked' /\ Paired' /\ Live' = Live
      /\ shadow'["proposer"] = after /\ shadow'["target"] = shadow["target"]
      /\ \A m \in Lanes : Base(m)' = Base(m)
  <2>1. noted' \in [Pools -> SUBSET Blocks]
    BY <1>1 DEF IInv, Typed
  <2>2. after \in [Lanes -> Table] /\ \A m \in Lanes : Backed(after[m])
    BY <1>7 DEF Stepped
  <2> QED BY <1>1, <1>2, <1>4, <1>7, <1>8, <2>1, <2>2, NewShadows
<1>10. \/ todo # {l} /\ pc' = "draft" /\ todo' = todo \ {l}
       \/ todo = {l} /\ pc' = "verify" /\ todo' = batch /\ Drafting(step + 1) = {}
       \/ todo = {l} /\ pc' = "draft" /\ todo' = Drafting(step + 1)
  <2>1. CASE Drafting(step + 1) = {}
    BY <1>1, <2>1, DoneIs DEF DraftStep
  <2>2. CASE Drafting(step + 1) # {}
    BY <1>1, <2>2, DoneIs DEF DraftStep
  <2> QED BY <2>1, <2>2
<1>11. Control'
  <2>1. /\ Drafting(step)' = IF todo = {l} THEN Drafting(step + 1) ELSE Drafting(step)
        /\ Drafting(step) \subseteq batch /\ Drafting(step + 1) \subseteq batch
    BY <1>1, <1>8 DEF Drafting
  <2>2. todo \subseteq Drafting(step)
    BY <1>1 DEF IInv, Control
  <2>3. todo' \subseteq batch' /\ (pc' = "draft" => todo' \subseteq Drafting(step)')
    BY <1>1, <1>10, <2>1, <2>2
  <2> QED BY <1>1, <1>8, <1>9, <1>10, <2>3 DEF IInv, Control
<1>12. ASSUME NEW m \in batch
       PROVE  TargetStage(m)' /\ ExactStage(m)'
  <2>1. /\ m \in Lanes /\ Base(m) \in Nat /\ draft[m] \in Nat /\ step \in Nat
        /\ shadow["target"][m].cursor = Base(m)
        /\ tables[m].cursor = Base(m) + Smaller(step, draft[m])
        /\ Base(m)' = Base(m) /\ shadow'["target"][m].cursor = Base(m)
    BY <1>6, <1>9
  <2>2. TargetStage(m)'
    BY <1>1, <1>10, <2>1 DEF TargetStage, Settled, Unsettled
  <2>3. PICK c \in Nat, d \in Nat, n \in Nat : c = Base(m) /\ d = draft[m] /\ n = step
    BY <2>1
  <2>4. CASE todo # {l} /\ pc' = "draft" /\ todo' = todo \ {l}
    <3>1. after[m].cursor = tables[m].cursor /\ step' = step
      <4>1. after[m].cursor = tables[m].cursor + 0
        BY <1>7, <2>1, <2>4 DEF Stepped
      <4>2. tables[m].cursor \in Nat
        BY <1>5, <2>1 DEF Table
      <4> QED BY <1>8, <2>4, <4>1, <4>2
    <3>2. m \in Drafting(step) \ todo' => Room(after[m].blocks, after[m].cursor + 1)
      <4>1. CASE m = l
        BY <1>3, <1>7, <3>1, <4>1 DEF Stepped
      <4>2. CASE m # l
        <5>1. after[m].blocks = tables[m].blocks
          BY <1>7, <2>1, <4>2 DEF Stepped
        <5> QED BY <1>6, <2>4, <3>1, <4>2, <5>1
      <4> QED BY <4>1, <4>2
    <3> QED BY <1>1, <1>9, <2>1, <2>2, <2>4, <3>1, <3>2
            DEF ExactStage, Settled, Unsettled, Drafting
  <2>5. CASE todo = {l}
    <3>1. after[m].cursor = c + Smaller(n, d) + (IF n < d THEN 1 ELSE 0)
      BY <1>3, <1>7, <2>1, <2>3, <2>5 DEF Stepped, Drafting
    <3>2. after[m].cursor = c + Smaller(n + 1, d)
      BY <3>1 DEF Smaller
    <3>3. Drafting(step + 1) = {} => Smaller(n + 1, d) = d
      BY <2>3 DEF Drafting, Smaller
    <3>4. pc' = "draft" => todo' = Drafting(step + 1) /\ Drafting(step)' = Drafting(step + 1)
      BY <1>1, <1>8, <1>10, <2>5 DEF Drafting
    <3>5. ExactStage(m)'
      BY <1>1, <1>8, <1>9, <1>10, <2>1, <2>3, <2>5, <3>2, <3>3, <3>4
      DEF ExactStage, Settled, Unsettled
    <3> QED BY <2>2, <3>5
  <2> QED BY <1>10, <2>4, <2>5
<1>13. Stages'
  BY <1>1, <1>12 DEF Stages
<1> QED BY <1>9, <1>11, <1>13 DEF IInv

LEMMA StepDraftBlock ==
  ASSUME IInv, NEW l \in Lanes, DraftBlock(l)
  PROVE  IInv'
<1> DEFINE advance == [m \in Lanes |-> TrainedRows + 1]
           lanes == Drafting(0)
<1>1. /\ pc = "draft" /\ l \in todo /\ l \in batch /\ kind = "parallel" /\ Turn(l)
      /\ UNCHANGED <<canonical, shadow, old, kind, batch, draft, page, step, noted, released>>
      /\ token' = IF todo = {l} THEN "complete" ELSE token
  BY DEF DraftBlock, IInv, Control, Typed, Turn, callVars
<1>2. PICK after : /\ after = Executed("proposer", drafted, l, lanes, advance, advance)
                   /\ Execution("proposer", drafted, after, l, advance, Still)
                   /\ drafted' = after
  BY DEF DraftBlock
<1>3. advance \in [Lanes -> Nat] /\ \A m \in Lanes : advance[m] = TrainedRows + 1 /\ advance[m] \in Nat
  BY Constants
<1>4. "proposer" \in Pools /\ drafted \in [Lanes -> Table] /\ Typed
      /\ \A m \in Lanes : Backed(drafted[m])
  BY DEF Pools, IInv, Typed, AllBacked
<1>5. ASSUME NEW m \in batch
      PROVE  /\ m \in Lanes /\ TargetStage(m) /\ ParallelStage(m)
             /\ m \in Drafting(0) \ todo =>
                  Room(drafted[m].blocks, drafted[m].cursor + (TrainedRows + 1))
  <2>1. m \in Lanes /\ TargetStage(m) /\ ParallelStage(m)
    BY <1>1, CallIs DEF IInv, Stages
  <2> QED BY <1>1, <2>1 DEF ParallelStage
<1> HIDE DEF advance
<1>6. Stores' /\ Stepped(drafted, after, l, lanes, advance, advance)
  <2>1. todo = {l} => \A m \in Lanes : m \in lanes /\ m # l =>
          Room(drafted[m].blocks, drafted[m].cursor + advance[m])
    BY <1>3, <1>5 DEF Drafting
  <2>2. advance[l] <= advance[l]
    BY <1>3
  <2> HIDE DEF lanes
  <2> QED BY <1>2, <1>3, <1>4, <2>1, <2>2, ExecutionStep
<1>7. after \in [Lanes -> Table] /\ \A m \in Lanes : Backed(after[m])
  BY <1>6 DEF Stepped
<1>8. Typed'
  BY <1>1, <1>2, <1>6, <1>7 DEF IInv, Typed
<1>9. AllBacked'
  BY <1>1, <1>2, <1>7 DEF IInv, AllBacked
<1>10. Live' = Live /\ Paired'
  BY <1>1 DEF IInv, Live, Paired
<1>11. \/ todo # {l} /\ pc' = "draft" /\ todo' = todo \ {l} /\ token' = token
       \/ todo = {l} /\ pc' = "undraft" /\ todo' = Drafting(0) /\ token' = "complete"
  BY <1>1, DoneIs DEF DraftBlock
<1>12. Control'
  BY <1>1, <1>10, <1>11 DEF IInv, Control, Drafting
<1>13. ASSUME NEW m \in batch
       PROVE  TargetStage(m)' /\ ParallelStage(m)'
  <2>1. TargetStage(m)'
    BY <1>1, <1>5, <1>11 DEF TargetStage, Settled, Unsettled, Base
  <2>2. CASE todo # {l} /\ pc' = "draft" /\ todo' = todo \ {l}
    <3>1. after[m].cursor = drafted[m].cursor
      <4>1. after[m].cursor = drafted[m].cursor + 0
        BY <1>5, <1>6, <2>2 DEF Stepped
      <4>2. drafted[m].cursor \in Nat
        BY <1>4, <1>5 DEF Table
      <4> QED BY <4>1, <4>2
    <3>2. m \in Drafting(0) \ todo' =>
            Room(after[m].blocks, after[m].cursor + (TrainedRows + 1))
      <4>1. CASE m = l
        BY <1>3, <1>6, <3>1, <4>1 DEF Stepped
      <4>2. CASE m # l
        <5>1. after[m].blocks = drafted[m].blocks
          BY <1>5, <1>6, <4>2 DEF Stepped
        <5> QED BY <1>5, <2>2, <3>1, <4>2, <5>1
      <4> QED BY <4>1, <4>2
    <3> QED BY <1>1, <1>2, <1>5, <2>1, <2>2, <3>2 DEF ParallelStage, Drafting, Base
  <2>3. CASE todo = {l} /\ pc' = "undraft" /\ todo' = Drafting(0)
    BY <1>1, <1>5, <2>1, <2>3 DEF ParallelStage, Drafting, Base
  <2> QED BY <1>11, <2>2, <2>3
<1>14. Stages'
  BY <1>1, <1>13 DEF Stages
<1> QED BY <1>8, <1>9, <1>10, <1>12, <1>14 DEF IInv

LEMMA StepCatchup ==
  ASSUME IInv, NEW l \in Lanes, Catchup(l)
  PROVE  IInv'
<1> DEFINE tables == shadow["proposer"]
<1>1. /\ pc = "catchup" /\ l \in todo /\ l \in batch /\ kind = "exact" /\ Turn(l)
      /\ todo \subseteq Behind
      /\ UNCHANGED <<canonical, drafted, old, kind, batch, draft, page, step, noted, token, released>>
  BY DEF Catchup, IInv, Control, Typed, Turn, callVars
<1>2. PICK after : /\ after = Executed("proposer", tables, l, Behind, One, Still)
                   /\ Execution("proposer", tables, after, l, One, One)
                   /\ shadow' = [shadow EXCEPT !["proposer"] = after]
  BY DEF Catchup
<1>3. /\ One \in [Lanes -> Nat] /\ Still \in [Lanes -> Nat]
      /\ \A m \in Lanes : One[m] = 1 /\ Still[m] = 0
  BY DEF One, Still
<1>4. "proposer" \in Pools /\ "target" \in Pools
  BY DEF Pools
<1>5. tables \in [Lanes -> Table] /\ Typed /\ \A m \in Lanes : Backed(tables[m])
  BY <1>4 DEF IInv, Typed, Tables, AllBacked
<1>6. ASSUME NEW m \in batch
      PROVE  m \in Lanes /\ TargetStage(m) /\ ExactStage(m)
  BY <1>1, CallIs DEF IInv, Stages
<1>7. ASSUME NEW m \in Lanes
      PROVE  Room(tables[m].blocks, tables[m].cursor) /\ tables[m].cursor + 0 = tables[m].cursor
  <2>1. tables[m].cursor \in Nat
    BY <1>5 DEF Table
  <2> QED BY <1>5, <2>1 DEF Backed, Room
<1>8. Stores' /\ Stepped(tables, after, l, Behind, One, Still)
  <2>1. todo = {l} => \A m \in Lanes : m \in Behind /\ m # l =>
          Room(tables[m].blocks, tables[m].cursor + Still[m])
    BY <1>3, <1>7
  <2>2. Still[l] <= One[l]
    BY <1>3
  <2>3. PICK lanes : lanes = Behind
    OBVIOUS
  <2> HIDE DEF tables
  <2>4. Stores' /\ Stepped(tables, after, l, lanes, One, Still)
    BY <1>2, <1>3, <1>4, <1>5, <2>1, <2>2, <2>3, ExecutionStep
  <2> QED BY <2>3, <2>4
<1>9. /\ Typed' /\ AllBacked' /\ Paired' /\ Live' = Live
      /\ shadow'["proposer"] = after /\ shadow'["target"] = shadow["target"]
      /\ \A m \in Lanes : Base(m)' = Base(m)
  <2>1. noted' \in [Pools -> SUBSET Blocks] /\ step' \in Nat
    BY <1>1 DEF IInv, Typed
  <2>2. after \in [Lanes -> Table] /\ \A m \in Lanes : Backed(after[m])
    BY <1>8 DEF Stepped
  <2> QED BY <1>1, <1>2, <1>4, <1>8, <2>1, <2>2, NewShadows
<1>10. \/ todo # {l} /\ pc' = "catchup" /\ todo' = todo \ {l}
       \/ todo = {l} /\ pc' = "truncate" /\ todo' = batch
  BY <1>1, DoneIs DEF Catchup
<1>11. Behind' = Behind
  BY <1>1 DEF Behind
<1>12. Control'
  BY <1>1, <1>9, <1>10, <1>11 DEF IInv, Control
<1>13. ASSUME NEW m \in batch
       PROVE  TargetStage(m)' /\ ExactStage(m)'
  <2>1. after[m].cursor = tables[m].cursor
    <3>1. after[m].cursor = tables[m].cursor + 0
      BY <1>3, <1>6, <1>8 DEF Stepped
    <3> QED BY <1>6, <1>7, <3>1
  <2>2. m \in Behind /\ (m \notin todo' \/ todo = {l}) => Room(after[m].blocks, after[m].cursor + 1)
    <3>1. CASE m = l
      BY <1>3, <1>8, <2>1, <3>1 DEF Stepped
    <3>2. CASE m # l
      <4>1. after[m].blocks = tables[m].blocks
        BY <1>6, <1>8, <3>2 DEF Stepped
      <4>2. m \in Behind /\ (m \notin todo' \/ todo = {l}) => m \notin todo
        BY <1>10, <3>2
      <4> QED BY <1>1, <1>6, <2>1, <4>1, <4>2 DEF ExactStage
    <3> QED BY <3>1, <3>2
  <2>3. TargetStage(m)'
    BY <1>1, <1>6, <1>9, <1>10 DEF TargetStage, Settled, Unsettled
  <2>4. after[m].cursor = Base(m) + draft[m]
    BY <1>1, <1>6, <2>1 DEF ExactStage
  <2>5. ExactStage(m)'
    BY <1>1, <1>6, <1>9, <1>10, <1>11, <2>2, <2>4 DEF ExactStage, Settled, Unsettled
  <2> QED BY <2>3, <2>5
<1>14. Stages'
  BY <1>1, <1>13 DEF Stages
<1> QED BY <1>9, <1>12, <1>14 DEF IInv

LEMMA StepVerify ==
  ASSUME IInv, NEW l \in Lanes, Verify(l)
  PROVE  IInv'
<1> DEFINE tables == shadow["target"]
           advance == [m \in Lanes |-> draft[m] + 1]
           moves == IF kind = "parallel" THEN advance ELSE Still
<1>1. /\ pc = "verify" /\ l \in todo /\ l \in batch /\ Turn(l) /\ batch \subseteq Lanes
      /\ UNCHANGED <<canonical, drafted, old, kind, batch, draft, page, step, noted, token, released>>
  BY DEF Verify, IInv, Control, Typed, Turn, callVars, Live
<1>2. PICK after : /\ after = Executed("target", tables, l, batch, advance, moves)
                   /\ Execution("target", tables, after, l, advance, page)
                   /\ shadow' = [shadow EXCEPT !["target"] = after]
  BY DEF Verify
<1>3. /\ advance \in [Lanes -> Nat] /\ moves \in [Lanes -> Nat]
      /\ \A m \in Lanes : advance[m] = draft[m] + 1 /\ draft[m] \in Nat
                          /\ (moves[m] = advance[m] \/ moves[m] = 0) /\ moves[m] \in Nat
  <2>1. \A m \in Lanes : draft[m] \in Nat
    BY Constants DEF IInv, Typed
  <2>2. Still \in [Lanes -> Nat] /\ \A m \in Lanes : Still[m] = 0
    BY DEF Still
  <2>3. advance \in [Lanes -> Nat] /\ \A m \in Lanes : advance[m] = draft[m] + 1
    BY <2>1
  <2> HIDE DEF advance
  <2> QED BY <2>1, <2>2, <2>3
<1>4. "proposer" \in Pools /\ "target" \in Pools
  BY DEF Pools
<1>5. tables \in [Lanes -> Table] /\ Typed /\ \A m \in Lanes : Backed(tables[m])
  BY <1>4 DEF IInv, Typed, Tables, AllBacked
<1>6. ASSUME NEW m \in batch
      PROVE  /\ m \in Lanes /\ Base(m) \in Nat /\ draft[m] \in Nat
             /\ TargetStage(m) /\ (kind = "exact" => ExactStage(m))
             /\ (kind = "parallel" => ParallelStage(m))
             /\ tables[m].cursor = Base(m)
             /\ m \notin todo => Room(tables[m].blocks, Base(m) + draft[m] + 1)
  <2>1. /\ m \in Lanes /\ Base(m) \in Nat /\ draft[m] \in Nat
        /\ TargetStage(m) /\ (kind = "exact" => ExactStage(m))
        /\ (kind = "parallel" => ParallelStage(m))
    BY <1>1, CallIs DEF IInv, Stages
  <2> QED BY <1>1, <2>1 DEF TargetStage
<1> HIDE DEF advance, moves
<1>7. ASSUME NEW m \in batch, m \notin todo
      PROVE  Room(tables[m].blocks, tables[m].cursor + moves[m])
  <2>1. PICK c \in Nat, d \in Nat : c = Base(m) /\ d = draft[m] /\ c = tables[m].cursor /\ m \in Lanes
    BY <1>6
  <2>2. Room(tables[m].blocks, c + d + 1)
    BY <1>6, <1>7, <2>1
  <2>3. Room(tables[m].blocks, c + 0)
    BY <1>5, <2>1 DEF Backed, Room
  <2>4. moves[m] = 0 \/ moves[m] = d + 1
    BY <1>3, <2>1
  <2>5. c + d + 1 = c + (d + 1)
    OBVIOUS
  <2> QED BY <2>1, <2>2, <2>3, <2>4, <2>5
<1>8. Stores' /\ Stepped(tables, after, l, batch, advance, moves)
  <2>1. todo = {l} => \A m \in Lanes : m \in batch /\ m # l =>
          Room(tables[m].blocks, tables[m].cursor + moves[m])
    BY <1>7
  <2>2. moves[l] <= advance[l]
    BY <1>3
  <2>3. PICK lanes : lanes = batch
    OBVIOUS
  <2> HIDE DEF tables
  <2>4. Stores' /\ Stepped(tables, after, l, lanes, advance, moves)
    BY <1>2, <1>3, <1>4, <1>5, <2>1, <2>2, <2>3, ExecutionStep
  <2> QED BY <2>3, <2>4
<1>9. /\ Typed' /\ AllBacked' /\ Paired' /\ Live' = Live
      /\ shadow'["target"] = after /\ shadow'["proposer"] = shadow["proposer"]
      /\ \A m \in Lanes : Base(m)' = Base(m)
  <2>1. noted' \in [Pools -> SUBSET Blocks] /\ step' \in Nat
    BY <1>1 DEF IInv, Typed
  <2>2. after \in [Lanes -> Table] /\ \A m \in Lanes : Backed(after[m])
    BY <1>8 DEF Stepped
  <2> QED BY <1>1, <1>2, <1>4, <1>8, <2>1, <2>2, NewShadows
<1>10. \/ todo # {l} /\ pc' = "verify" /\ todo' = todo \ {l}
       \/ todo = {l} /\ pc' = "catchup" /\ todo' = Behind /\ kind = "exact"
       \/ todo = {l} /\ pc' = "truncate" /\ todo' = batch /\ (kind = "exact" => Behind = {})
  BY <1>1, DoneIs DEF Verify, AfterVerify
<1>11. Behind' = Behind /\ Behind \subseteq batch
  BY <1>1 DEF Behind
<1>12. Control'
  BY <1>1, <1>9, <1>10, <1>11 DEF IInv, Control
<1>13. ASSUME NEW m \in batch
       PROVE  /\ TargetStage(m)' /\ (kind = "exact" => ExactStage(m)')
              /\ (kind = "parallel" => ParallelStage(m)')
  <2>1. PICK c \in Nat, d \in Nat : c = Base(m) /\ d = draft[m] /\ c = tables[m].cursor /\ m \in Lanes
    BY <1>6
  <2>2. m \notin todo \ {l} => Room(after[m].blocks, c + d + 1)
    <3>1. CASE m = l
      <4>1. Room(after[m].blocks, c + (d + 1))
        BY <1>3, <1>8, <2>1, <3>1 DEF Stepped
      <4>2. c + (d + 1) = c + d + 1
        OBVIOUS
      <4> QED BY <4>1, <4>2
    <3>2. CASE m # l
      <4>1. after[m].blocks = tables[m].blocks
        BY <1>8, <2>1, <3>2 DEF Stepped
      <4> QED BY <1>6, <2>1, <3>2, <4>1
    <3> QED BY <3>1, <3>2
  <2>3. todo # {l} => after[m].cursor = c
    <3>1. todo # {l} => after[m].cursor = c + 0
      BY <1>8, <2>1 DEF Stepped
    <3> QED BY <3>1
  <2>4. TargetStage(m)'
    <3>1. Base(m)' = c /\ draft'[m] = d /\ shadow'["target"][m] = after[m]
      BY <1>1, <1>9, <2>1
    <3> QED BY <1>10, <2>2, <2>3, <3>1 DEF TargetStage, Settled, Unsettled
  <2>5. kind = "exact" => ExactStage(m)'
    BY <1>1, <1>6, <1>9, <1>10, <1>11 DEF ExactStage, Settled, Unsettled
  <2>6. kind = "parallel" => ParallelStage(m)'
    BY <1>1, <1>6, <1>9, <1>10 DEF ParallelStage
  <2> QED BY <2>4, <2>5, <2>6
<1>14. Stages'
  BY <1>1, <1>13 DEF Stages
<1> QED BY <1>9, <1>12, <1>14 DEF IInv

\* Whole blocks of n tokens.
LEMMA WholeBlocks ==
  ASSUME NEW k \in Nat, NEW n \in Nat, n <= k * BlockSize
  PROVE  n \div BlockSize \in Nat /\ n \div BlockSize <= k
<1>1. PICK d \in Nat \ {0} : d = BlockSize
  BY Constants
<1>2. n \div d \in Nat /\ d * (n \div d) <= n
  OBVIOUS
<1>3. PICK r \in Nat : r = n \div d /\ d * r <= n
  BY <1>2
<1>4. d * r <= d * k
  BY <1>1, <1>3
<1>5. r <= k
  BY <1>4
<1> QED BY <1>1, <1>3, <1>5

\* The blocks noted for publication are blocks of the table.
LEMMA CompletedIs ==
  ASSUME NEW p \in Pools, NEW l \in Lanes, NEW table \in Table, NEW n \in Nat,
         canonical[p][l].cursor \in Nat,
         canonical[p][l].cursor + n <= Len(table.blocks) * BlockSize
  PROVE  Completed(p, l, table, n) \subseteq Blocks
<1>1. PICK c \in Nat, s \in Seq(Blocks), k \in Nat :
        c = canonical[p][l].cursor /\ s = table.blocks /\ k = Len(s)
  BY DEF Table
<1>2. c + n <= k * BlockSize
  BY <1>1
<1>3. (c + n) \div BlockSize \in Nat /\ (c + n) \div BlockSize <= k
  BY <1>2, WholeBlocks
<1>4. 0 <= c \div BlockSize /\ c \div BlockSize \in Nat
  <2>1. \A a \in Nat, d \in Nat \ {0} : a \div d \in Nat
    OBVIOUS
  <2> QED BY <2>1, Constants
<1>5. \A i \in c \div BlockSize + 1 .. (c + n) \div BlockSize : i \in 1 .. k
  BY <1>3, <1>4
<1>6. \A i \in 1 .. k : s[i] \in Blocks
  BY <1>1
<1> QED BY <1>1, <1>5, <1>6 DEF Completed

LEMMA StepReplay ==
  ASSUME IInv, NEW l \in Lanes, Replay(l)
  PROVE  IInv'
<1> DEFINE tables == shadow["proposer"]
<1>1. /\ pc = "replay" /\ l \in todo /\ l \in batch /\ kind = "parallel" /\ Turn(l)
      /\ batch \subseteq Lanes /\ token' = IF todo = {l} THEN "complete" ELSE token
      /\ UNCHANGED <<canonical, drafted, old, kind, batch, draft, page, step, released>>
  BY DEF Replay, IInv, Control, Typed, Turn, callVars, Live
<1>2. PICK after : /\ after = Executed("proposer", tables, l, batch, page, page)
                   /\ Execution("proposer", tables, after, l, page, page)
                   /\ shadow' = [shadow EXCEPT !["proposer"] = after]
                   /\ noted' = [noted EXCEPT !["proposer"] =
                        noted["proposer"] \cup Completed("proposer", l, after[l], page[l])]
  BY DEF Replay
<1>3. page \in [Lanes -> Nat] /\ \A m \in Lanes : page[m] \in Nat
  BY Constants DEF IInv, Typed
<1>4. "proposer" \in Pools /\ "target" \in Pools
  BY DEF Pools
<1>5. tables \in [Lanes -> Table] /\ Typed /\ \A m \in Lanes : Backed(tables[m])
  BY <1>4 DEF IInv, Typed, Tables, AllBacked
<1>6. ASSUME NEW m \in batch
      PROVE  /\ m \in Lanes /\ Base(m) \in Nat /\ canonical["proposer"][m].cursor = Base(m)
             /\ TargetStage(m) /\ ParallelStage(m)
             /\ tables[m].cursor = Base(m)
             /\ m \notin todo => Room(tables[m].blocks, tables[m].cursor + page[m])
  <2>1. m \in Lanes /\ Base(m) \in Nat /\ TargetStage(m) /\ ParallelStage(m)
        /\ canonical["proposer"][m].cursor = Base(m)
    BY <1>1, CallIs DEF IInv, Stages
  <2> QED BY <1>1, <2>1 DEF ParallelStage
<1>7. Stores' /\ Stepped(tables, after, l, batch, page, page)
  <2>1. todo = {l} => \A m \in Lanes : m \in batch /\ m # l =>
          Room(tables[m].blocks, tables[m].cursor + page[m])
    BY <1>6
  <2>2. page[l] <= page[l]
    BY <1>3
  <2>3. PICK lanes, advance : lanes = batch /\ advance = page
    OBVIOUS
  <2> HIDE DEF tables
  <2>4. Stores' /\ Stepped(tables, after, l, lanes, advance, advance)
    BY <1>2, <1>3, <1>4, <1>5, <2>1, <2>2, <2>3, ExecutionStep
  <2> QED BY <2>3, <2>4
<1>8. after \in [Lanes -> Table] /\ \A m \in Lanes : Backed(after[m])
  BY <1>7 DEF Stepped
<1>9. noted' \in [Pools -> SUBSET Blocks]
  <2>1. Room(after[l].blocks, Base(l) + page[l])
    BY <1>1, <1>6, <1>7 DEF Stepped
  <2>2. after[l] \in Table /\ page[l] \in Nat
    BY <1>3, <1>8
  <2>3. canonical["proposer"][l].cursor \in Nat
        /\ canonical["proposer"][l].cursor + page[l] <= Len(after[l].blocks) * BlockSize
    BY <1>1, <1>6, <2>1 DEF Room
  <2>4. Completed("proposer", l, after[l], page[l]) \subseteq Blocks
    BY <1>4, <2>2, <2>3, CompletedIs
  <2> QED BY <1>2, <1>5, <2>4 DEF Typed
<1>10. /\ Typed' /\ AllBacked' /\ Paired' /\ Live' = Live
       /\ shadow'["proposer"] = after /\ shadow'["target"] = shadow["target"]
       /\ \A m \in Lanes : Base(m)' = Base(m)
  <2>1. step' \in Nat
    BY <1>1 DEF IInv, Typed
  <2> QED BY <1>1, <1>2, <1>4, <1>7, <1>8, <1>9, <2>1, NewShadows
<1>11. \/ todo # {l} /\ pc' = "replay" /\ todo' = todo \ {l} /\ token' = token
       \/ todo = {l} /\ pc' = "arbitrate" /\ todo' = {} /\ token' = "complete"
  BY <1>1, DoneIs DEF Replay
<1>12. Control'
  BY <1>1, <1>10, <1>11 DEF IInv, Control
<1>13. ASSUME NEW m \in batch
       PROVE  TargetStage(m)' /\ ParallelStage(m)'
  <2>1. TargetStage(m)'
    BY <1>1, <1>6, <1>10, <1>11 DEF TargetStage, Settled, Unsettled
  <2>2. CASE todo # {l} /\ pc' = "replay" /\ todo' = todo \ {l}
    <3>1. after[m].cursor = tables[m].cursor
      <4>1. after[m].cursor = tables[m].cursor + 0
        BY <1>6, <1>7, <2>2 DEF Stepped
      <4> QED BY <1>6, <4>1
    <3>2. m \notin todo' => Room(after[m].blocks, after[m].cursor + page[m])
      <4>1. CASE m = l
        BY <1>7, <3>1, <4>1 DEF Stepped
      <4>2. CASE m # l
        <5>1. after[m].blocks = tables[m].blocks
          BY <1>6, <1>7, <4>2 DEF Stepped
        <5> QED BY <1>6, <2>2, <3>1, <4>2, <5>1
      <4> QED BY <4>1, <4>2
    <3> QED BY <1>1, <1>6, <1>10, <2>1, <2>2, <3>1, <3>2 DEF ParallelStage
  <2>3. CASE todo = {l} /\ pc' = "arbitrate"
    <3>1. after[m].cursor = Base(m) + page[m]
      BY <1>6, <1>7, <2>3 DEF Stepped
    <3> QED BY <1>1, <1>6, <1>10, <2>1, <2>3, <3>1 DEF ParallelStage
  <2> QED BY <1>11, <2>2, <2>3
<1>14. Stages'
  BY <1>1, <1>13 DEF Stages
<1> QED BY <1>10, <1>12, <1>14 DEF IInv

-----------------------------------------------------------------------------
(* The cut at the emitted tokens.                                          *)

\* The tokens a page keeps are among those the shadow has room for.
LEMMA PageFits ==
  ASSUME IInv, pc = "truncate", NEW l \in todo, NEW p \in CutPools
  PROVE  /\ p \in Pools /\ l \in batch /\ l \in Lanes
         /\ canonical[p][l].cursor \in Nat /\ page[l] \in Nat
         /\ canonical[p][l].cursor = Base(l)
         /\ Room(shadow[p][l].blocks, canonical[p][l].cursor + page[l])
<1>1. l \in batch /\ kind \in Kinds
  BY DEF IInv, Control, Typed
<1>2. kind \in {"exact", "history", "parallel"}
  BY <1>1, Constants
<1>3. p \in Pools /\ (p = "target" \/ (p = "proposer" /\ kind = "exact"))
  BY <1>2 DEF CutPools, PoolsOf, Pools
<1>4. /\ l \in Lanes /\ Base(l) \in Nat /\ draft[l] \in Nat /\ page[l] \in Nat
      /\ page[l] <= draft[l] + 1 /\ canonical[p][l].cursor = Base(l)
  BY <1>1, <1>3, CallIs
<1>5. PICK c \in Nat, d \in Nat, n \in Nat : c = Base(l) /\ d = draft[l] /\ n = page[l] /\ n <= d + 1
  BY <1>4
<1>6. TargetStage(l) /\ (kind = "exact" => ExactStage(l)) /\ Unsettled(l)
  BY <1>1 DEF IInv, Stages, Unsettled
<1>7. shadow[p][l] \in Table /\ Backed(shadow[p][l])
  BY <1>3, <1>4 DEF IInv, Typed, Tables, AllBacked
<1>8. PICK k \in Nat : k = Len(shadow[p][l].blocks)
  BY <1>7 DEF Table
<1>9. PICK m \in Nat : m = k * BlockSize
  BY Constants
<1>10. MaxTokens \in Nat
  BY Constants
<1>11. ASSUME Room(shadow[p][l].blocks, c + d + 1)
       PROVE  c + n <= m /\ (Unwindowed => c + n <= MaxTokens)
  <2>1. c + d + 1 <= m /\ (Unwindowed => c + d + 1 <= MaxTokens)
    BY <1>8, <1>9, <1>11 DEF Room
  <2>2. n <= d + 1
    BY <1>5
  <2> QED BY <1>10, <2>1, <2>2
<1>12. c + n <= m /\ (Unwindowed => c + n <= MaxTokens)
  <2>1. CASE p = "target"
    <3>1. Room(shadow[p][l].blocks, c + d + 1)
      BY <1>5, <1>6, <2>1 DEF TargetStage
    <3> QED BY <1>11, <3>1
  <2>2. CASE p = "proposer" /\ kind = "exact" /\ l \in Behind
    <3>1. Room(shadow[p][l].blocks, c + d + 1)
      BY <1>5, <1>6, <2>2 DEF ExactStage
    <3> QED BY <1>11, <3>1
  <2>3. CASE p = "proposer" /\ kind = "exact" /\ l \notin Behind
    <3>1. shadow[p][l].cursor = c + d
      BY <1>5, <1>6, <2>3 DEF ExactStage
    <3>2. c + d <= m /\ (Unwindowed => c + d <= MaxTokens)
      BY <1>7, <1>8, <1>9, <3>1 DEF Backed
    <3>3. n # d + 1
      BY <1>1, <1>5, <2>3 DEF Behind
    <3>4. n <= d
      BY <1>5, <3>3
    <3> QED BY <1>10, <3>2, <3>4
  <2> QED BY <1>3, <2>1, <2>2, <2>3
<1> QED BY <1>1, <1>3, <1>4, <1>5, <1>8, <1>9, <1>12 DEF Room

\* The blocks of the page are all there.
LEMMA NeededIs ==
  ASSUME IInv, pc = "truncate", NEW l \in todo, NEW p \in CutPools
  PROVE  Needed(p, l) \in Nat /\ Needed(p, l) <= Len(shadow[p][l].blocks)
<1>1. PICK c \in Nat, n \in Nat : c = canonical[p][l].cursor /\ n = page[l]
                                  /\ Room(shadow[p][l].blocks, c + n)
  BY PageFits
<1>2. shadow[p][l] \in Table
  BY PageFits DEF IInv, Typed, Tables
<1>3. PICK k \in Nat : k = Len(shadow[p][l].blocks) /\ c + n <= k * BlockSize
  BY <1>1, <1>2 DEF Table, Room
<1>4. BlocksFor(c + n) \in Nat /\ BlocksFor(c + n) <= k
  <2>1. PICK x \in Nat : x = c + n
    OBVIOUS
  <2>2. BlocksFor(x) \in Nat /\ BlocksFor(x) <= k
    BY <1>3, <2>1, BlocksReach
  <2> QED BY <2>1, <2>2
<1> QED BY <1>1, <1>3, <1>4 DEF Needed

LEMMA CutIs ==
  ASSUME IInv, pc = "truncate", NEW l \in todo, NEW p \in CutPools
  PROVE  /\ Cut(p, l) \in Table /\ Backed(Cut(p, l)) /\ Cut(p, l).cursor = Base(l) + page[l]
         /\ Cut(p, l).blocks = SubSeq(shadow[p][l].blocks, 1, Needed(p, l))
<1>1. PICK c \in Nat, n \in Nat : c = canonical[p][l].cursor /\ n = page[l] /\ c = Base(l)
                                  /\ Room(shadow[p][l].blocks, c + n)
  BY PageFits
<1>2. shadow[p][l] \in Table /\ Backed(shadow[p][l])
  BY PageFits DEF IInv, Typed, Tables, AllBacked
<1>3. PICK t \in Table : t = shadow[p][l] /\ Backed(t)
  BY <1>2
<1>4. PICK k \in Nat : k = Needed(p, l) /\ k <= Len(t.blocks)
  BY <1>3, NeededIs
<1>5. PICK s \in Seq(Blocks) : s = SubSeq(t.blocks, 1, k) /\ Len(s) = k
  <2>1. t.blocks \in Seq(Blocks)
    BY DEF Table
  <2>2. PICK bs \in Seq(Blocks) : bs = t.blocks
    BY <2>1
  <2>3. SubSeq(bs, 1, k) \in Seq(Blocks) /\ Len(SubSeq(bs, 1, k)) = k
    BY <1>4, <2>2
  <2> QED BY <2>2, <2>3
<1>6. c + n <= k * BlockSize
  <2>1. PICK x \in Nat : x = c + n
    OBVIOUS
  <2>2. k = BlocksFor(x)
    BY <1>1, <1>4, <2>1 DEF Needed
  <2>3. x <= k * BlockSize
    BY <2>2, BlocksReach
  <2> QED BY <2>1, <2>3
<1>7. Cut(p, l) = [t EXCEPT !.blocks = s, !.cursor = c + n]
  BY <1>1, <1>3, <1>4, <1>5 DEF Cut
<1>8. PICK u : u = Cut(p, l)
  OBVIOUS
<1>9. u \in Table /\ u.blocks = s /\ u.cursor = c + n /\ u.head = t.head
  <2>1. c + n \in Nat
    OBVIOUS
  <2> QED BY <1>7, <1>8, <2>1 DEF Table
<1>10. Backed(u)
  BY <1>1, <1>3, <1>5, <1>6, <1>9 DEF Backed, Room
<1> QED BY <1>1, <1>3, <1>4, <1>5, <1>8, <1>9, <1>10

LEMMA StepTruncate ==
  ASSUME IInv, NEW l \in Lanes, Truncate(l)
  PROVE  IInv'
<1>1. /\ pc = "truncate" /\ l \in todo /\ l \in batch /\ Turn(l) /\ kind \in Kinds
      /\ UNCHANGED <<canonical, drafted, old, kind, batch, draft, page, step, token, released>>
  BY DEF Truncate, IInv, Control, Typed, Turn, callVars
<1>2. /\ kind \in {"exact", "history", "parallel"} /\ CutPools \subseteq Pools
      /\ "target" \in CutPools /\ (kind = "exact" => "proposer" \in CutPools)
      /\ (kind = "parallel" => "proposer" \notin CutPools)
      /\ "proposer" \in Pools /\ "target" \in Pools
  <2>1. kind \in {"exact", "history", "parallel"}
    BY <1>1, Constants
  <2> QED BY <2>1 DEF CutPools, PoolsOf, Pools
<1>3. \A p \in CutPools :
        /\ Cut(p, l) \in Table /\ Backed(Cut(p, l)) /\ Cut(p, l).cursor = Base(l) + page[l]
  BY <1>1, CutIs
<1>4. shadow' = [p \in Pools |-> IF p \notin CutPools THEN shadow[p]
                                  ELSE [shadow[p] EXCEPT ![l] = Cut(p, l)]]
  BY DEF Truncate
<1>5. /\ shadow' \in Tables
      /\ \A p \in Pools, m \in Lanes :
           shadow'[p][m] = IF p \in CutPools /\ m = l THEN Cut(p, l) ELSE shadow[p][m]
  BY <1>3, <1>4 DEF IInv, Typed, Tables
<1>6. Stores'
  <2> DEFINE blocks == [p \in Pools |-> IF p \notin CutPools THEN <<>>
                          ELSE LET bs == shadow[p][l].blocks
                               IN  SubSeq(bs, Needed(p, l) + 1, Len(bs))]
  <2>1. \A s \in Seq(Blocks), h \in Nat : SubSeq(s, h + 1, Len(s)) \in Seq(Blocks)
    OBVIOUS
  <2>2. \A p \in CutPools : Needed(p, l) \in Nat /\ shadow[p][l].blocks \in Seq(Blocks)
    <3> SUFFICES ASSUME NEW p \in CutPools
                 PROVE  Needed(p, l) \in Nat /\ shadow[p][l].blocks \in Seq(Blocks)
      OBVIOUS
    <3>1. Needed(p, l) \in Nat
      BY <1>1, NeededIs
    <3>2. shadow[p][l] \in Table
      BY <1>1, <1>2 DEF IInv, Typed, Tables
    <3> QED BY <3>1, <3>2 DEF Table
  <2>3. \A p \in CutPools : SubSeq(shadow[p][l].blocks, Needed(p, l) + 1, Len(shadow[p][l].blocks))
                              \in Seq(Blocks)
    BY <2>1, <2>2
  <2>4. blocks \in [Pools -> Seq(Blocks)]
    BY <2>3
  <2>5. Unref(blocks) /\ Typed
    BY DEF Truncate, IInv
  <2> HIDE DEF blocks
  <2> QED BY <2>4, <2>5, UnrefTyped
<1>7. noted' \in [Pools -> SUBSET Blocks]
  <2>1. ASSUME NEW p \in CutPools PROVE Completed(p, l, shadow[p][l], page[l]) \subseteq Blocks
    <3>1. /\ p \in Pools /\ canonical[p][l].cursor \in Nat /\ page[l] \in Nat
          /\ Room(shadow[p][l].blocks, canonical[p][l].cursor + page[l])
      BY <1>1, PageFits
    <3>2. shadow[p][l] \in Table
      BY <3>1 DEF IInv, Typed, Tables
    <3>3. canonical[p][l].cursor + page[l] <= Len(shadow[p][l].blocks) * BlockSize
      BY <3>1 DEF Room
    <3> QED BY <3>1, <3>2, <3>3, CompletedIs
  <2>2. noted' = [p \in Pools |-> noted[p] \cup
          IF p \in CutPools THEN Completed(p, l, shadow[p][l], page[l]) ELSE {}]
    BY DEF Truncate
  <2> QED BY <2>1, <2>2 DEF IInv, Typed
<1>8. Typed'
  BY <1>1, <1>5, <1>6, <1>7 DEF IInv, Typed
<1>9. AllBacked'
  BY <1>1, <1>3, <1>5 DEF IInv, AllBacked
<1>10. Live' = Live /\ Paired' /\ \A m \in Lanes : Base(m)' = Base(m)
  BY <1>1 DEF IInv, Paired, Live, Base
<1>11. \/ todo # {l} /\ pc' = "truncate" /\ todo' = todo \ {l}
       \/ todo = {l} /\ pc' = "replay" /\ todo' = batch /\ kind = "parallel"
       \/ todo = {l} /\ pc' = "arbitrate" /\ todo' = {} /\ kind # "parallel"
  <2>1. CASE kind = "parallel"
    BY <1>1, <2>1, DoneIs DEF Truncate
  <2>2. CASE kind # "parallel"
    BY <1>1, <2>2, DoneIs DEF Truncate
  <2> QED BY <2>1, <2>2
<1>12. Control'
  BY <1>1, <1>10, <1>11 DEF IInv, Control
<1>13. ASSUME NEW m \in batch
       PROVE  /\ TargetStage(m)' /\ (kind = "exact" => ExactStage(m)')
              /\ (kind = "parallel" => ParallelStage(m)')
  <2>1. /\ m \in Lanes /\ TargetStage(m) /\ (kind = "exact" => ExactStage(m))
        /\ (kind = "parallel" => ParallelStage(m))
    BY CallIs DEF IInv, Stages
  <2>2. Base(m)' = Base(m) /\ page'[m] = page[m] /\ draft'[m] = draft[m] /\ Behind' = Behind
    BY <1>1, <1>10, <2>1 DEF Behind
  <2>3. CASE m = l
    <3>1. /\ shadow'["target"][m].cursor = Base(m) + page[m]
          /\ kind = "exact" => shadow'["proposer"][m].cursor = Base(m) + page[m]
          /\ kind = "parallel" => shadow'["proposer"][m] = shadow["proposer"][m]
      BY <1>2, <1>3, <1>5, <2>3
    <3>2. m \notin todo' \/ pc' = "replay"
      BY <1>11, <2>3
    <3>3. TargetStage(m)'
      BY <1>11, <2>2, <3>1, <3>2 DEF TargetStage, Settled, Unsettled
    <3>4. kind = "exact" => ExactStage(m)'
      BY <1>11, <2>2, <3>1, <3>2 DEF ExactStage, Settled, Unsettled
    <3>5. kind = "parallel" => ParallelStage(m)'
      BY <1>1, <1>11, <2>1, <2>2, <3>1 DEF ParallelStage
    <3> QED BY <3>3, <3>4, <3>5
  <2>4. CASE m # l
    <3>1. shadow'["target"][m] = shadow["target"][m] /\ shadow'["proposer"][m] = shadow["proposer"][m]
      BY <1>2, <1>5, <2>1, <2>4
    <3>2. TargetStage(m)'
      BY <1>1, <1>11, <2>1, <2>2, <2>4, <3>1 DEF TargetStage, Settled, Unsettled
    <3>3. kind = "exact" => ExactStage(m)'
      BY <1>1, <1>11, <2>1, <2>2, <2>4, <3>1 DEF ExactStage, Settled, Unsettled
    <3>4. kind = "parallel" => ParallelStage(m)'
      BY <1>1, <1>11, <2>1, <2>2, <3>1 DEF ParallelStage
    <3> QED BY <3>2, <3>3, <3>4
  <2> QED BY <2>3, <2>4
<1>14. Stages'
  BY <1>1, <1>13 DEF Stages
<1> QED BY <1>8, <1>9, <1>10, <1>12, <1>14 DEF IInv

-----------------------------------------------------------------------------
(* Theorems.                                                               *)

LEMMA StepStutter ==
  ASSUME IInv, UNCHANGED vars
  PROVE  IInv'
<1>1. UNCHANGED <<free, refcounts, hashed, canonical, shadow, drafted, old, kind, pc, todo,
                  batch, draft, page, step, noted, token, released>>
  BY DEF vars, storeVars, tableVars, callVars
<1>2. Typed' /\ AllBacked' /\ Paired'
  BY <1>1 DEF IInv, Typed, Stores, AllBacked, Paired
<1>3. Control'
  BY <1>1 DEF IInv, Control, Live, Drafting, Behind
<1>4. Stages'
  BY <1>1 DEF IInv, Stages, TargetStage, ExactStage, ParallelStage, Settled, Unsettled,
              Base, Drafting, Behind
<1> QED BY <1>2, <1>3, <1>4 DEF IInv

LEMMA StepNext ==
  IInv /\ [Next]_vars => IInv'
<1> SUFFICES ASSUME IInv, [Next]_vars PROVE IInv'
  OBVIOUS
<1>1. CASE UNCHANGED vars
  BY <1>1, StepStutter
<1>2. ASSUME NEW l \in Lanes, Clone(l) \/ DraftStep(l) \/ Copy(l) \/ DraftBlock(l) \/ DropDraft(l)
      PROVE  IInv'
  BY <1>2, StepClone, StepDraftStep, StepCopy, StepDraftBlock, StepDropDraft
<1>3. ASSUME NEW l \in Lanes,
             Verify(l) \/ Catchup(l) \/ Truncate(l) \/ Replay(l) \/ DropOld(l) \/ Discard(l)
      PROVE  IInv'
  BY <1>3, StepVerify, StepCatchup, StepTruncate, StepReplay, StepDropOld, StepDiscard
<1>4. CASE Commit
  BY <1>4, StepCommit
<1>5. CASE Arbitrate \/ Publish \/ Fail \/ Cancel \/ \E l \in Lanes : Release(l)
  BY <1>5, StepPlain
<1>6. ASSUME NEW lanes \in SUBSET Lanes, Begin(lanes) PROVE IInv'
  BY <1>6, StepBegin
<1>7. ASSUME NEW l \in Lanes, NEW n \in Prompts, Admit(l, n) PROVE IInv'
  BY <1>7, StepAdmit
<1>8. ASSUME NEW l \in Lanes, ReturnBlocks(l) PROVE IInv'
  BY <1>8, StepReturnBlocks
<1> QED BY <1>1, <1>2, <1>3, <1>4, <1>5, <1>6, <1>7, <1>8 DEF Next, RoundStep

LEMMA SpecInv == Spec => []IInv
BY SpecInit, StepNext, PTL DEF Spec

\* Target and proposer of a sequence have always seen the same tokens, whatever the
\* rounds accepted, failed or cancelled half way: the cut of the verifier's and of
\* the proposer's shadow, the catch-up and the replay leave equal cursors.
THEOREM CursorsPaired == Spec => []Paired
BY SpecInv, PTL DEF IInv

\* drain(needed..) never panics: when a shadow is cut at the emitted tokens, it has
\* the blocks they need, even when every candidate was accepted.
THEOREM CutCovered == Spec => []Covered
<1>1. IInv => Covered
  BY NeededIs DEF Covered
<1> QED BY <1>1, SpecInv, PTL

\* A call reported as cancelled leaves every sequence of the round as it was: the
\* replacement of the canonical states comes after the arbitration was won.
THEOREM CancelledUntouched == Spec => CancelWins
<1>1. ASSUME IInv, [Next]_vars, token = "cancelled", NEW p \in Pools, NEW l \in batch
      PROVE  canonical'[p][l] = canonical[p][l]
  <2>1. pc # "commit" /\ l \in Live /\ l \in Lanes
    BY <1>1, CallIs DEF IInv, Control
  <2>2. ASSUME NEW m \in Lanes, NEW n \in Prompts, Admit(m, n)
        PROVE  canonical'[p][l] = canonical[p][l]
    BY <2>1, <2>2, <1>1 DEF Admit, IInv, Typed, Tables
  <2>3. ASSUME NEW m \in Lanes, ReturnBlocks(m)
        PROVE  canonical'[p][l] = canonical[p][l]
    BY <2>1, <2>3, <1>1 DEF ReturnBlocks, IInv, Typed, Tables
  <2>4. ASSUME NEW m \in Lanes, Clone(m) \/ DraftStep(m) \/ Copy(m) \/ DraftBlock(m) \/ DropDraft(m)
                                \/ Verify(m) \/ Catchup(m) \/ Truncate(m) \/ Replay(m)
                                \/ DropOld(m) \/ Discard(m) \/ Release(m)
        PROVE  canonical' = canonical
    BY <2>4 DEF Clone, DraftStep, Copy, DraftBlock, DropDraft, Verify, Catchup, Truncate, Replay,
                DropOld, Discard, Release, tableVars
  <2>5. CASE Arbitrate \/ Publish \/ Fail \/ Cancel \/ \E lanes \in SUBSET Lanes : Begin(lanes)
    BY <2>5 DEF Arbitrate, Publish, Fail, Cancel, Begin, tableVars
  <2>6. ~ Commit
    BY <2>1 DEF Commit
  <2>7. CASE UNCHANGED vars
    BY <2>7 DEF vars, tableVars
  <2> QED BY <1>1, <2>2, <2>3, <2>4, <2>5, <2>6, <2>7 DEF Next, RoundStep
<1>2. IInv /\ [Next]_vars => [token = "cancelled" =>
        \A p \in Pools, l \in batch : canonical'[p][l] = canonical[p][l]]_vars
  BY <1>1
<1> QED BY <1>2, SpecInv, PTL DEF Spec, CancelWins

LEMMA UnwindowedInv == Unwindowed /\ Spec => [](Unwindowed /\ IInv)
<1>1. Unwindowed /\ [Next]_vars => Unwindowed'
  BY DEF Unwindowed
<1> QED BY <1>1, SpecInv, PTL DEF Spec

\* Without sliding windows every variable keeps its range: no count goes negative,
\* no cursor passes the pool's capacity or the blocks of its table.
THEOREM TypeCorrect == Unwindowed /\ Spec => []TypeOK
<1>1. ASSUME Unwindowed, NEW t \in Table, Backed(t)
      PROVE  /\ ToSet(t.blocks) \subseteq Blocks /\ t.cursor \in 0 .. MaxTokens
             /\ t.head \in 0 .. Len(t.blocks) /\ t.cursor <= Len(t.blocks) * BlockSize
  <2>1. t.blocks \in Seq(Blocks) /\ t.cursor \in Nat /\ Len(t.blocks) \in Nat
    BY DEF Table
  <2>2. ToSet(t.blocks) \subseteq Blocks
    BY <2>1 DEF ToSet
  <2> QED BY <1>1, <2>1, <2>2, Constants DEF Backed
<1>2. ASSUME Unwindowed, IInv PROVE TypeOK
  <2>1. \A p \in Pools, l \in Lanes :
          \A t \in {canonical[p][l], shadow[p][l], drafted[l], old[p][l]} : t \in Table /\ Backed(t)
    BY <1>2 DEF IInv, Typed, Tables, AllBacked
  <2>2. step \in 0 .. MaxDraft
    BY <1>2, Constants DEF IInv, Typed, Control
  <2>3. batch \subseteq Lanes /\ todo \subseteq batch
    BY <1>2 DEF IInv, Control, Live
  <2>4. \A p \in Pools, l \in Lanes :
          \A t \in {canonical[p][l], shadow[p][l], drafted[l], old[p][l]} :
            /\ ToSet(t.blocks) \subseteq Blocks /\ t.cursor \in 0 .. MaxTokens
            /\ t.head \in 0 .. Len(t.blocks) /\ t.cursor <= Len(t.blocks) * BlockSize
    BY <1>1, <1>2, <2>1
  <2> QED BY <1>2, <2>2, <2>3, <2>4 DEF TypeOK, IInv, Typed, Stores, Control
<1>3. Unwindowed /\ IInv => TypeOK
  BY <1>2
<1> QED BY <1>3, UnwindowedInv, PTL

-----------------------------------------------------------------------------
(* Counting the places of a block.                                         *)

LEMMA TimesEmpty == \A b : Times(b, <<>>) = 0
<1> TAKE b
<1>1. {i \in DOMAIN <<>> : <<>>[i] = b} = {}
  OBVIOUS
<1> QED BY <1>1, FS_EmptySet DEF Times

LEMMA TimesConcat ==
  ASSUME NEW s \in Seq(Blocks), NEW t \in Seq(Blocks), NEW b
  PROVE  Times(b, s \o t) = Times(b, s) + Times(b, t)
<1>1. PICK m \in Nat, n \in Nat : m = Len(s) /\ n = Len(t) /\ DOMAIN s = 1 .. m /\ DOMAIN t = 1 .. n
  OBVIOUS
<1>2. PICK u : /\ u = s \o t /\ DOMAIN u = 1 .. m + n
               /\ \A i \in 1 .. m + n : u[i] = IF i <= m THEN s[i] ELSE t[i - m]
  <2>1. PICK u \in Seq(Blocks) : u = s \o t
    BY ConcatProperties
  <2>2. Len(u) = m + n /\ \A i \in 1 .. m + n : u[i] = IF i <= m THEN s[i] ELSE t[i - m]
    BY <1>1, <2>1, ConcatProperties
  <2>3. DOMAIN u = 1 .. Len(u)
    OBVIOUS
  <2> QED BY <2>1, <2>2, <2>3
<1> DEFINE A == {i \in 1 .. m : s[i] = b}
           B == {i \in 1 .. n : t[i] = b}
           C == {i \in m + 1 .. m + n : t[i - m] = b}
           f == [i \in B |-> i + m]
<1>3. /\ A = {i \in DOMAIN s : s[i] = b} /\ B = {i \in DOMAIN t : t[i] = b}
      /\ IsFiniteSet(A) /\ IsFiniteSet(B)
  BY <1>1, TimesNat
<1>4. f \in Bijection(B, C)
  <2>1. f \in [B -> C]
    <3> SUFFICES ASSUME NEW i \in B PROVE i + m \in C
      OBVIOUS
    <3>1. i + m \in m + 1 .. m + n /\ (i + m) - m = i
      OBVIOUS
    <3> QED BY <3>1
  <2>2. \A i, j \in B : f[i] = f[j] => i = j
    OBVIOUS
  <2>3. \A c \in C : \E i \in B : f[i] = c
    <3> TAKE c \in C
    <3>1. c - m \in B /\ (c - m) + m = c
      OBVIOUS
    <3> QED BY <3>1
  <2> HIDE DEF f, B, C
  <2> QED BY <2>1, <2>2, <2>3 DEF Bijection, Injection, Surjection, IsInjective
<1>5. IsFiniteSet(C) /\ Cardinality(C) = Cardinality(B)
  <2> HIDE DEF f, B, C
  <2> QED BY <1>3, <1>4, FS_Bijection DEF ExistsBijection
<1>6. {i \in DOMAIN u : u[i] = b} = A \cup C /\ A \cap C = {}
  <2>1. \A i : (i \in DOMAIN u /\ u[i] = b) <=> i \in A \cup C
    <3> TAKE i
    <3>1. i \in 1 .. m + n <=> (i \in 1 .. m \/ i \in m + 1 .. m + n)
      OBVIOUS
    <3>2. CASE i \in 1 .. m
      BY <1>2, <3>1, <3>2
    <3>3. CASE i \in m + 1 .. m + n
      BY <1>2, <3>1, <3>3
    <3> QED BY <1>2, <3>1, <3>2, <3>3
  <2>2. A \cap C = {}
    OBVIOUS
  <2> HIDE DEF A, C
  <2> QED BY <2>1, <2>2
<1>7. Cardinality(A \cup C) = Cardinality(A) + Cardinality(C) - Cardinality(A \cap C)
  <2> HIDE DEF A, C
  <2> QED BY <1>3, <1>5, FS_Union
<1>8. Cardinality(A) \in Nat /\ Cardinality(C) \in Nat /\ Cardinality(A \cap C) = 0
  <2> HIDE DEF A, C
  <2> QED BY <1>3, <1>5, <1>6, FS_CardinalityType, FS_EmptySet
<1>9. Times(b, u) = Cardinality(A \cup C) /\ Times(b, s) = Cardinality(A)
      /\ Times(b, t) = Cardinality(B)
  BY <1>3, <1>6 DEF Times
<1> HIDE DEF A, B, C
<1> QED BY <1>2, <1>5, <1>7, <1>8, <1>9

LEMMA TimesCut ==
  ASSUME NEW s \in Seq(Blocks), NEW k \in Nat, k <= Len(s), NEW b
  PROVE  Times(b, s) = Times(b, SubSeq(s, 1, k)) + Times(b, SubSeq(s, k + 1, Len(s)))
<1>1. PICK x \in Seq(Blocks), y \in Seq(Blocks) :
        x = SubSeq(s, 1, k) /\ y = SubSeq(s, k + 1, Len(s))
  <2>1. SubSeq(s, 1, k) \in Seq(Blocks) /\ SubSeq(s, k + 1, Len(s)) \in Seq(Blocks)
    OBVIOUS
  <2> QED BY <2>1
<1>2. PICK n \in Nat : n = Len(s)
  OBVIOUS
<1>3. Len(x) = k /\ \A i \in 1 .. k : x[i] = s[i]
  BY <1>1
<1>4. Len(y) = n - k /\ \A i \in 1 .. n - k : y[i] = s[k + i]
  <2>1. Len(y) = n - k
    BY <1>1, <1>2
  <2>2. ASSUME NEW i \in 1 .. n - k PROVE y[i] = s[k + i]
    <3>1. y[i] = s[k + 1 + i - 1]
      BY <1>1, <1>2
    <3>2. k + 1 + i - 1 = k + i
      OBVIOUS
    <3> QED BY <3>1, <3>2
  <2> QED BY <2>1, <2>2
<1>5. /\ x \o y \in Seq(Blocks) /\ Len(x \o y) = n
      /\ \A i \in 1 .. n : (x \o y)[i] = IF i <= k THEN x[i] ELSE y[i - k]
  <2>1. k + (n - k) = n
    BY <1>2
  <2> QED BY <1>2, <1>3, <1>4, <2>1, ConcatProperties
<1>6. \A i \in 1 .. n : (x \o y)[i] = s[i]
  <2> TAKE i \in 1 .. n
  <2>1. CASE i <= k
    BY <1>3, <1>5, <2>1
  <2>2. CASE ~ (i <= k)
    <3>1. i - k \in 1 .. n - k /\ k + (i - k) = i
      BY <2>2
    <3> QED BY <1>4, <1>5, <2>2, <3>1
  <2> QED BY <2>1, <2>2
<1>7. x \o y = s
  <2>1. PICK u \in Seq(Blocks) : u = x \o y
    BY <1>5
  <2>2. Len(u) = Len(s) /\ \A i \in 1 .. Len(s) : u[i] = s[i]
    BY <1>2, <1>5, <1>6, <2>1
  <2>3. u = s
    BY <2>2, SeqEqual
  <2> QED BY <2>1, <2>3
<1>8. Times(b, x \o y) = Times(b, x) + Times(b, y)
  BY TimesConcat
<1> QED BY <1>1, <1>7, <1>8

LEMMA TimesOnce ==
  ASSUME NEW s \in Seq(Blocks), \A i, j \in DOMAIN s : s[i] = s[j] => i = j, NEW b
  PROVE  Times(b, s) = IF b \in ToSet(s) THEN 1 ELSE 0
<1>1. CASE b \in ToSet(s)
  <2>1. PICK i \in DOMAIN s : s[i] = b
    BY <1>1 DEF ToSet
  <2>2. {j \in DOMAIN s : s[j] = b} = {i}
    BY <2>1
  <2> QED BY <1>1, <2>2, FS_Singleton DEF Times
<1>2. CASE b \notin ToSet(s)
  <2>1. {j \in DOMAIN s : s[j] = b} = {}
    BY <1>2 DEF ToSet
  <2> QED BY <1>2, <2>1, FS_EmptySet DEF Times
<1> QED BY <1>1, <1>2

\* Slots of tables, and what the tables of all slots hold.
Slots == (1 .. 4) \X Lanes
Holdings == [Slots -> Seq(Blocks)]

\* The places of a block, those of one slot, and their number.
Spots(T, b) == {e \in Slots \X Nat : e[2] \in DOMAIN T[e[1]] /\ T[e[1]][e[2]] = b}
SlotSpots(T, s, b) == {s} \X {i \in DOMAIN T[s] : T[s][i] = b}
Count(T, b) == Cardinality(Spots(T, b))

LEMMA SlotSpotsIs ==
  ASSUME NEW T \in Holdings, NEW s \in Slots, NEW b
  PROVE  /\ IsFiniteSet(SlotSpots(T, s, b)) /\ Cardinality(SlotSpots(T, s, b)) = Times(b, T[s])
         /\ Times(b, T[s]) \in Nat
         /\ \A e : e \in SlotSpots(T, s, b) <=> e \in Spots(T, b) /\ e[1] = s
<1>1. PICK t \in Seq(Blocks) : t = T[s]
  BY DEF Holdings
<1> DEFINE I == {i \in DOMAIN t : t[i] = b}
<1>2. IsFiniteSet(I) /\ Times(b, t) = Cardinality(I) /\ Cardinality(I) \in Nat
  BY TimesNat DEF Times
<1>3. SlotSpots(T, s, b) = {s} \X I
  BY <1>1 DEF SlotSpots
<1>4. IsFiniteSet({s}) /\ Cardinality({s}) = 1
  BY FS_Singleton
<1>5. I \subseteq Nat
  OBVIOUS
<1>6. \A e : e \in {s} \X I <=> e \in Spots(T, b) /\ e[1] = s
  BY <1>1, <1>5 DEF Spots
<1> HIDE DEF I
<1>7. IsFiniteSet({s} \X I) /\ Cardinality({s} \X I) = 1 * Cardinality(I)
  BY <1>2, <1>4, FS_Product
<1> QED BY <1>1, <1>2, <1>3, <1>6, <1>7

LEMMA SpotsFinite ==
  ASSUME NEW T \in Holdings, NEW b
  PROVE  IsFiniteSet(Spots(T, b)) /\ Count(T, b) \in Nat
<1> DEFINE column == [s \in Slots |-> SlotSpots(T, s, b)]
           all == {column[s] : s \in Slots}
<1>1. IsFiniteSet(Slots)
  <2>1. \A n \in Nat : IsFiniteSet(1 .. n)
    BY FS_Interval
  <2>2. PICK I : I = 1 .. 4
    OBVIOUS
  <2>3. IsFiniteSet(I) /\ IsFiniteSet(Lanes)
    BY <2>1, <2>2, Constants
  <2>4. IsFiniteSet(I \X Lanes)
    BY <2>3, FS_Product
  <2> QED BY <2>2, <2>4 DEF Slots
<1>2. column \in Surjection(Slots, all)
  BY DEF Surjection
<1>3. IsFiniteSet(all)
  <2> HIDE DEF column
  <2> QED BY <1>1, <1>2, FS_Surjection
<1>4. \A S \in all : IsFiniteSet(S)
  BY SlotSpotsIs
<1>5. IsFiniteSet(UNION all)
  <2> HIDE DEF all
  <2> QED BY <1>3, <1>4, FS_UNION
<1>6. Spots(T, b) \subseteq UNION all
  <2> SUFFICES ASSUME NEW e \in Spots(T, b) PROVE e \in UNION all
    OBVIOUS
  <2>1. e[1] \in Slots
    BY DEF Spots
  <2>2. e \in SlotSpots(T, e[1], b)
    BY <2>1, SlotSpotsIs
  <2> QED BY <2>1, <2>2
<1>7. IsFiniteSet(Spots(T, b))
  <2> HIDE DEF all
  <2> QED BY <1>5, <1>6, FS_Subset
<1> QED BY <1>7, FS_CardinalityType DEF Count

\* One slot against the rest.
LEMMA CountSplit ==
  ASSUME NEW T \in Holdings, NEW s \in Slots, NEW b
  PROVE  LET rest == {e \in Spots(T, b) : e[1] # s} IN
         /\ IsFiniteSet(rest) /\ Cardinality(rest) \in Nat /\ Times(b, T[s]) \in Nat
         /\ Count(T, b) = Cardinality(rest) + Times(b, T[s])
<1> DEFINE rest == {e \in Spots(T, b) : e[1] # s}
           part == SlotSpots(T, s, b)
<1>1. IsFiniteSet(Spots(T, b))
  BY SpotsFinite
<1>2. IsFiniteSet(part) /\ Cardinality(part) = Times(b, T[s]) /\ Times(b, T[s]) \in Nat
      /\ \A e : e \in part <=> e \in Spots(T, b) /\ e[1] = s
  BY SlotSpotsIs
<1> HIDE DEF part
<1>3. rest \in SUBSET Spots(T, b)
  OBVIOUS
<1>4. IsFiniteSet(rest) /\ Cardinality(rest) \in Nat
  BY <1>1, <1>3, FS_Subset, FS_CardinalityType
<1>5. Spots(T, b) = rest \cup part /\ rest \cap part = {}
  BY <1>2
<1> HIDE DEF rest
<1>6. Cardinality(rest \cup part) = Cardinality(rest) + Cardinality(part) - Cardinality(rest \cap part)
  BY <1>2, <1>4, FS_Union
<1>7. Cardinality(rest \cap part) = 0
  BY <1>5, FS_EmptySet
<1>8. Count(T, b) = Cardinality(rest \cup part)
  BY <1>5 DEF Count
<1>9. Count(T, b) = Cardinality(rest) + Times(b, T[s])
  BY <1>2, <1>4, <1>6, <1>7, <1>8
<1> QED BY <1>2, <1>4, <1>9 DEF rest

\* The table of one slot is replaced.
LEMMA CountUpdate ==
  ASSUME NEW T \in Holdings, NEW U \in Holdings, NEW s \in Slots, NEW b,
         \A r \in Slots : r # s => U[r] = T[r]
  PROVE  /\ Count(U, b) + Times(b, T[s]) = Count(T, b) + Times(b, U[s])
         /\ Times(b, T[s]) <= Count(T, b)
         /\ Count(U, b) \in Nat /\ Count(T, b) \in Nat
         /\ Times(b, T[s]) \in Nat /\ Times(b, U[s]) \in Nat
<1> DEFINE restT == {e \in Spots(T, b) : e[1] # s}
           restU == {e \in Spots(U, b) : e[1] # s}
<1>1. restT = restU
  BY DEF Spots
<1>2. /\ Cardinality(restT) \in Nat /\ Times(b, T[s]) \in Nat
      /\ Count(T, b) = Cardinality(restT) + Times(b, T[s])
  BY CountSplit
<1>3. /\ Cardinality(restU) \in Nat /\ Times(b, U[s]) \in Nat
      /\ Count(U, b) = Cardinality(restU) + Times(b, U[s])
  BY CountSplit
<1> HIDE DEF restT, restU
<1> QED BY <1>1, <1>2, <1>3

\* Tables move between slots.
LEMMA CountPermute ==
  ASSUME NEW T \in Holdings, NEW U \in Holdings, NEW f \in Bijection(Slots, Slots),
         \A s \in Slots : U[s] = T[f[s]], NEW b
  PROVE  Count(U, b) = Count(T, b)
<1> DEFINE g == [e \in Spots(U, b) |-> <<f[e[1]], e[2]>>]
<1>1. /\ f \in [Slots -> Slots] /\ \A r, s \in Slots : f[r] = f[s] => r = s
      /\ \A s \in Slots : \E r \in Slots : f[r] = s
  BY DEF Bijection, Injection, Surjection, IsInjective
<1>2. g \in [Spots(U, b) -> Spots(T, b)]
  <2> SUFFICES ASSUME NEW e \in Spots(U, b) PROVE <<f[e[1]], e[2]>> \in Spots(T, b)
    OBVIOUS
  <2>1. e[1] \in Slots /\ e[2] \in Nat /\ e[2] \in DOMAIN U[e[1]] /\ U[e[1]][e[2]] = b
    BY DEF Spots
  <2>2. f[e[1]] \in Slots /\ U[e[1]] = T[f[e[1]]]
    BY <1>1, <2>1
  <2> QED BY <2>1, <2>2 DEF Spots
<1>3. \A d, e \in Spots(U, b) : g[d] = g[e] => d = e
  <2> SUFFICES ASSUME NEW d \in Spots(U, b), NEW e \in Spots(U, b), g[d] = g[e] PROVE d = e
    OBVIOUS
  <2>1. d = <<d[1], d[2]>> /\ e = <<e[1], e[2]>> /\ d[1] \in Slots /\ e[1] \in Slots
    BY DEF Spots
  <2>2. f[d[1]] = f[e[1]] /\ d[2] = e[2]
    OBVIOUS
  <2>3. d[1] = e[1]
    BY <1>1, <2>1, <2>2
  <2> QED BY <2>1, <2>2, <2>3
<1>4. \A e \in Spots(T, b) : \E d \in Spots(U, b) : g[d] = e
  <2> TAKE e \in Spots(T, b)
  <2>1. e = <<e[1], e[2]>> /\ e[1] \in Slots /\ e[2] \in Nat /\ e[2] \in DOMAIN T[e[1]]
        /\ T[e[1]][e[2]] = b
    BY DEF Spots
  <2>2. PICK r \in Slots : f[r] = e[1]
    BY <1>1, <2>1
  <2>3. U[r] = T[e[1]]
    BY <2>2
  <2>4. <<r, e[2]>> \in Spots(U, b)
    BY <2>1, <2>3 DEF Spots
  <2>5. g[<<r, e[2]>>] = e
    BY <2>1, <2>2, <2>4
  <2> QED BY <2>4, <2>5
<1>5. g \in Bijection(Spots(U, b), Spots(T, b))
  <2> HIDE DEF g
  <2> QED BY <1>2, <1>3, <1>4 DEF Bijection, Injection, Surjection, IsInjective
<1>6. IsFiniteSet(Spots(U, b))
  BY SpotsFinite
<1> HIDE DEF g
<1> QED BY <1>5, <1>6, FS_Bijection DEF ExistsBijection, Count

-----------------------------------------------------------------------------
(* Who holds which block.                                                  *)

Held(p) ==
  [s \in Slots |->
     IF s[1] = 1 THEN canonical[p][s[2]].blocks
     ELSE IF s[1] = 2 THEN shadow[p][s[2]].blocks
     ELSE IF s[1] = 3 THEN old[p][s[2]].blocks
     ELSE IF p = "proposer" THEN drafted[s[2]].blocks ELSE <<>>]

\* The references of a block are the places that hold it; a free block has none,
\* and a block that has none is free or cached.
BlockOK(p, b) ==
  /\ refcounts[p][b] = Count(Held(p), b)
  /\ b \in free[p] => refcounts[p][b] = 0
  /\ refcounts[p][b] = 0 => b \in free[p] \cup hashed[p]

\* Where copies cannot be: outside the round, before and after their stages.
Idle(p, l) ==
  \/ l \notin batch \/ p \notin PoolsOf(kind)
  \/ pc = "clone" /\ l \in todo
  \/ pc = "discard" /\ l \notin todo

Drafts(l) ==
  /\ kind = "parallel" /\ l \in Drafting(0)
  /\ \/ pc = "copy" /\ l \notin todo
     \/ pc = "draft"
     \/ pc \in {"undraft", "discard"} /\ l \in todo

Clean ==
  /\ \A p \in Pools, l \in Lanes :
       /\ Idle(p, l) => shadow[p][l] = NoTable
       /\ (pc = "drop" /\ l \in todo) \/ old[p][l] = NoTable
  /\ \A l \in Lanes : Drafts(l) \/ drafted[l] = NoTable

\* A sequence that left the target has left the proposer.
Gone == \A l \in Lanes : l \notin Live => canonical["proposer"][l] = NoTable

RefInv == Clean /\ Gone /\ \A p \in Pools, b \in Blocks : BlockOK(p, b)

LEMMA HeldTypes == IInv => \A p \in Pools : Held(p) \in Holdings
<1> SUFFICES ASSUME IInv, NEW p \in Pools, NEW s \in Slots
             PROVE  Held(p)[s] \in Seq(Blocks)
  BY DEF Held, Holdings
<1>1. s[2] \in Lanes
  BY DEF Slots
<1>2. /\ canonical[p][s[2]] \in Table /\ shadow[p][s[2]] \in Table
      /\ old[p][s[2]] \in Table /\ drafted[s[2]] \in Table
  BY <1>1 DEF IInv, Typed, Tables
<1>3. /\ canonical[p][s[2]].blocks \in Seq(Blocks) /\ shadow[p][s[2]].blocks \in Seq(Blocks)
      /\ old[p][s[2]].blocks \in Seq(Blocks) /\ drafted[s[2]].blocks \in Seq(Blocks)
      /\ <<>> \in Seq(Blocks)
  <2>1. \A t \in Table : t.blocks \in Seq(Blocks)
    BY DEF Table
  <2> QED BY <1>2, <2>1
<1> QED BY <1>3 DEF Held

LEMMA HeldTypesNext == IInv' => (\A p \in Pools : Held(p) \in Holdings)'
BY HeldTypes, PTL

\* What a slot holds, now and next.
LEMMA HeldAt ==
  ASSUME NEW p \in Pools, NEW l \in Lanes
  PROVE  /\ <<1, l>> \in Slots /\ <<2, l>> \in Slots /\ <<3, l>> \in Slots /\ <<4, l>> \in Slots
         /\ Held(p)[<<1, l>>] = canonical[p][l].blocks /\ Held(p)[<<2, l>>] = shadow[p][l].blocks
         /\ Held(p)[<<3, l>>] = old[p][l].blocks
         /\ Held(p)[<<4, l>>] = IF p = "proposer" THEN drafted[l].blocks ELSE <<>>
         /\ Held(p)'[<<1, l>>] = canonical'[p][l].blocks /\ Held(p)'[<<2, l>>] = shadow'[p][l].blocks
         /\ Held(p)'[<<3, l>>] = old'[p][l].blocks
         /\ Held(p)'[<<4, l>>] = IF p = "proposer" THEN drafted'[l].blocks ELSE <<>>
<1>1. /\ <<1, l>> \in Slots /\ <<2, l>> \in Slots /\ <<3, l>> \in Slots /\ <<4, l>> \in Slots
  BY DEF Slots
<1> QED BY <1>1 DEF Held

\* Slots are four per lane.
LEMMA SlotCases ==
  ASSUME NEW s \in Slots
  PROVE  \E l \in Lanes : s = <<1, l>> \/ s = <<2, l>> \/ s = <<3, l>> \/ s = <<4, l>>
<1>1. s = <<s[1], s[2]>> /\ s[1] \in 1 .. 4 /\ s[2] \in Lanes
  BY DEF Slots
<1>2. s[1] = 1 \/ s[1] = 2 \/ s[1] = 3 \/ s[1] = 4
  BY <1>1
<1> QED BY <1>1, <1>2

\* A step whose blocks have the references of their places again.
LEMMA StoreKeeps ==
  ASSUME IInv, RefInv, NEW fresh \in [Pools -> SUBSET Blocks],
         NEW gone \in [Pools -> [Blocks -> Nat]], NEW contents, Store(fresh, gone, contents),
         NEW p \in Pools, NEW b \in Blocks, NEW U \in Holdings, U = Held(p)',
         b \in fresh[p] => refcounts[p][b] = 0,
         Count(U, b) + gone[p][b] = Count(Held(p), b) + (IF b \in fresh[p] THEN 1 ELSE 0)
  PROVE  BlockOK(p, b)'
<1>1. PICK r \in Nat, g \in Nat, c \in Nat, u \in Nat :
        r = refcounts[p][b] /\ g = gone[p][b] /\ c = Count(Held(p), b) /\ u = Count(U, b)
  <2>1. refcounts[p][b] \in Nat /\ gone[p][b] \in Nat
    BY DEF IInv, Typed, Stores
  <2>2. Count(U, b) \in Nat
    BY SpotsFinite
  <2>3. Held(p) \in Holdings
    BY HeldTypes
  <2>4. Count(Held(p), b) \in Nat
    BY <2>3, SpotsFinite
  <2> QED BY <2>1, <2>2, <2>4
<1>2. /\ r = c /\ (b \in free[p] => r = 0) /\ (r = 0 => b \in free[p] \cup hashed[p])
  BY <1>1 DEF RefInv, BlockOK
<1>3. PICK n : /\ n = refcounts'[p][b]
               /\ n = Larger(0, (IF b \in fresh[p] THEN 1 ELSE r) - g)
  BY <1>1 DEF Store, Counts
<1>4. b \in hashed'[p] <=> b \in hashed[p] /\ b \notin fresh[p]
  BY DEF Store
<1>5. b \in free'[p] <=> (b \in free[p] /\ b \notin fresh[p])
                         \/ (g > 0 /\ n = 0 /\ b \notin hashed'[p])
  <2>1. /\ refcounts' = [q \in Pools |-> Counts(q, fresh[q], gone[q])]
        /\ free' = [q \in Pools |-> (free[q] \ fresh[q]) \cup
             {a \in Blocks : gone[q][a] > 0 /\ Counts(q, fresh[q], gone[q])[a] = 0
                             /\ a \notin hashed'[q]}]
    BY DEF Store
  <2>2. Counts(p, fresh[p], gone[p])[b] = n
    BY <1>3, <2>1
  <2> QED BY <1>1, <2>1, <2>2
<1>6. u + g = c + (IF b \in fresh[p] THEN 1 ELSE 0) /\ (b \in fresh[p] => r = 0)
  BY <1>1
<1>7. n = u
  BY <1>2, <1>3, <1>6 DEF Larger
<1>8. b \in free'[p] => n = 0
  BY <1>2, <1>3, <1>5 DEF Larger
<1>9. n = 0 => b \in free'[p] \cup hashed'[p]
  <2>1. CASE g > 0
    BY <1>5, <2>1
  <2>2. CASE g = 0
    BY <1>2, <1>3, <1>4, <1>5, <2>2 DEF Larger
  <2> QED BY <2>1, <2>2
<1>10. refcounts'[p][b] = Count(Held(p)', b)
  BY <1>1, <1>3, <1>7
<1> QED BY <1>3, <1>8, <1>9, <1>10 DEF BlockOK

LEMMA UnrefKeeps ==
  ASSUME IInv, RefInv, NEW blocks \in [Pools -> Seq(Blocks)], Unref(blocks),
         NEW p \in Pools, NEW b \in Blocks, NEW U \in Holdings, U = Held(p)',
         Count(U, b) + Times(b, blocks[p]) = Count(Held(p), b)
  PROVE  BlockOK(p, b)'
<1> DEFINE gone == [q \in Pools |-> [a \in Blocks |-> Times(a, blocks[q])]]
<1>1. gone \in [Pools -> [Blocks -> Nat]] /\ gone[p][b] = Times(b, blocks[p])
  <2>1. \A q \in Pools, a \in Blocks : Times(a, blocks[q]) \in Nat
    BY TimesNat
  <2> QED BY <2>1
<1>2. None \in [Pools -> SUBSET Blocks] /\ b \notin None[p]
  BY DEF None
<1>3. Store(None, gone, rows)
  BY DEF Unref
<1> HIDE DEF gone
<1>4. Count(Held(p), b) \in Nat
  BY HeldTypes, SpotsFinite
<1>5. Count(U, b) + gone[p][b] = Count(Held(p), b) + (IF b \in None[p] THEN 1 ELSE 0)
  BY <1>1, <1>2, <1>4
<1> QED BY <1>1, <1>2, <1>3, <1>5, StoreKeeps

LEMMA RefKeeps ==
  ASSUME IInv, RefInv, NEW blocks \in [Pools -> Seq(Blocks)], Ref(blocks),
         NEW p \in Pools, NEW b \in Blocks, NEW U \in Holdings, U = Held(p)',
         Count(U, b) = Count(Held(p), b) + Times(b, blocks[p]),
         Times(b, blocks[p]) <= Count(Held(p), b)
  PROVE  BlockOK(p, b)'
<1>1. PICK r \in Nat, t \in Nat : r = refcounts[p][b] /\ t = Times(b, blocks[p])
  BY TimesNat DEF IInv, Typed, Stores
<1>2. /\ r = Count(Held(p), b) /\ (b \in free[p] => r = 0) /\ (r = 0 => b \in free[p] \cup hashed[p])
  BY <1>1 DEF RefInv, BlockOK
<1>3. refcounts'[p][b] = r + t /\ free' = free /\ hashed' = hashed
  BY <1>1 DEF Ref
<1>4. r = 0 <=> r + t = 0
  BY <1>1, <1>2
<1>5. refcounts'[p][b] = Count(Held(p)', b)
  BY <1>1, <1>2, <1>3
<1> QED BY <1>2, <1>3, <1>4, <1>5 DEF BlockOK

-----------------------------------------------------------------------------
(* Copies exist only in their stages.                                      *)

LEMMA OthersSame ==
  ASSUME NEW p, NEW tables \in [Lanes -> Table], NEW l, NEW lanes, NEW advance, NEW moves,
         NEW m \in Lanes, m # l, m \notin lanes
  PROVE  Executed(p, tables, l, lanes, advance, moves)[m] = tables[m]
BY DEF Executed

\* The shadows of one pool change for lanes of the round.
LEMMA CleanShadows ==
  ASSUME IInv, Clean, pc \in {"draft", "verify", "catchup", "truncate", "replay"},
         kind = "parallel" => pc # "draft",
         pc' \notin {"clone", "discard", "drop"},
         UNCHANGED <<drafted, old, kind, batch>>,
         \A p \in Pools, m \in Lanes :
           m \notin batch \/ p \notin PoolsOf(kind) => shadow'[p][m] = shadow[p][m]
  PROVE  Clean'
<1>1. ASSUME NEW p \in Pools, NEW m \in Lanes
      PROVE  (Idle(p, m)' => shadow'[p][m] = NoTable) /\ old'[p][m] = NoTable
  <2>1. Idle(p, m)' => m \notin batch \/ p \notin PoolsOf(kind)
    BY DEF Idle, PoolsOf
  <2>2. m \notin batch \/ p \notin PoolsOf(kind) => shadow[p][m] = NoTable
    BY DEF Clean, Idle
  <2>3. old[p][m] = NoTable
    BY DEF Clean
  <2> QED BY <2>1, <2>2, <2>3
<1>2. \A m \in Lanes : drafted'[m] = NoTable
  BY DEF Clean, Drafts
<1> QED BY <1>1, <1>2 DEF Clean

LEMMA CleanExecutions ==
  ASSUME IInv, Clean, NEW l \in Lanes,
         DraftStep(l) \/ Verify(l) \/ Catchup(l) \/ Replay(l)
  PROVE  Clean'
<1>0. batch \subseteq Lanes /\ todo \subseteq batch /\ shadow \in Tables
      /\ "target" \in Pools /\ "proposer" \in Pools
  BY DEF IInv, Control, Live, Typed, Pools
<1>1. CASE DraftStep(l)
  <2>1. /\ pc = "draft" /\ kind = "exact" /\ l \in batch /\ Turn(l)
        /\ UNCHANGED <<drafted, old, kind, batch>>
    BY <1>0, <1>1 DEF DraftStep, Turn
  <2>2. pc' \in {"draft", "verify"}
    BY <1>1, <2>1 DEF DraftStep, Done
  <2>3. shadow' = [shadow EXCEPT !["proposer"] =
                     Executed("proposer", shadow["proposer"], l, Drafting(step), One, One)]
    BY <1>1 DEF DraftStep
  <2>4. Drafting(step) \subseteq batch
    BY DEF Drafting
  <2>5. "proposer" \in PoolsOf(kind) /\ shadow["proposer"] \in [Lanes -> Table]
    BY <1>0, <2>1 DEF PoolsOf, Pools, Tables
  <2>6. \A p \in Pools, m \in Lanes :
          m \notin batch \/ p \notin PoolsOf(kind) => shadow'[p][m] = shadow[p][m]
    BY <1>0, <2>1, <2>3, <2>4, <2>5, OthersSame DEF Tables
  <2> QED BY <2>1, <2>2, <2>6, CleanShadows
<1>2. CASE Verify(l)
  <2>1. /\ pc = "verify" /\ l \in batch /\ Turn(l) /\ UNCHANGED <<drafted, old, kind, batch>>
    BY <1>0, <1>2 DEF Verify, Turn, callVars
  <2>2. pc' \in {"verify", "catchup", "truncate"}
    BY <1>2, <2>1 DEF Verify, Done, AfterVerify
  <2>3. PICK advance, moves :
          shadow' = [shadow EXCEPT !["target"] =
                       Executed("target", shadow["target"], l, batch, advance, moves)]
    BY <1>2 DEF Verify
  <2>4. "target" \in PoolsOf(kind) /\ shadow["target"] \in [Lanes -> Table]
    BY <1>0 DEF PoolsOf, Pools, Tables
  <2>5. \A p \in Pools, m \in Lanes :
          m \notin batch \/ p \notin PoolsOf(kind) => shadow'[p][m] = shadow[p][m]
    BY <1>0, <2>1, <2>3, <2>4, OthersSame DEF Tables
  <2> QED BY <2>1, <2>2, <2>5, CleanShadows
<1>3. CASE Catchup(l)
  <2>1. /\ pc = "catchup" /\ kind = "exact" /\ l \in batch /\ Turn(l)
        /\ UNCHANGED <<drafted, old, kind, batch>>
    BY <1>0, <1>3 DEF Catchup, Turn, callVars, IInv, Control
  <2>2. pc' \in {"catchup", "truncate"}
    BY <1>3, <2>1 DEF Catchup, Done
  <2>3. shadow' = [shadow EXCEPT !["proposer"] =
                     Executed("proposer", shadow["proposer"], l, Behind, One, Still)]
    BY <1>3 DEF Catchup
  <2>4. Behind \subseteq batch
    BY DEF Behind
  <2>5. "proposer" \in PoolsOf(kind) /\ shadow["proposer"] \in [Lanes -> Table]
    BY <1>0, <2>1 DEF PoolsOf, Pools, Tables
  <2>6. \A p \in Pools, m \in Lanes :
          m \notin batch \/ p \notin PoolsOf(kind) => shadow'[p][m] = shadow[p][m]
    BY <1>0, <2>1, <2>3, <2>4, <2>5, OthersSame DEF Tables
  <2> QED BY <2>1, <2>2, <2>6, CleanShadows
<1>4. CASE Replay(l)
  <2>1. /\ pc = "replay" /\ kind = "parallel" /\ l \in batch /\ Turn(l)
        /\ UNCHANGED <<drafted, old, kind, batch>>
    BY <1>0, <1>4 DEF Replay, Turn, callVars, IInv, Control
  <2>2. pc' \in {"replay", "arbitrate"}
    BY <1>4, <2>1 DEF Replay, Done
  <2>3. shadow' = [shadow EXCEPT !["proposer"] =
                     Executed("proposer", shadow["proposer"], l, batch, page, page)]
    BY <1>4 DEF Replay
  <2>4. "proposer" \in PoolsOf(kind) /\ shadow["proposer"] \in [Lanes -> Table]
    BY <1>0, <2>1 DEF PoolsOf, Pools, Tables
  <2>5. \A p \in Pools, m \in Lanes :
          m \notin batch \/ p \notin PoolsOf(kind) => shadow'[p][m] = shadow[p][m]
    BY <1>0, <2>1, <2>3, <2>4, OthersSame DEF Tables
  <2> QED BY <2>1, <2>2, <2>5, CleanShadows
<1> QED BY <1>1, <1>2, <1>3, <1>4

LEMMA CleanTruncate ==
  ASSUME IInv, Clean, NEW l \in Lanes, Truncate(l)
  PROVE  Clean'
<1>1. /\ pc = "truncate" /\ l \in batch /\ UNCHANGED <<drafted, old, kind, batch>>
      /\ shadow \in Tables
  BY DEF Truncate, Turn, callVars, IInv, Control, Typed
<1>2. pc' \in {"truncate", "replay", "arbitrate"}
  BY <1>1 DEF Truncate, Done
<1>3. CutPools \subseteq PoolsOf(kind)
  BY DEF CutPools, PoolsOf, Pools
<1>4. \A p \in Pools, m \in Lanes :
        m \notin batch \/ p \notin PoolsOf(kind) => shadow'[p][m] = shadow[p][m]
  BY <1>1, <1>3 DEF Truncate, Tables
<1> QED BY <1>1, <1>2, <1>4, CleanShadows

LEMMA CleanPlain ==
  ASSUME IInv, Clean,
         \/ Arbitrate \/ Publish \/ Fail \/ Cancel \/ \E l \in Lanes : Release(l) \/ ReturnBlocks(l)
         \/ \E l \in Lanes, n \in Prompts : Admit(l, n)
  PROVE  Clean'
<1>1. UNCHANGED <<shadow, drafted, old, kind, batch, draft>>
  BY DEF Arbitrate, Publish, Fail, Cancel, Release, ReturnBlocks, Admit, tableVars, callVars
<1>2. \/ pc' = pc /\ todo' = todo
      \/ pc # "drop" /\ pc' = "discard" /\ todo' = batch
      \/ pc = "arbitrate" /\ pc' = "commit"
  <2>1. CASE Arbitrate
    BY <2>1 DEF Arbitrate
  <2>2. CASE Publish \/ Fail
    BY <2>2 DEF Publish, Fail, Accepting
  <2>3. CASE Cancel \/ \E l \in Lanes : Release(l) \/ ReturnBlocks(l)
    BY <2>3 DEF Cancel, Release, ReturnBlocks
  <2>4. CASE \E l \in Lanes, n \in Prompts : Admit(l, n)
    BY <2>4 DEF Admit
  <2> QED BY <2>1, <2>2, <2>3, <2>4
<1>3. \A p \in Pools, l \in Lanes : Idle(p, l)' => Idle(p, l)
  BY <1>1, <1>2 DEF Idle, PoolsOf
<1>4. \A l \in Lanes : Drafts(l) => Drafts(l)'
  BY <1>1, <1>2 DEF Drafts, Drafting
<1>5. pc' = "drop" => pc = "drop" /\ todo' = todo
  BY <1>2
<1>6. \A p \in Pools, l \in Lanes : (pc' = "drop" /\ l \in todo') \/ old'[p][l] = NoTable
  BY <1>1, <1>2 DEF Clean
<1> QED BY <1>1, <1>3, <1>4, <1>6 DEF Clean

LEMMA CleanBegin ==
  ASSUME IInv, Clean, NEW lanes \in SUBSET Lanes, Begin(lanes)
  PROVE  Clean'
<1>1. /\ pc = "idle" /\ batch = {} /\ pc' = "clone" /\ todo' = lanes /\ batch' = lanes
      /\ UNCHANGED <<shadow, drafted, old, kind>>
  BY DEF Begin, IInv, Control, tableVars
<1>2. /\ \A p \in Pools, l \in Lanes : shadow[p][l] = NoTable /\ old[p][l] = NoTable
      /\ \A l \in Lanes : drafted[l] = NoTable
  BY <1>1 DEF Clean, Idle, Drafts
<1> QED BY <1>1, <1>2 DEF Clean

LEMMA CleanClone ==
  ASSUME IInv, Clean, NEW l \in Lanes, Clone(l)
  PROVE  Clean'
<1>1. /\ pc = "clone" /\ l \in todo /\ l \in batch /\ UNCHANGED <<drafted, old, kind, batch>>
      /\ shadow \in Tables /\ Turn(l)
  BY DEF Clone, Turn, callVars, IInv, Control, Typed
<1>2. pc' \in {"clone", "verify", "draft", "copy"} /\ (pc' = "clone" => todo' = todo \ {l})
  BY <1>1 DEF Clone, Done
<1>3. \A p \in Pools, m \in Lanes : m # l \/ p \notin PoolsOf(kind) => shadow'[p][m] = shadow[p][m]
  BY <1>1 DEF Clone, Tables
<1>4. \A p \in Pools, m \in Lanes : Idle(p, m)' => Idle(p, m) /\ (m # l \/ p \notin PoolsOf(kind))
  BY <1>1, <1>2 DEF Idle, PoolsOf
<1>5. \A m \in Lanes : drafted[m] = NoTable
  BY <1>1 DEF Clean, Drafts
<1>6. \A p \in Pools, m \in Lanes : old[p][m] = NoTable
  BY <1>1 DEF Clean
<1> QED BY <1>1, <1>3, <1>4, <1>5, <1>6 DEF Clean

LEMMA CleanDrafts ==
  ASSUME IInv, Clean, NEW l \in Lanes, Copy(l) \/ DraftBlock(l) \/ DropDraft(l)
  PROVE  Clean'
<1>1. /\ pc \in {"copy", "draft", "undraft"} /\ l \in todo /\ l \in batch /\ kind = "parallel"
      /\ Turn(l) /\ UNCHANGED <<shadow, old, kind, batch, draft>>
      /\ drafted \in [Lanes -> Table] /\ todo \subseteq Drafting(0)
  BY DEF Copy, DraftBlock, DropDraft, Turn, callVars, IInv, Control, Typed
<1>2. pc' \in {"copy", "draft", "undraft", "verify"}
  BY <1>1 DEF Copy, DraftBlock, DropDraft, Done
<1>3. ASSUME NEW p \in Pools, NEW m \in Lanes
      PROVE  (Idle(p, m)' => shadow'[p][m] = NoTable) /\ old'[p][m] = NoTable
  <2>1. Idle(p, m)' => Idle(p, m)
    BY <1>1, <1>2 DEF Idle, PoolsOf
  <2> QED BY <1>1, <2>1 DEF Clean
<1>4. Drafting(0)' = Drafting(0)
  BY <1>1 DEF Drafting
<1>5. ASSUME NEW m \in Lanes PROVE Drafts(m)' \/ drafted'[m] = NoTable
  <2>1. CASE Copy(l)
    <3>1. /\ pc = "copy" /\ drafted'[m] = (IF m = l THEN shadow["proposer"][l] ELSE drafted[m])
          /\ \/ pc' = "copy" /\ todo' = todo \ {l}
             \/ pc' = "draft"
      BY <1>1, <2>1, DoneIs DEF Copy
    <3>2. m = l \/ drafted[m] = NoTable \/ (m \in Drafting(0) /\ m \notin todo)
      BY <3>1 DEF Clean, Drafts
    <3> QED BY <1>1, <1>4, <3>1, <3>2 DEF Drafts
  <2>2. CASE DraftBlock(l)
    <3>1. \/ pc' = "draft"
          \/ pc' = "undraft" /\ todo' = Drafting(0)
      BY <1>1, <2>2, DoneIs DEF DraftBlock
    <3>2. CASE m \in Drafting(0)
      BY <1>1, <1>4, <3>1, <3>2 DEF Drafts
    <3>3. CASE m \notin Drafting(0)
      <4>1. drafted[m] = NoTable /\ m # l
        BY <1>1, <3>3 DEF Clean, Drafts
      <4>2. PICK advance : drafted' = Executed("proposer", drafted, l, Drafting(0), advance, advance)
        BY <2>2 DEF DraftBlock
      <4>3. drafted'[m] = drafted[m]
        BY <1>1, <3>3, <4>1, <4>2, OthersSame
      <4> QED BY <4>1, <4>3
    <3> QED BY <3>2, <3>3
  <2>3. CASE DropDraft(l)
    <3>1. /\ pc = "undraft" /\ drafted'[m] = (IF m = l THEN NoTable ELSE drafted[m])
          /\ \/ pc' = "undraft" /\ todo' = todo \ {l}
             \/ pc' = "verify" /\ todo = {l}
      BY <1>1, <2>3, DoneIs DEF DropDraft
    <3>2. m = l \/ drafted[m] = NoTable \/ (m \in Drafting(0) /\ m \in todo)
      BY <3>1 DEF Clean, Drafts
    <3> QED BY <1>1, <1>4, <3>1, <3>2 DEF Drafts
  <2> QED BY <2>1, <2>2, <2>3
<1> QED BY <1>3, <1>5 DEF Clean

LEMMA CleanEnd ==
  ASSUME IInv, Clean, Commit \/ \E l \in Lanes : DropOld(l) \/ Discard(l)
  PROVE  Clean'
<1>1. CASE Commit
  <2>1. /\ pc = "commit" /\ pc' = "drop" /\ todo' = batch /\ batch' = batch /\ drafted' = drafted
        /\ shadow' = NoTables
        /\ old' = [p \in Pools |-> [l \in Lanes |->
             IF l \in batch /\ p \in PoolsOf(kind) THEN canonical[p][l] ELSE NoTable]]
    BY <1>1 DEF Commit, callVars, Taken
  <2>2. \A l \in Lanes : drafted[l] = NoTable
    BY <2>1 DEF Clean, Drafts
  <2> QED BY <2>1, <2>2 DEF Clean, NoTables
<1>2. ASSUME NEW l \in Lanes, DropOld(l) PROVE Clean'
  <2>1. /\ pc = "drop" /\ l \in todo /\ Turn(l) /\ UNCHANGED <<shadow, drafted, kind, batch, draft>>
        /\ old \in Tables
    BY <1>2 DEF DropOld, Turn, callVars, IInv, Typed
  <2>2. \/ pc' = "drop" /\ todo' = todo \ {l}
        \/ todo = {l} /\ pc' = "discard" /\ todo' = batch
        \/ todo = {l} /\ pc' = "publish"
    BY <1>2, <2>1, DoneIs DEF DropOld
  <2>3. \A p \in Pools, m \in Lanes : old'[p][m] = IF m = l THEN NoTable ELSE old[p][m]
    BY <1>2, <2>1 DEF DropOld, Tables
  <2>4. \A p \in Pools, m \in Lanes : Idle(p, m)' => Idle(p, m)
    BY <2>1, <2>2 DEF Idle, PoolsOf
  <2>5. \A m \in Lanes : drafted[m] = NoTable
    BY <2>1 DEF Clean, Drafts
  <2>6. \A p \in Pools, m \in Lanes : (pc' = "drop" /\ m \in todo') \/ old'[p][m] = NoTable
    BY <2>1, <2>2, <2>3 DEF Clean
  <2> QED BY <2>1, <2>4, <2>5, <2>6 DEF Clean
<1>3. ASSUME NEW l \in Lanes, Discard(l) PROVE Clean'
  <2>1. /\ pc = "discard" /\ l \in todo /\ Turn(l) /\ UNCHANGED <<old, kind>>
        /\ shadow \in Tables /\ drafted \in [Lanes -> Table]
    BY <1>3 DEF Discard, Turn, IInv, Typed
  <2>2. \/ /\ pc' = "discard" /\ todo' = todo \ {l} /\ batch' = batch /\ draft' = draft
        \/ todo = {l} /\ pc' = "idle" /\ batch' = {}
    BY <1>3, <2>1, DoneIs DEF Discard, callVars
  <2>3. /\ \A p \in Pools, m \in Lanes : shadow'[p][m] = IF m = l THEN NoTable ELSE shadow[p][m]
        /\ \A m \in Lanes : drafted'[m] = IF m = l THEN NoTable ELSE drafted[m]
    BY <1>3, <2>1 DEF Discard, Tables
  <2>4. \A p \in Pools, m \in Lanes : old[p][m] = NoTable
    BY <2>1 DEF Clean
  <2>5. ASSUME NEW m \in Lanes, m # l, m \notin todo \ {l}
        PROVE  drafted'[m] = NoTable /\ \A p \in Pools : shadow'[p][m] = NoTable
    BY <2>1, <2>3, <2>5 DEF Clean, Idle, Drafts
  <2>6. \A m \in Lanes : drafted'[m] = NoTable \/ Drafts(m)'
    <3> SUFFICES ASSUME NEW m \in Lanes, m # l, m \in todo PROVE drafted'[m] = NoTable \/ Drafts(m)'
      BY <2>3, <2>5
    <3>1. pc' = "discard" /\ todo' = todo \ {l} /\ batch' = batch /\ draft' = draft
      BY <2>2
    <3>2. drafted[m] = NoTable \/ Drafts(m)
      BY DEF Clean
    <3> QED BY <2>1, <2>3, <3>1, <3>2 DEF Drafts, Drafting
  <2>7. ASSUME NEW p \in Pools, NEW m \in Lanes PROVE Idle(p, m)' => shadow'[p][m] = NoTable
    <3> SUFFICES ASSUME m # l, m \in todo, Idle(p, m)' PROVE shadow'[p][m] = NoTable
      BY <2>3, <2>5
    <3>1. pc' = "discard" /\ todo' = todo \ {l} /\ batch' = batch
      BY <2>2
    <3>2. Idle(p, m)
      BY <2>1, <3>1 DEF Idle, PoolsOf
    <3> QED BY <2>3, <3>2 DEF Clean
  <2> QED BY <2>1, <2>4, <2>6, <2>7 DEF Clean
<1> QED BY <1>1, <1>2, <1>3

-----------------------------------------------------------------------------
(* Every step keeps the references.                                        *)

\* A step leaves all tables of a pool but that of one slot.
OthersKept(p, s) ==
  \A m \in Lanes :
    /\ s # <<1, m>> => canonical'[p][m].blocks = canonical[p][m].blocks
    /\ s # <<2, m>> => shadow'[p][m].blocks = shadow[p][m].blocks
    /\ s # <<3, m>> => old'[p][m].blocks = old[p][m].blocks
    /\ s # <<4, m>> => (p = "proposer" => drafted'[m].blocks = drafted[m].blocks)

LEMMA SlotChange ==
  ASSUME IInv, IInv', NEW p \in Pools, NEW s \in Slots, NEW b, OthersKept(p, s),
         NEW T, T = Held(p), NEW U, U = Held(p)'
  PROVE  /\ T \in Holdings /\ U \in Holdings
         /\ Count(U, b) + Times(b, T[s]) = Count(T, b) + Times(b, U[s])
         /\ Times(b, T[s]) <= Count(T, b)
         /\ Count(U, b) \in Nat /\ Count(T, b) \in Nat
         /\ Times(b, T[s]) \in Nat /\ Times(b, U[s]) \in Nat
<1>1. T \in Holdings /\ U \in Holdings
  BY HeldTypes, HeldTypesNext
<1>2. ASSUME NEW r \in Slots, r # s PROVE U[r] = T[r]
  <2>1. PICK m \in Lanes : r = <<1, m>> \/ r = <<2, m>> \/ r = <<3, m>> \/ r = <<4, m>>
    BY SlotCases
  <2>2. CASE r = <<1, m>>
    BY <1>2, <2>2, HeldAt DEF OthersKept
  <2>3. CASE r = <<2, m>>
    BY <1>2, <2>3, HeldAt DEF OthersKept
  <2>4. CASE r = <<3, m>>
    BY <1>2, <2>4, HeldAt DEF OthersKept
  <2>5. CASE r = <<4, m>>
    BY <1>2, <2>5, HeldAt DEF OthersKept
  <2> QED BY <2>1, <2>2, <2>3, <2>4, <2>5
<1> QED BY <1>1, <1>2, CountUpdate

LEMMA UnrefSlot ==
  ASSUME IInv, IInv', RefInv, NEW blocks \in [Pools -> Seq(Blocks)], Unref(blocks),
         NEW p \in Pools, NEW b \in Blocks, NEW s \in Slots, OthersKept(p, s),
         Times(b, Held(p)[s]) = Times(b, Held(p)'[s]) + Times(b, blocks[p])
  PROVE  BlockOK(p, b)'
<1>1. PICK T, U : T = Held(p) /\ U = Held(p)'
  OBVIOUS
<1>2. /\ U \in Holdings /\ Count(U, b) + Times(b, T[s]) = Count(T, b) + Times(b, U[s])
      /\ Count(U, b) \in Nat /\ Count(T, b) \in Nat
      /\ Times(b, T[s]) \in Nat /\ Times(b, U[s]) \in Nat
  BY <1>1, SlotChange
<1>3. Times(b, T[s]) = Times(b, U[s]) + Times(b, blocks[p]) /\ Times(b, blocks[p]) \in Nat
  BY <1>1, TimesNat
<1>4. PICK c \in Nat, u \in Nat, x \in Nat, y \in Nat, z \in Nat :
        /\ c = Count(T, b) /\ u = Count(U, b) /\ x = Times(b, T[s]) /\ y = Times(b, U[s])
        /\ z = Times(b, blocks[p])
  BY <1>2, <1>3
<1>5. u + x = c + y /\ x = y + z
  BY <1>2, <1>3, <1>4
<1>6. u + z = c
  BY <1>5
<1>7. Count(U, b) + Times(b, blocks[p]) = Count(T, b)
  BY <1>4, <1>6
<1> QED BY <1>1, <1>2, <1>7, UnrefKeeps

LEMMA RefSlot ==
  ASSUME IInv, IInv', RefInv, NEW blocks \in [Pools -> Seq(Blocks)], Ref(blocks),
         NEW p \in Pools, NEW b \in Blocks, NEW s \in Slots, OthersKept(p, s),
         NEW r \in Slots, Held(p)[s] = <<>>, Held(p)'[s] = blocks[p],
         blocks[p] = <<>> \/ blocks[p] = Held(p)[r]
  PROVE  BlockOK(p, b)'
<1>1. PICK T, U : T = Held(p) /\ U = Held(p)'
  OBVIOUS
<1>2. /\ T \in Holdings
      /\ U \in Holdings /\ Count(U, b) + Times(b, T[s]) = Count(T, b) + Times(b, U[s])
      /\ Count(U, b) \in Nat /\ Count(T, b) \in Nat
  BY <1>1, SlotChange
<1>3. Times(b, T[s]) = 0 /\ Times(b, U[s]) = Times(b, blocks[p]) /\ Times(b, blocks[p]) \in Nat
  BY <1>1, TimesNat, TimesEmpty
<1>4. Times(b, T[r]) <= Count(T, b)
  BY <1>2, CountUpdate
<1>5. Times(b, blocks[p]) <= Count(T, b)
  BY <1>1, <1>2, <1>4, TimesEmpty
<1>6. Count(U, b) = Count(T, b) + Times(b, blocks[p])
  BY <1>2, <1>3
<1> QED BY <1>1, <1>2, <1>5, <1>6, RefKeeps

LEMMA UnrefWhole ==
  ASSUME IInv, IInv', RefInv, NEW blocks \in [Pools -> Seq(Blocks)], Unref(blocks),
         NEW p \in Pools, NEW b \in Blocks, NEW s \in Slots, OthersKept(p, s),
         Held(p)[s] = blocks[p], Held(p)'[s] = <<>>
  PROVE  BlockOK(p, b)'
<1>1. Times(b, blocks[p]) \in Nat /\ Times(b, <<>>) = 0
  BY TimesNat, TimesEmpty
<1>2. Times(b, Held(p)[s]) = Times(b, Held(p)'[s]) + Times(b, blocks[p])
  <2>1. \A n \in Nat : n = 0 + n
    OBVIOUS
  <2> QED BY <1>1, <2>1
<1> QED BY <1>2, UnrefSlot

LEMMA RefsDropDraft ==
  ASSUME IInv, IInv', RefInv, NEW l \in Lanes, DropDraft(l), NEW p \in Pools, NEW b \in Blocks
  PROVE  BlockOK(p, b)'
<1> DEFINE blocks == [q \in Pools |-> IF q = "proposer" THEN drafted[l].blocks ELSE <<>>]
<1>1. /\ Unref(blocks) /\ UNCHANGED <<canonical, shadow, old>>
      /\ drafted' = [drafted EXCEPT ![l] = NoTable] /\ drafted \in [Lanes -> Table]
  BY DEF DropDraft, IInv, Typed
<1>2. blocks \in [Pools -> Seq(Blocks)]
  <2>1. drafted[l].blocks \in Seq(Blocks) /\ <<>> \in Seq(Blocks)
    BY <1>1 DEF Table
  <2> QED BY <2>1
<1>3. <<4, l>> \in Slots /\ Held(p)[<<4, l>>] = blocks[p]
      /\ Held(p)'[<<4, l>>] = IF p = "proposer" THEN drafted'[l].blocks ELSE <<>>
  BY HeldAt
<1>4. Held(p)'[<<4, l>>] = <<>>
  BY <1>1, <1>3, NoTableIs
<1>5. OthersKept(p, <<4, l>>)
  BY <1>1 DEF OthersKept
<1> HIDE DEF blocks
<1> QED BY <1>1, <1>2, <1>3, <1>4, <1>5, UnrefWhole

LEMMA RefsDropOld ==
  ASSUME IInv, IInv', RefInv, NEW l \in Lanes, DropOld(l), NEW p \in Pools, NEW b \in Blocks
  PROVE  BlockOK(p, b)'
<1> DEFINE blocks == [q \in Pools |-> old[q][l].blocks]
<1>1. /\ Unref(blocks) /\ UNCHANGED <<canonical, shadow, drafted>>
      /\ old' = [q \in Pools |-> [old[q] EXCEPT ![l] = NoTable]] /\ old \in Tables
  BY DEF DropOld, IInv, Typed
<1>2. blocks \in [Pools -> Seq(Blocks)]
  BY <1>1 DEF Table, Tables
<1>3. <<3, l>> \in Slots /\ Held(p)[<<3, l>>] = blocks[p] /\ Held(p)'[<<3, l>>] = old'[p][l].blocks
  BY HeldAt
<1>4. Held(p)'[<<3, l>>] = <<>>
  BY <1>1, <1>3, NoTableIs DEF Tables
<1>5. OthersKept(p, <<3, l>>)
  BY <1>1 DEF OthersKept, Tables
<1> HIDE DEF blocks
<1> QED BY <1>1, <1>2, <1>3, <1>4, <1>5, UnrefWhole

LEMMA RefsReturnBlocks ==
  ASSUME Unwindowed, IInv, IInv', RefInv, NEW l \in Lanes, ReturnBlocks(l),
         NEW p \in Pools, NEW b \in Blocks
  PROVE  BlockOK(p, b)'
<1> DEFINE blocks == [q \in Pools |-> LET t == canonical[q][l]
                                      IN  SubSeq(t.blocks, t.head + 1, Len(t.blocks))]
<1>1. /\ Unref(blocks) /\ UNCHANGED <<shadow, drafted, old>>
      /\ canonical' = [q \in Pools |-> [canonical[q] EXCEPT ![l] = NoTable]] /\ canonical \in Tables
  BY DEF ReturnBlocks, IInv, Typed
<1>2. ASSUME NEW q \in Pools
      PROVE  blocks[q] = canonical[q][l].blocks /\ canonical[q][l].blocks \in Seq(Blocks)
  <2>1. PICK s \in Seq(Blocks) : s = canonical[q][l].blocks
    BY <1>1 DEF Table, Tables
  <2>2. canonical[q][l].head = 0
    BY DEF IInv, AllBacked, Backed
  <2>3. SubSeq(s, 1, Len(s)) = s
    <3>1. SubSeq(s, 1, Len(s)) \in Seq(Blocks) /\ Len(SubSeq(s, 1, Len(s))) = Len(s)
          /\ \A i \in 1 .. Len(s) : SubSeq(s, 1, Len(s))[i] = s[i]
      OBVIOUS
    <3> QED BY <3>1, SeqEqual
  <2> QED BY <2>1, <2>2, <2>3
<1>3. blocks \in [Pools -> Seq(Blocks)]
  <2>1. DOMAIN blocks = Pools /\ blocks = [q \in Pools |-> blocks[q]]
    OBVIOUS
  <2> HIDE DEF blocks
  <2> QED BY <1>2, <2>1
<1> HIDE DEF blocks
<1>4. <<1, l>> \in Slots /\ Held(p)[<<1, l>>] = canonical[p][l].blocks
      /\ Held(p)'[<<1, l>>] = canonical'[p][l].blocks
  BY HeldAt
<1>5. Held(p)'[<<1, l>>] = <<>> /\ Held(p)[<<1, l>>] = blocks[p]
  BY <1>1, <1>2, <1>4, NoTableIs DEF Tables
<1>6. OthersKept(p, <<1, l>>)
  BY <1>1 DEF OthersKept, Tables
<1> QED BY <1>1, <1>3, <1>4, <1>5, <1>6, UnrefWhole

LEMMA RefsCopy ==
  ASSUME IInv, IInv', RefInv, NEW l \in Lanes, Copy(l), NEW p \in Pools, NEW b \in Blocks
  PROVE  BlockOK(p, b)'
<1> DEFINE blocks == [q \in Pools |-> IF q = "proposer" THEN shadow[q][l].blocks ELSE <<>>]
<1>1. /\ Ref(blocks) /\ UNCHANGED <<canonical, shadow, old>> /\ pc = "copy" /\ l \in todo
      /\ drafted' = [drafted EXCEPT ![l] = shadow["proposer"][l]] /\ drafted \in [Lanes -> Table]
      /\ shadow \in Tables
  BY DEF Copy, Turn, IInv, Typed
<1>2. blocks \in [Pools -> Seq(Blocks)]
  <2>1. \A q \in Pools : shadow[q][l].blocks \in Seq(Blocks) /\ <<>> \in Seq(Blocks)
    BY <1>1 DEF Table, Tables
  <2> QED BY <2>1
<1>3. /\ <<2, l>> \in Slots /\ <<4, l>> \in Slots /\ Held(p)[<<2, l>>] = shadow[p][l].blocks
      /\ Held(p)[<<4, l>>] = IF p = "proposer" THEN drafted[l].blocks ELSE <<>>
      /\ Held(p)'[<<4, l>>] = IF p = "proposer" THEN drafted'[l].blocks ELSE <<>>
  BY HeldAt
<1>4. drafted[l] = NoTable
  BY <1>1 DEF RefInv, Clean, Drafts
<1>5. Held(p)[<<4, l>>] = <<>> /\ Held(p)'[<<4, l>>] = blocks[p]
      /\ (blocks[p] = <<>> \/ blocks[p] = Held(p)[<<2, l>>])
  BY <1>1, <1>3, <1>4, NoTableIs
<1>6. OthersKept(p, <<4, l>>)
  BY <1>1 DEF OthersKept
<1> HIDE DEF blocks
<1> QED BY <1>1, <1>2, <1>3, <1>5, <1>6, RefSlot

LEMMA RefsClone ==
  ASSUME IInv, IInv', RefInv, NEW l \in Lanes, Clone(l), NEW p \in Pools, NEW b \in Blocks
  PROVE  BlockOK(p, b)'
<1> DEFINE blocks == [q \in Pools |-> IF q \in PoolsOf(kind) THEN canonical[q][l].blocks ELSE <<>>]
<1>1. /\ Ref(blocks) /\ UNCHANGED <<canonical, drafted, old>> /\ pc = "clone" /\ l \in todo
      /\ shadow' = [q \in Pools |->
           IF q \in PoolsOf(kind) THEN [shadow[q] EXCEPT ![l] = canonical[q][l]] ELSE shadow[q]]
      /\ shadow \in Tables /\ canonical \in Tables
  BY DEF Clone, Turn, IInv, Typed
<1>2. blocks \in [Pools -> Seq(Blocks)]
  <2>1. \A q \in Pools : canonical[q][l].blocks \in Seq(Blocks) /\ <<>> \in Seq(Blocks)
    BY <1>1 DEF Table, Tables
  <2> QED BY <2>1
<1>3. /\ <<1, l>> \in Slots /\ <<2, l>> \in Slots /\ Held(p)[<<1, l>>] = canonical[p][l].blocks
      /\ Held(p)[<<2, l>>] = shadow[p][l].blocks /\ Held(p)'[<<2, l>>] = shadow'[p][l].blocks
  BY HeldAt
<1>4. shadow[p][l] = NoTable
  BY <1>1 DEF RefInv, Clean, Idle
<1>5. Held(p)[<<2, l>>] = <<>> /\ Held(p)'[<<2, l>>] = blocks[p]
      /\ (blocks[p] = <<>> \/ blocks[p] = Held(p)[<<1, l>>])
  BY <1>1, <1>3, <1>4, NoTableIs DEF Tables
<1>6. OthersKept(p, <<2, l>>)
  BY <1>1 DEF OthersKept, Tables
<1> HIDE DEF blocks
<1> QED BY <1>1, <1>2, <1>3, <1>5, <1>6, RefSlot

LEMMA RefsTruncate ==
  ASSUME IInv, IInv', RefInv, NEW l \in Lanes, Truncate(l), NEW p \in Pools, NEW b \in Blocks
  PROVE  BlockOK(p, b)'
<1> DEFINE blocks == [q \in Pools |-> IF q \notin CutPools THEN <<>>
                        ELSE LET bs == shadow[q][l].blocks
                             IN  SubSeq(bs, Needed(q, l) + 1, Len(bs))]
<1>1. /\ Unref(blocks) /\ UNCHANGED <<canonical, drafted, old>> /\ pc = "truncate" /\ l \in todo
      /\ shadow' = [q \in Pools |-> IF q \notin CutPools THEN shadow[q]
                      ELSE [shadow[q] EXCEPT ![l] = Cut(q, l)]]
      /\ \A q \in CutPools : Needed(q, l) <= Len(shadow[q][l].blocks)
      /\ shadow \in Tables
  BY DEF Truncate, Turn, IInv, Typed, Control
<1>2. \A q \in Pools : shadow[q][l].blocks \in Seq(Blocks) /\ <<>> \in Seq(Blocks)
  BY <1>1 DEF Table, Tables
<1>3. \A q \in CutPools : Needed(q, l) \in Nat
  BY <1>1, NeededIs
<1>4. blocks \in [Pools -> Seq(Blocks)]
  <2>1. \A s \in Seq(Blocks), k \in Nat : SubSeq(s, k + 1, Len(s)) \in Seq(Blocks)
    OBVIOUS
  <2> QED BY <1>2, <1>3, <2>1
<1>5. /\ <<2, l>> \in Slots /\ Held(p)[<<2, l>>] = shadow[p][l].blocks
      /\ Held(p)'[<<2, l>>] = shadow'[p][l].blocks
  BY HeldAt
<1>6. OthersKept(p, <<2, l>>)
  BY <1>1 DEF OthersKept, Tables
<1>7. Times(b, shadow[p][l].blocks) = Times(b, shadow'[p][l].blocks) + Times(b, blocks[p])
  <2>1. CASE p \notin CutPools
    <3>1. shadow'[p] = shadow[p] /\ blocks[p] = <<>>
      BY <1>1, <2>1
    <3>2. Times(b, shadow[p][l].blocks) \in Nat /\ Times(b, <<>>) = 0
      BY <1>2, TimesNat, TimesEmpty
    <3>3. \A n \in Nat : n = n + 0
      OBVIOUS
    <3> QED BY <3>1, <3>2, <3>3
  <2>2. CASE p \in CutPools
    <3>1. PICK s \in Seq(Blocks), k \in Nat : s = shadow[p][l].blocks /\ k = Needed(p, l)
      BY <1>2, <1>3, <2>2
    <3>2. k <= Len(s)
      BY <1>1, <2>2, <3>1
    <3>3. blocks[p] = SubSeq(s, k + 1, Len(s))
      BY <2>2, <3>1
    <3>4. shadow'[p][l].blocks = SubSeq(s, 1, k)
      <4>1. shadow'[p][l] = Cut(p, l)
        BY <1>1, <2>2 DEF Tables
      <4>2. shadow[p][l] \in Table
        BY <1>1 DEF Tables
      <4> QED BY <3>1, <4>1, <4>2 DEF Cut, Table
    <3>5. Times(b, s) = Times(b, SubSeq(s, 1, k)) + Times(b, SubSeq(s, k + 1, Len(s)))
      BY <3>2, TimesCut
    <3> QED BY <3>1, <3>3, <3>4, <3>5
  <2> QED BY <2>1, <2>2
<1> HIDE DEF blocks
<1> QED BY <1>1, <1>4, <1>5, <1>6, <1>7, UnrefSlot

LEMMA RefsDiscard ==
  ASSUME IInv, IInv', RefInv, NEW l \in Lanes, Discard(l), NEW p \in Pools, NEW b \in Blocks
  PROVE  BlockOK(p, b)'
<1> DEFINE blocks == [q \in Pools |-> Drained(q, l)]
<1>1. /\ Unref(blocks) /\ UNCHANGED <<canonical, old>>
      /\ shadow' = [q \in Pools |-> [shadow[q] EXCEPT ![l] = NoTable]]
      /\ drafted' = [drafted EXCEPT ![l] = NoTable]
      /\ shadow \in Tables /\ drafted \in [Lanes -> Table]
  BY DEF Discard, IInv, Typed
<1>2. PICK T, U : T = Held(p) /\ U = Held(p)'
  OBVIOUS
<1>3. T \in Holdings /\ U \in Holdings
  BY <1>2, HeldTypes, HeldTypesNext
<1>4. PICK r, s : r = <<2, l>> /\ s = <<4, l>> /\ r # s /\ r \in Slots /\ s \in Slots
  <2>1. <<2, l>> \in Slots /\ <<4, l>> \in Slots
    BY HeldAt
  <2>2. <<2, l>> # <<4, l>>
    OBVIOUS
  <2> QED BY <2>1, <2>2
<1>5. ASSUME NEW m \in Lanes
      PROVE  /\ T[<<1, m>>] = canonical[p][m].blocks /\ T[<<2, m>>] = shadow[p][m].blocks
             /\ T[<<3, m>>] = old[p][m].blocks
             /\ T[<<4, m>>] = IF p = "proposer" THEN drafted[m].blocks ELSE <<>>
             /\ U[<<1, m>>] = canonical'[p][m].blocks /\ U[<<2, m>>] = shadow'[p][m].blocks
             /\ U[<<3, m>>] = old'[p][m].blocks
             /\ U[<<4, m>>] = IF p = "proposer" THEN drafted'[m].blocks ELSE <<>>
  BY <1>2, HeldAt
<1>6. PICK V : V = [T EXCEPT ![r] = <<>>]
  OBVIOUS
<1>7. V \in Holdings /\ V[r] = <<>> /\ V[s] = T[s] /\ \A o \in Slots : o # r => V[o] = T[o]
  BY <1>3, <1>4, <1>6 DEF Holdings
<1>8. U[r] = <<>> /\ U[s] = <<>>
  BY <1>1, <1>2, <1>4, <1>5, NoTableIs DEF Tables
<1>9. ASSUME NEW o \in Slots, o # s PROVE U[o] = V[o]
  <2>1. CASE o = r
    BY <1>7, <1>8, <2>1
  <2>2. CASE o # r
    <3>1. PICK m \in Lanes : o = <<1, m>> \/ o = <<2, m>> \/ o = <<3, m>> \/ o = <<4, m>>
      BY SlotCases
    <3>2. CASE o = <<1, m>>
      BY <1>1, <1>2, <1>7, <2>2, <3>2, <1>5
    <3>3. CASE o = <<2, m>>
      <4>1. m # l
        BY <1>4, <2>2, <3>3
      <4>2. shadow'[p][m] = shadow[p][m]
        BY <1>1, <4>1 DEF Tables
      <4> QED BY <1>2, <1>7, <2>2, <3>3, <4>2, <1>5
    <3>4. CASE o = <<3, m>>
      BY <1>1, <1>2, <1>7, <2>2, <3>4, <1>5
    <3>5. CASE o = <<4, m>>
      <4>1. m # l
        BY <1>4, <1>9, <3>5
      <4>2. drafted'[m] = drafted[m]
        BY <1>1, <4>1
      <4> QED BY <1>2, <1>7, <2>2, <3>5, <4>2, <1>5
    <3> QED BY <3>1, <3>2, <3>3, <3>4, <3>5
  <2> QED BY <2>1, <2>2
<1>10. /\ Count(V, b) + Times(b, T[r]) = Count(T, b) + Times(b, V[r])
      /\ Count(V, b) \in Nat /\ Count(T, b) \in Nat /\ Times(b, T[r]) \in Nat
  <2>1. T \in Holdings /\ V \in Holdings /\ r \in Slots /\ \A o \in Slots : o # r => V[o] = T[o]
    BY <1>3, <1>4, <1>7
  <2> QED BY <2>1, CountUpdate
<1>11. /\ Count(U, b) + Times(b, V[s]) = Count(V, b) + Times(b, U[s])
       /\ Count(U, b) \in Nat /\ Times(b, V[s]) \in Nat
  BY <1>3, <1>4, <1>7, <1>9, CountUpdate
<1>12. Drained(p, l) = T[r] \o T[s] /\ T[r] \in Seq(Blocks) /\ T[s] \in Seq(Blocks)
  <2>1. T[r] = shadow[p][l].blocks /\ T[s] = IF p = "proposer" THEN drafted[l].blocks ELSE <<>>
    BY <1>2, <1>4, <1>5
  <2> QED BY <1>3, <1>4, <2>1 DEF Drained, Holdings
<1>13. Times(b, Drained(p, l)) = Times(b, T[r]) + Times(b, T[s])
  BY <1>12, TimesConcat
<1>14. blocks \in [Pools -> Seq(Blocks)]
  <2>1. \A q \in Pools : shadow[q][l].blocks \in Seq(Blocks) /\ drafted[l].blocks \in Seq(Blocks)
    BY <1>1 DEF Table, Tables
  <2>2. \A x, y \in Seq(Blocks) : x \o y \in Seq(Blocks)
    OBVIOUS
  <2>3. <<>> \in Seq(Blocks)
    OBVIOUS
  <2>4. \A q \in Pools : Drained(q, l) \in Seq(Blocks)
    BY <2>1, <2>2, <2>3 DEF Drained
  <2> QED BY <2>4
<1>15. PICK t \in Nat, u \in Nat, v \in Nat, x \in Nat, y \in Nat, z \in Nat :
         /\ t = Count(T, b) /\ u = Count(U, b) /\ v = Count(V, b)
         /\ x = Times(b, T[r]) /\ y = Times(b, T[s]) /\ z = Times(b, blocks[p])
         /\ v + x = t + 0 /\ u + y = v + 0 /\ z = x + y
  BY <1>7, <1>8, <1>10, <1>11, <1>13, TimesEmpty
<1>16. u + z = t
  BY <1>15
<1>17. Count(U, b) + Times(b, blocks[p]) = Count(Held(p), b)
  BY <1>2, <1>15, <1>16
<1> HIDE DEF blocks
<1> QED BY <1>1, <1>2, <1>3, <1>14, <1>17, UnrefKeeps

LEMMA ToSetIs ==
  ASSUME NEW s \in Seq(Blocks)
  PROVE  ToSet(s) \in SUBSET Blocks /\ \A b : b \in ToSet(s) <=> \E i \in DOMAIN s : s[i] = b
BY DEF ToSet

LEMMA RestIs ==
  ASSUME NEW s \in Seq(Blocks), NEW k \in Nat, NEW n \in Nat, Len(s) = k + n
  PROVE  /\ SubSeq(s, k + 1, Len(s)) \in Seq(Blocks) /\ Len(SubSeq(s, k + 1, Len(s))) = n
         /\ \A i \in 1 .. n : SubSeq(s, k + 1, Len(s))[i] = s[k + i]
<1>1. SubSeq(s, k + 1, Len(s)) \in Seq(Blocks) /\ Len(SubSeq(s, k + 1, Len(s))) = n
  OBVIOUS
<1>2. ASSUME NEW i \in 1 .. n PROVE SubSeq(s, k + 1, Len(s))[i] = s[k + i]
  <2>1. SubSeq(s, k + 1, Len(s))[i] = s[k + 1 + i - 1]
    OBVIOUS
  <2>2. k + 1 + i - 1 = k + i
    OBVIOUS
  <2> QED BY <2>1, <2>2
<1> QED BY <1>1, <1>2

\* kv_prepare appends blocks nobody holds, each of them once.
LEMMA GrowthIs ==
  ASSUME Unwindowed, IInv, RefInv, NEW p \in Pools, NEW t \in Table, NEW n \in Nat, Fits(p, t, n),
         NEW a, a = Grown(p, t, n).blocks, NEW fresh,
         fresh = ToSet(SubSeq(a, Len(t.blocks) + 1, Len(a))), NEW b \in Blocks
  PROVE  /\ a \in Seq(Blocks) /\ fresh \in SUBSET Blocks
         /\ b \in fresh => refcounts[p][b] = 0
         /\ Times(b, a) = Times(b, t.blocks) + (IF b \in fresh THEN 1 ELSE 0)
<1>1. PICK g : g = Grown(p, t, n)
  OBVIOUS
<1>2. /\ g \in Table /\ Missing(t, n) \in Nat /\ Missing(t, n) <= Len(Allocatable(p))
      /\ Len(g.blocks) = Len(t.blocks) + Missing(t, n)
      /\ \A i \in 1 .. Len(t.blocks) : g.blocks[i] = t.blocks[i]
      /\ \A i \in 1 .. Missing(t, n) :
           g.blocks[Len(t.blocks) + i] = Allocatable(p)[i] /\ i \in DOMAIN Allocatable(p)
  <2>1. Typed
    BY DEF IInv
  <2>2. Prepared(p, t, n, g)
    BY <1>1, <2>1, GrownIs
  <2> QED BY <2>2 DEF Prepared
<1>3. PICK s \in Seq(Blocks), len \in Nat : s = t.blocks /\ len = Len(s)
  BY DEF Table
<1>4. PICK k \in Nat : k = Missing(t, n)
  BY <1>2
<1>5. a \in Seq(Blocks) /\ Len(a) = len + k
      /\ (\A i \in 1 .. len : a[i] = s[i])
      /\ \A i \in 1 .. k : a[len + i] = Allocatable(p)[i] /\ i \in DOMAIN Allocatable(p)
  <2>1. a = g.blocks /\ Len(t.blocks) = len
    BY <1>1, <1>3
  <2>2. a \in Seq(Blocks)
    BY <1>2, <2>1 DEF Table
  <2>3. Len(a) = len + k
    BY <1>2, <1>4, <2>1
  <2>4. \A i \in 1 .. len : a[i] = s[i]
    BY <1>2, <1>3, <2>1
  <2>5. \A i \in 1 .. k : a[len + i] = Allocatable(p)[i] /\ i \in DOMAIN Allocatable(p)
    BY <1>2, <1>4, <2>1
  <2> QED BY <2>2, <2>3, <2>4, <2>5
<1>6. PICK x : x = SubSeq(a, len + 1, Len(a))
  OBVIOUS
<1>7. x \in Seq(Blocks) /\ Len(x) = k
      /\ \A i \in 1 .. k : x[i] = Allocatable(p)[i] /\ i \in DOMAIN Allocatable(p)
  <2>1. x \in Seq(Blocks) /\ Len(x) = k /\ \A i \in 1 .. k : x[i] = a[len + i]
    BY <1>5, <1>6, RestIs
  <2> QED BY <1>5, <2>1
<1>8. DOMAIN x = 1 .. k
  BY <1>7
<1>9. /\ \A i \in DOMAIN Allocatable(p) : Allocatable(p)[i] \in free[p] \cup Cached(p)
      /\ \A i, j \in DOMAIN Allocatable(p) : Allocatable(p)[i] = Allocatable(p)[j] => i = j
  BY AllocatableIs DEF IInv
<1>10. \A i, j \in DOMAIN x : x[i] = x[j] => i = j
  BY <1>7, <1>8, <1>9
<1>11. fresh = ToSet(x)
  BY <1>3, <1>6
<1>12. Times(b, x) = IF b \in fresh THEN 1 ELSE 0
  BY <1>7, <1>10, <1>11, TimesOnce
<1>13. fresh \in SUBSET Blocks
  BY <1>7, <1>11, ToSetIs
<1>14. b \in fresh => refcounts[p][b] = 0
  <2> SUFFICES ASSUME b \in fresh PROVE refcounts[p][b] = 0
    OBVIOUS
  <2>1. b \in free[p] \cup Cached(p)
    BY <1>7, <1>8, <1>9, <1>11, ToSetIs
  <2> QED BY <2>1 DEF RefInv, BlockOK, Cached
<1>15. SubSeq(a, 1, len) = s
  <2>1. SubSeq(a, 1, len) \in Seq(Blocks) /\ Len(SubSeq(a, 1, len)) = len
        /\ \A i \in 1 .. len : SubSeq(a, 1, len)[i] = a[i]
    BY <1>5
  <2> QED BY <1>3, <1>5, <2>1, SeqEqual
<1>16. Times(b, a) = Times(b, SubSeq(a, 1, len)) + Times(b, SubSeq(a, len + 1, Len(a)))
  <2>1. len <= Len(a)
    BY <1>5
  <2> QED BY <1>5, <2>1, TimesCut
<1> QED BY <1>3, <1>5, <1>6, <1>12, <1>13, <1>14, <1>15, <1>16

\* One lane of an execution takes the blocks it appends, and gives none back.
LEMMA ExecutionRefs ==
  ASSUME Unwindowed, IInv, IInv', RefInv, NEW q \in Pools, NEW tables \in [Lanes -> Table],
         NEW l \in Lanes, NEW lanes, NEW advance \in [Lanes -> Nat], NEW moves \in [Lanes -> Nat],
         NEW good, NEW after, after = Executed(q, tables, l, lanes, advance, moves),
         Execution(q, tables, after, l, advance, good), \A m \in Lanes : Backed(tables[m]),
         NEW p \in Pools, NEW b \in Blocks, NEW s \in Slots, OthersKept(p, s),
         p = q => Held(p)[s] = tables[l].blocks /\ Held(p)'[s] = after[l].blocks,
         p # q => Held(p)'[s] = Held(p)[s]
  PROVE  BlockOK(p, b)'
<1> DEFINE t == [after[l] EXCEPT !.cursor = tables[l].cursor]
           fresh == ToSet(SubSeq(t.blocks, Len(tables[l].blocks) + 1, Len(t.blocks)))
           left == UNION {{m} \X (tables[m].head + 1 .. after[m].head) : m \in Lanes}
           gone == [c \in Blocks |-> Cardinality({e \in left : after[e[1]].blocks[e[2]] = c})]
           contents == [rows EXCEPT ![q] = Written(q, t, l, advance[l], good[l])]
<1>1. /\ Fits(q, tables[l], advance[l])
      /\ Store([None EXCEPT ![q] = fresh], [Nothing EXCEPT ![q] = gone], contents)
  BY DEF Execution
<1>2. Advanced(q, tables, after, l, lanes, advance, moves)
  BY <1>1, ExecutedIs DEF IInv
<1>3. after \in [Lanes -> Table] /\ after[l].blocks = Grown(q, tables[l], advance[l]).blocks
  BY <1>2 DEF Advanced
<1>4. \A m \in Lanes : tables[m].head = 0 /\ after[m].head = 0
  BY <1>2 DEF Advanced, Backed
<1>5. left = {}
  BY <1>4
<1>6. gone = [c \in Blocks |-> 0]
  <2>1. \A c : {e \in left : after[e[1]].blocks[e[2]] = c} = {}
    BY <1>5
  <2> HIDE DEF left
  <2>2. \A c : Cardinality({e \in left : after[e[1]].blocks[e[2]] = c}) = 0
    BY <2>1, FS_EmptySet
  <2> QED BY <2>2
<1>7. t.blocks = after[l].blocks
  BY <1>3 DEF Table
<1>8. PICK a : a = after[l].blocks
  OBVIOUS
<1>9. fresh = ToSet(SubSeq(a, Len(tables[l].blocks) + 1, Len(a)))
  BY <1>7, <1>8
<1> HIDE DEF t, fresh, left, gone, contents
<1>10. /\ a \in Seq(Blocks) /\ fresh \in SUBSET Blocks
       /\ b \in fresh => refcounts[q][b] = 0
       /\ Times(b, a) = Times(b, tables[l].blocks) + (IF b \in fresh THEN 1 ELSE 0)
  <2>1. tables[l] \in Table /\ advance[l] \in Nat
    OBVIOUS
  <2>2. PICK t0 \in Table, n \in Nat : t0 = tables[l] /\ n = advance[l]
    BY <2>1
  <2>3. Fits(q, t0, n) /\ a = Grown(q, t0, n).blocks
        /\ fresh = ToSet(SubSeq(a, Len(t0.blocks) + 1, Len(a)))
    BY <1>1, <1>3, <1>8, <1>9, <2>2
  <2>4. /\ a \in Seq(Blocks) /\ fresh \in SUBSET Blocks
        /\ b \in fresh => refcounts[q][b] = 0
        /\ Times(b, a) = Times(b, t0.blocks) + (IF b \in fresh THEN 1 ELSE 0)
    BY <2>3, GrowthIs
  <2> QED BY <2>2, <2>4
<1>11. PICK F, G : F = [None EXCEPT ![q] = fresh] /\ G = [Nothing EXCEPT ![q] = gone]
  OBVIOUS
<1>12. /\ F \in [Pools -> SUBSET Blocks] /\ G \in [Pools -> [Blocks -> Nat]]
       /\ F[p] = (IF p = q THEN fresh ELSE {}) /\ G[p][b] = 0 /\ Store(F, G, contents)
  BY <1>1, <1>6, <1>10, <1>11 DEF None, Nothing
<1>13. PICK T, U : T = Held(p) /\ U = Held(p)'
  OBVIOUS
<1>14. /\ U \in Holdings /\ Count(U, b) + Times(b, T[s]) = Count(T, b) + Times(b, U[s])
       /\ Count(U, b) \in Nat /\ Count(T, b) \in Nat
       /\ Times(b, T[s]) \in Nat /\ Times(b, U[s]) \in Nat
  BY <1>13, SlotChange
<1>15. PICK k \in Nat : k = IF b \in F[p] THEN 1 ELSE 0
  OBVIOUS
<1>16. Times(b, U[s]) = Times(b, T[s]) + k
  <2>1. CASE p = q
    BY <1>8, <1>10, <1>12, <1>13, <1>15, <2>1
  <2>2. CASE p # q
    <3>1. k = 0 /\ U[s] = T[s]
      BY <1>12, <1>13, <1>15, <2>2
    <3>2. \A n \in Nat : n + 0 = n
      OBVIOUS
    <3> QED BY <1>14, <3>1, <3>2
  <2> QED BY <2>1, <2>2
<1>17. PICK c \in Nat, u \in Nat, x \in Nat, y \in Nat :
         /\ c = Count(T, b) /\ u = Count(U, b) /\ x = Times(b, T[s]) /\ y = Times(b, U[s])
         /\ u + x = c + y /\ y = x + k
  BY <1>14, <1>16
<1>18. u + 0 = c + k
  BY <1>17
<1>19. Count(U, b) + G[p][b] = Count(Held(p), b) + (IF b \in F[p] THEN 1 ELSE 0)
  BY <1>12, <1>13, <1>15, <1>17, <1>18
<1>20. b \in F[p] => refcounts[p][b] = 0
  BY <1>10, <1>12
<1> QED BY <1>12, <1>13, <1>14, <1>19, <1>20, StoreKeeps

LEMMA ShadowRefs ==
  ASSUME Unwindowed, IInv, IInv', RefInv, NEW l \in Lanes, NEW q \in Pools, NEW lanes,
         NEW advance \in [Lanes -> Nat], NEW moves \in [Lanes -> Nat], NEW good,
         NEW tables, tables = shadow[q],
         NEW after, after = Executed(q, tables, l, lanes, advance, moves),
         Execution(q, tables, after, l, advance, good),
         shadow' = [shadow EXCEPT ![q] = after], UNCHANGED <<canonical, drafted, old>>,
         NEW p \in Pools, NEW b \in Blocks
  PROVE  BlockOK(p, b)'
<1>1. shadow \in Tables /\ tables \in [Lanes -> Table] /\ \A m \in Lanes : Backed(tables[m])
  BY DEF IInv, Typed, AllBacked, Tables
<1>2. Advanced(q, tables, after, l, lanes, advance, moves)
  <2>1. Fits(q, tables[l], advance[l]) /\ Typed
    BY DEF Execution, IInv
  <2> QED BY <1>1, <2>1, ExecutedIs
<1>3. /\ <<2, l>> \in Slots /\ Held(p)[<<2, l>>] = shadow[p][l].blocks
      /\ Held(p)'[<<2, l>>] = shadow'[p][l].blocks
  BY HeldAt
<1>4. /\ p = q => shadow[p] = tables /\ shadow'[p] = after
      /\ p # q => shadow'[p] = shadow[p]
  BY <1>1 DEF Tables
<1>5. OthersKept(p, <<2, l>>)
  BY <1>2, <1>4 DEF OthersKept, Advanced
<1>6. /\ p = q => Held(p)[<<2, l>>] = tables[l].blocks /\ Held(p)'[<<2, l>>] = after[l].blocks
      /\ p # q => Held(p)'[<<2, l>>] = Held(p)[<<2, l>>]
  BY <1>3, <1>4
<1> QED BY <1>1, <1>3, <1>5, <1>6, ExecutionRefs

LEMMA RefsExecutions ==
  ASSUME Unwindowed, IInv, IInv', RefInv, NEW l \in Lanes,
         DraftStep(l) \/ Verify(l) \/ Catchup(l) \/ Replay(l), NEW p \in Pools, NEW b \in Blocks
  PROVE  BlockOK(p, b)'
<1>0. /\ "target" \in Pools /\ "proposer" \in Pools
      /\ One \in [Lanes -> Nat] /\ Still \in [Lanes -> Nat] /\ page \in [Lanes -> Nat]
      /\ [m \in Lanes |-> draft[m] + 1] \in [Lanes -> Nat]
  <2>1. draft \in [Lanes -> 0 .. MaxDraft] /\ page \in [Lanes -> 0 .. MaxDraft + 1]
    BY DEF IInv, Typed
  <2>2. \A m \in Lanes : draft[m] + 1 \in Nat /\ page[m] \in Nat
    BY <2>1, Constants
  <2> QED BY <2>1, <2>2 DEF Pools, One, Still
<1>1. CASE DraftStep(l)
  <2>1. PICK tables, after, lanes, good :
          /\ tables = shadow["proposer"] /\ after = Executed("proposer", tables, l, lanes, One, One)
          /\ Execution("proposer", tables, after, l, One, good)
          /\ shadow' = [shadow EXCEPT !["proposer"] = after]
          /\ UNCHANGED <<canonical, drafted, old>>
    BY <1>1 DEF DraftStep
  <2> QED BY <1>0, <2>1, ShadowRefs
<1>2. CASE Verify(l)
  <2>1. PICK tables, after, advance, moves :
          /\ advance = [m \in Lanes |-> draft[m] + 1]
          /\ moves = (IF kind = "parallel" THEN advance ELSE Still)
          /\ tables = shadow["target"] /\ after = Executed("target", tables, l, batch, advance, moves)
          /\ Execution("target", tables, after, l, advance, page)
          /\ shadow' = [shadow EXCEPT !["target"] = after]
          /\ UNCHANGED <<canonical, drafted, old>>
    BY <1>2 DEF Verify
  <2>2. advance \in [Lanes -> Nat] /\ moves \in [Lanes -> Nat]
    BY <1>0, <2>1
  <2> QED BY <1>0, <2>1, <2>2, ShadowRefs
<1>3. CASE Catchup(l)
  <2>1. PICK tables, after :
          /\ tables = shadow["proposer"]
          /\ after = Executed("proposer", tables, l, Behind, One, Still)
          /\ Execution("proposer", tables, after, l, One, One)
          /\ shadow' = [shadow EXCEPT !["proposer"] = after]
          /\ UNCHANGED <<canonical, drafted, old>>
    BY <1>3 DEF Catchup
  <2> QED BY <1>0, <2>1, ShadowRefs
<1>4. CASE Replay(l)
  <2>1. PICK tables, after :
          /\ tables = shadow["proposer"]
          /\ after = Executed("proposer", tables, l, batch, page, page)
          /\ Execution("proposer", tables, after, l, page, page)
          /\ shadow' = [shadow EXCEPT !["proposer"] = after]
          /\ UNCHANGED <<canonical, drafted, old>>
    BY <1>4 DEF Replay
  <2> QED BY <1>0, <2>1, ShadowRefs
<1> QED BY <1>1, <1>2, <1>3, <1>4

LEMMA RefsDraftBlock ==
  ASSUME Unwindowed, IInv, IInv', RefInv, NEW l \in Lanes, DraftBlock(l),
         NEW p \in Pools, NEW b \in Blocks
  PROVE  BlockOK(p, b)'
<1>1. PICK q, advance, lanes, tables, after, good :
        /\ q = "proposer" /\ advance = [m \in Lanes |-> TrainedRows + 1] /\ tables = drafted
        /\ after = Executed(q, tables, l, lanes, advance, advance)
        /\ Execution(q, tables, after, l, advance, good)
        /\ drafted' = after /\ UNCHANGED <<canonical, shadow, old>>
  BY DEF DraftBlock
<1>2. q \in Pools /\ tables \in [Lanes -> Table] /\ \A m \in Lanes : Backed(tables[m])
  BY <1>1 DEF IInv, Typed, AllBacked, Pools
<1>3. advance \in [Lanes -> Nat]
  BY <1>1, Constants
<1>4. Advanced(q, tables, after, l, lanes, advance, advance)
  <2>1. Fits(q, tables[l], advance[l]) /\ Typed
    BY <1>1 DEF Execution, IInv
  <2> QED BY <1>1, <1>2, <1>3, <2>1, ExecutedIs
<1>5. /\ <<4, l>> \in Slots
      /\ Held(p)[<<4, l>>] = IF p = "proposer" THEN drafted[l].blocks ELSE <<>>
      /\ Held(p)'[<<4, l>>] = IF p = "proposer" THEN drafted'[l].blocks ELSE <<>>
  BY HeldAt
<1>6. OthersKept(p, <<4, l>>)
  BY <1>1, <1>4 DEF OthersKept, Advanced
<1>7. /\ p = q => Held(p)[<<4, l>>] = tables[l].blocks /\ Held(p)'[<<4, l>>] = after[l].blocks
      /\ p # q => Held(p)'[<<4, l>>] = Held(p)[<<4, l>>]
  <2>1. CASE p = "proposer"
    BY <1>1, <1>5, <2>1
  <2>2. CASE p # "proposer"
    <3>1. Held(p)'[<<4, l>>] = <<>> /\ Held(p)[<<4, l>>] = <<>>
      BY <1>5, <2>2
    <3> QED BY <1>1, <2>2, <3>1
  <2> QED BY <2>1, <2>2
<1>8. <<4, l>> \in Slots
  BY <1>5
<1>9. /\ after = Executed(q, tables, l, lanes, advance, advance)
      /\ Execution(q, tables, after, l, advance, good)
  BY <1>1
<1> QED BY <1>2, <1>3, <1>6, <1>7, <1>8, <1>9, ExecutionRefs

LEMMA RefsAdmit ==
  ASSUME IInv, IInv', RefInv, NEW l \in Lanes, NEW n \in Prompts, Admit(l, n),
         NEW p \in Pools, NEW b \in Blocks
  PROVE  BlockOK(p, b)'
<1>1. UNCHANGED <<shadow, drafted, old>> /\ l \notin Live /\ canonical \in Tables
  BY DEF Admit, IInv, Typed
<1>2. PICK size, tables : size = SizeOf(n) /\ Admitted(l, size, tables)
  BY AdmitIs
<1>3. PICK x, k : x = tables[p].blocks /\ k = BlocksFor(size[p])
  OBVIOUS
<1>4. /\ size[p] \in Nat /\ k <= Len(Allocatable(p)) /\ x = SubSeq(Allocatable(p), 1, k)
      /\ canonical' = [q \in Pools |-> [canonical[q] EXCEPT ![l] = tables[q]]]
      /\ refcounts' = [q \in Pools |-> Counts(q, ToSet(tables[q].blocks), Nothing[q])]
      /\ free' = [q \in Pools |-> free[q] \ ToSet(tables[q].blocks)]
      /\ hashed' = [q \in Pools |-> (hashed[q] \ ToSet(tables[q].blocks)) \cup
           {tables[q].blocks[i] : i \in 1 .. size[q] \div BlockSize}]
  BY <1>2, <1>3 DEF Admitted
<1>5. k \in Nat
  BY <1>3, <1>4, BlocksReach
<1>6. x \in Seq(Blocks) /\ Len(x) = k
      /\ \A i \in 1 .. k : x[i] = Allocatable(p)[i] /\ i \in DOMAIN Allocatable(p)
  BY <1>4, <1>5, FirstAllocatable DEF IInv
<1>7. DOMAIN x = 1 .. k
  BY <1>6
<1>8. /\ \A i \in DOMAIN Allocatable(p) : Allocatable(p)[i] \in free[p] \cup Cached(p)
      /\ \A i, j \in DOMAIN Allocatable(p) : Allocatable(p)[i] = Allocatable(p)[j] => i = j
  BY AllocatableIs DEF IInv
<1>9. Times(b, x) = IF b \in ToSet(x) THEN 1 ELSE 0
  <2>1. \A i, j \in DOMAIN x : x[i] = x[j] => i = j
    BY <1>6, <1>7, <1>8
  <2> QED BY <1>6, <2>1, TimesOnce
<1>10. b \in ToSet(x) => refcounts[p][b] = 0
  <2> SUFFICES ASSUME b \in ToSet(x) PROVE refcounts[p][b] = 0
    OBVIOUS
  <2>1. b \in free[p] \cup Cached(p)
    BY <1>6, <1>7, <1>8, ToSetIs
  <2> QED BY <2>1 DEF RefInv, BlockOK, Cached
<1>11. PICK r \in Nat : r = refcounts[p][b]
  BY DEF IInv, Typed, Stores
<1>12. /\ r = Count(Held(p), b) /\ (b \in free[p] => r = 0) /\ (r = 0 => b \in free[p] \cup hashed[p])
  BY <1>11 DEF RefInv, BlockOK
<1>13. PICK F : F = ToSet(x)
  OBVIOUS
<1>14. /\ free'[p] = free[p] \ F /\ hashed[p] \ F \subseteq hashed'[p]
       /\ refcounts'[p][b] = IF b \in F THEN 1 ELSE r
  <2>1. free'[p] = free[p] \ F /\ hashed[p] \ F \subseteq hashed'[p]
        /\ refcounts'[p] = Counts(p, F, Nothing[p])
    BY <1>3, <1>4, <1>13
  <2>2. Counts(p, F, Nothing[p])[b] = Larger(0, (IF b \in F THEN 1 ELSE r) - 0)
    BY <1>11 DEF Counts, Nothing
  <2>3. Larger(0, (IF b \in F THEN 1 ELSE r) - 0) = IF b \in F THEN 1 ELSE r
    BY DEF Larger
  <2> QED BY <2>1, <2>2, <2>3
<1>15. canonical[p][l] = NoTable /\ canonical'[p][l] = tables[p]
  <2>1. canonical["target"][l] = NoTable
    BY <1>1 DEF Live
  <2>2. canonical["proposer"][l] = NoTable
    BY <1>1 DEF RefInv, Gone
  <2> QED BY <1>1, <1>4, <2>1, <2>2 DEF Pools, Tables
<1>16. PICK s : s = <<1, l>>
  OBVIOUS
<1>17. s \in Slots /\ Held(p)[s] = <<>> /\ Held(p)'[s] = x
  BY <1>3, <1>15, <1>16, HeldAt, NoTableIs
<1>18. OthersKept(p, s)
  BY <1>1, <1>4, <1>16 DEF OthersKept, Tables
<1>19. PICK T, U : T = Held(p) /\ U = Held(p)'
  OBVIOUS
<1>20. /\ Count(U, b) + Times(b, T[s]) = Count(T, b) + Times(b, U[s])
       /\ Count(U, b) \in Nat /\ Count(T, b) \in Nat
  BY <1>17, <1>18, <1>19, SlotChange
<1>21. Times(b, T[s]) = 0 /\ Times(b, U[s]) = IF b \in F THEN 1 ELSE 0
  BY <1>9, <1>13, <1>17, <1>19, TimesEmpty
<1>22. PICK u \in Nat : u = Count(U, b) /\ u + 0 = r + (IF b \in F THEN 1 ELSE 0)
  BY <1>12, <1>19, <1>20, <1>21
<1>23. /\ u = (IF b \in F THEN 1 ELSE r)
  BY <1>10, <1>11, <1>13, <1>22
<1>24. refcounts'[p][b] = Count(Held(p)', b)
  BY <1>14, <1>19, <1>22, <1>23
<1> QED BY <1>10, <1>11, <1>12, <1>13, <1>14, <1>24 DEF BlockOK

LEMMA RefsSame ==
  ASSUME RefInv, UNCHANGED <<canonical, shadow, old, drafted, free, refcounts>>,
         NEW p \in Pools, NEW b \in Blocks, hashed[p] \subseteq hashed'[p]
  PROVE  BlockOK(p, b)'
<1>1. Held(p)' = Held(p)
  BY DEF Held
<1>2. BlockOK(p, b)
  BY DEF RefInv
<1> QED BY <1>1, <1>2 DEF BlockOK

\* The tables of some lanes move round: 2 to 1, 3 to 2, 1 to 3.
Rotation(D) ==
  [s \in Slots |-> IF s[2] \notin D THEN s ELSE <<<<2, 3, 1, 4>>[s[1]], s[2]>>]

LEMMA RotationIs ==
  ASSUME NEW D
  PROVE  /\ Rotation(D) \in Bijection(Slots, Slots)
         /\ \A l \in Lanes :
              /\ Rotation(D)[<<1, l>>] = IF l \in D THEN <<2, l>> ELSE <<1, l>>
              /\ Rotation(D)[<<2, l>>] = IF l \in D THEN <<3, l>> ELSE <<2, l>>
              /\ Rotation(D)[<<3, l>>] = IF l \in D THEN <<1, l>> ELSE <<3, l>>
              /\ Rotation(D)[<<4, l>>] = <<4, l>>
<1>1. ASSUME NEW l \in Lanes
      PROVE  /\ <<1, l>> \in Slots /\ <<2, l>> \in Slots /\ <<3, l>> \in Slots /\ <<4, l>> \in Slots
             /\ Rotation(D)[<<1, l>>] = IF l \in D THEN <<2, l>> ELSE <<1, l>>
             /\ Rotation(D)[<<2, l>>] = IF l \in D THEN <<3, l>> ELSE <<2, l>>
             /\ Rotation(D)[<<3, l>>] = IF l \in D THEN <<1, l>> ELSE <<3, l>>
             /\ Rotation(D)[<<4, l>>] = <<4, l>>
  <2>1. <<1, l>> \in Slots /\ <<2, l>> \in Slots /\ <<3, l>> \in Slots /\ <<4, l>> \in Slots
    BY DEF Slots
  <2> QED BY <2>1 DEF Rotation
<1>2. PICK f : f = Rotation(D)
  OBVIOUS
<1>3. DOMAIN f = Slots /\ f = [s \in Slots |-> f[s]]
  BY <1>2 DEF Rotation
<1>4. \A s \in Slots : f[s] \in Slots /\ f[s][2] = s[2]
  <2> TAKE s \in Slots
  <2>1. PICK l \in Lanes : s = <<1, l>> \/ s = <<2, l>> \/ s = <<3, l>> \/ s = <<4, l>>
    BY SlotCases
  <2>2. <<1, l>>[2] = l /\ <<2, l>>[2] = l /\ <<3, l>>[2] = l /\ <<4, l>>[2] = l
    OBVIOUS
  <2>3. CASE l \in D
    <3>1. f[<<1, l>>] = <<2, l>> /\ f[<<2, l>>] = <<3, l>> /\ f[<<3, l>>] = <<1, l>>
          /\ f[<<4, l>>] = <<4, l>>
      BY <1>1, <1>2, <2>3
    <3>2. <<1, l>> \in Slots /\ <<2, l>> \in Slots /\ <<3, l>> \in Slots /\ <<4, l>> \in Slots
      BY <1>1
    <3> QED BY <2>1, <2>2, <3>1, <3>2
  <2>4. CASE l \notin D
    BY <1>1, <1>2, <2>1, <2>2, <2>4
  <2> QED BY <2>3, <2>4
<1>5. \A r, s \in Slots : f[r] = f[s] => r = s
  <2> SUFFICES ASSUME NEW r \in Slots, NEW s \in Slots, f[r] = f[s] PROVE r = s
    OBVIOUS
  <2>1. PICK l \in Lanes : s = <<1, l>> \/ s = <<2, l>> \/ s = <<3, l>> \/ s = <<4, l>>
    BY SlotCases
  <2>2. PICK m \in Lanes : r = <<1, m>> \/ r = <<2, m>> \/ r = <<3, m>> \/ r = <<4, m>>
    BY SlotCases
  <2>3. l = m
    BY <1>4, <2>1, <2>2
  <2>4. /\ <<1, l>> # <<2, l>> /\ <<1, l>> # <<3, l>> /\ <<1, l>> # <<4, l>>
        /\ <<2, l>> # <<3, l>> /\ <<2, l>> # <<4, l>> /\ <<3, l>> # <<4, l>>
    OBVIOUS
  <2>5. CASE l \in D
    <3>1. f[<<1, l>>] = <<2, l>> /\ f[<<2, l>>] = <<3, l>> /\ f[<<3, l>>] = <<1, l>>
          /\ f[<<4, l>>] = <<4, l>>
      BY <1>1, <1>2, <2>5
    <3> QED BY <2>1, <2>2, <2>3, <2>4, <3>1
  <2>6. CASE l \notin D
    <3>1. f[<<1, l>>] = <<1, l>> /\ f[<<2, l>>] = <<2, l>> /\ f[<<3, l>>] = <<3, l>>
          /\ f[<<4, l>>] = <<4, l>>
      BY <1>1, <1>2, <2>6
    <3> QED BY <2>1, <2>2, <2>3, <2>4, <3>1
  <2> QED BY <2>5, <2>6
<1>6. \A s \in Slots : \E r \in Slots : f[r] = s
  <2> TAKE s \in Slots
  <2>1. PICK l \in Lanes : s = <<1, l>> \/ s = <<2, l>> \/ s = <<3, l>> \/ s = <<4, l>>
    BY SlotCases
  <2> QED BY <1>1, <1>2, <2>1
<1>7. f \in Bijection(Slots, Slots)
  BY <1>3, <1>4, <1>5, <1>6 DEF Bijection, Injection, Surjection, IsInjective
<1> QED BY <1>1, <1>2, <1>7

LEMMA RefsCommit ==
  ASSUME IInv, IInv', RefInv, Commit, NEW p \in Pools, NEW b \in Blocks
  PROVE  BlockOK(p, b)'
<1>1. /\ pc = "commit" /\ UNCHANGED <<free, refcounts, drafted>> /\ shadow' = NoTables
      /\ \A l \in Lanes :
           /\ canonical'[p][l] =
                IF l \in batch /\ p \in PoolsOf(kind) THEN shadow[p][l] ELSE canonical[p][l]
           /\ old'[p][l] =
                IF l \in batch /\ p \in PoolsOf(kind) THEN canonical[p][l] ELSE NoTable
           /\ shadow'[p][l] = NoTable
      /\ hashed[p] \subseteq hashed'[p]
  BY DEF Commit, Taken, NoTables, IInv, Typed, Stores
<1>2. PICK D : D = {l \in Lanes : l \in batch /\ p \in PoolsOf(kind)}
  OBVIOUS
<1>3. \A l \in Lanes : old[p][l] = NoTable /\ (l \notin D => shadow[p][l] = NoTable)
  BY <1>1, <1>2 DEF RefInv, Clean, Idle
<1>4. PICK T, U, f : T = Held(p) /\ U = Held(p)' /\ f = Rotation(D)
  OBVIOUS
<1>5. T \in Holdings /\ U \in Holdings /\ f \in Bijection(Slots, Slots)
  BY <1>4, HeldTypes, HeldTypesNext, RotationIs
<1>6. ASSUME NEW l \in Lanes
      PROVE  /\ T[<<1, l>>] = canonical[p][l].blocks /\ T[<<2, l>>] = shadow[p][l].blocks
             /\ T[<<3, l>>] = old[p][l].blocks
             /\ T[<<4, l>>] = IF p = "proposer" THEN drafted[l].blocks ELSE <<>>
             /\ U[<<1, l>>] = canonical'[p][l].blocks /\ U[<<2, l>>] = shadow'[p][l].blocks
             /\ U[<<3, l>>] = old'[p][l].blocks
             /\ U[<<4, l>>] = IF p = "proposer" THEN drafted'[l].blocks ELSE <<>>
  BY <1>4, HeldAt
<1>7. ASSUME NEW l \in Lanes
      PROVE  /\ U[<<1, l>>] = T[f[<<1, l>>]] /\ U[<<2, l>>] = T[f[<<2, l>>]]
             /\ U[<<3, l>>] = T[f[<<3, l>>]] /\ U[<<4, l>>] = T[f[<<4, l>>]]
  <2>1. /\ f[<<1, l>>] = (IF l \in D THEN <<2, l>> ELSE <<1, l>>)
        /\ f[<<2, l>>] = (IF l \in D THEN <<3, l>> ELSE <<2, l>>)
        /\ f[<<3, l>>] = (IF l \in D THEN <<1, l>> ELSE <<3, l>>)
        /\ f[<<4, l>>] = <<4, l>>
    BY <1>4, RotationIs
  <2>2. U[<<4, l>>] = T[<<4, l>>]
    BY <1>1, <1>6
  <2>3. CASE l \in D
    <3>1. canonical'[p][l] = shadow[p][l] /\ old'[p][l] = canonical[p][l]
          /\ shadow'[p][l] = old[p][l]
      BY <1>1, <1>2, <1>3, <2>3
    <3> QED BY <1>6, <2>1, <2>2, <2>3, <3>1
  <2>4. CASE l \notin D
    <3>1. canonical'[p][l] = canonical[p][l] /\ old'[p][l] = old[p][l]
          /\ shadow'[p][l] = shadow[p][l]
      BY <1>1, <1>2, <1>3, <2>4
    <3> QED BY <1>6, <2>1, <2>2, <2>4, <3>1
  <2> QED BY <2>3, <2>4
<1>8. \A s \in Slots : U[s] = T[f[s]]
  <2> TAKE s \in Slots
  <2>1. PICK l \in Lanes : s = <<1, l>> \/ s = <<2, l>> \/ s = <<3, l>> \/ s = <<4, l>>
    BY SlotCases
  <2> QED BY <1>7, <2>1
<1>9. Count(U, b) = Count(T, b)
  BY <1>5, <1>8, CountPermute
<1>10. BlockOK(p, b)
  BY DEF RefInv
<1> QED BY <1>1, <1>4, <1>9, <1>10 DEF BlockOK

LEMMA GoneSame ==
  ASSUME Gone, canonical' = canonical
  PROVE  Gone'
BY DEF Gone, Live

LEMMA GoneCommit ==
  ASSUME IInv, IInv', Gone, Commit
  PROVE  Gone'
<1>1. /\ batch' = batch /\ batch \subseteq Live'
      /\ \A p \in Pools, l \in Lanes : l \notin batch => canonical'[p][l] = canonical[p][l]
  BY DEF Commit, callVars, IInv, Control
<1> QED BY <1>1 DEF Gone, Live, Pools

LEMMA GoneReturnBlocks ==
  ASSUME IInv, Gone, NEW l \in Lanes, ReturnBlocks(l)
  PROVE  Gone'
<1>1. \A p \in Pools, m \in Lanes :
        canonical'[p][m] = IF m = l THEN NoTable ELSE canonical[p][m]
  BY DEF ReturnBlocks, IInv, Typed, Tables
<1> QED BY <1>1 DEF Gone, Live, Pools

LEMMA GoneAdmit ==
  ASSUME IInv, Gone, NEW l \in Lanes, NEW n \in Prompts, Admit(l, n)
  PROVE  Gone'
<1>1. PICK size, tables : size = SizeOf(n) /\ Admitted(l, size, tables)
  BY AdmitIs
<1>2. size["target"] = n /\ n # 0 /\ "target" \in Pools
  BY <1>1, SpeculativeConstants DEF SizeOf, PoolsOf, Pools
<1>3. tables["target"].cursor = n
  BY <1>1, <1>2 DEF Admitted
<1>4. \A p \in Pools, m \in Lanes :
        canonical'[p][m] = IF m = l THEN tables[p] ELSE canonical[p][m]
  BY <1>1 DEF Admitted, IInv, Typed, Tables
<1>5. canonical'["target"][l] # NoTable
  BY <1>2, <1>3, <1>4, NoTableIs
<1> QED BY <1>4, <1>5 DEF Gone, Live, Pools

LEMMA RefInit ==
  ASSUME Init
  PROVE  RefInv
<1>1. Clean /\ Gone
  BY DEF Init, Clean, Gone, NoTables, Pools
<1>2. ASSUME NEW p \in Pools, NEW b \in Blocks PROVE BlockOK(p, b)
  <2>1. \A s \in Slots : Held(p)[s] = <<>>
    <3> TAKE s \in Slots
    <3>1. s[2] \in Lanes
      BY DEF Slots
    <3> QED BY <3>1, NoTableIs DEF Held, Init, NoTables
  <2>2. Spots(Held(p), b) = {}
    <3> SUFFICES ASSUME NEW e \in Spots(Held(p), b) PROVE FALSE
      OBVIOUS
    <3>1. e[1] \in Slots /\ e[2] \in DOMAIN Held(p)[e[1]]
      BY DEF Spots
    <3>2. e[2] \in DOMAIN <<>>
      BY <2>1, <3>1
    <3> QED BY <3>2
  <2>3. Count(Held(p), b) = 0
    BY <2>2, FS_EmptySet DEF Count
  <2>4. refcounts[p][b] = 0 /\ b \in free[p]
    BY DEF Init
  <2> QED BY <2>3, <2>4 DEF BlockOK
<1> QED BY <1>1, <1>2 DEF RefInv

LEMMA RefNext ==
  ASSUME Unwindowed, IInv, RefInv, Next
  PROVE  RefInv'
<1>1. IInv'
  BY StepNext
<1>2. Clean /\ Gone
  BY DEF RefInv
<1>3. CASE Arbitrate \/ Publish \/ Fail \/ Cancel \/ \E l \in Lanes : Release(l)
  <2>1. UNCHANGED <<canonical, shadow, old, drafted, free, refcounts>>
        /\ \A p \in Pools : hashed[p] \subseteq hashed'[p]
    BY <1>3 DEF Arbitrate, Publish, Fail, Cancel, Release, tableVars, storeVars, IInv, Typed, Stores
  <2>2. Clean'
    BY <1>2, <1>3, CleanPlain
  <2>3. Gone'
    BY <1>2, <2>1, GoneSame
  <2>4. \A p \in Pools, b \in Blocks : BlockOK(p, b)'
    BY <2>1, RefsSame
  <2> QED BY <2>2, <2>3, <2>4 DEF RefInv
<1>4. CASE Commit
  <2>1. Clean' /\ Gone'
    BY <1>1, <1>2, <1>4, CleanEnd, GoneCommit
  <2>2. \A p \in Pools, b \in Blocks : BlockOK(p, b)'
    BY <1>1, <1>4, RefsCommit
  <2> QED BY <2>1, <2>2 DEF RefInv
<1>5. ASSUME NEW lanes \in SUBSET Lanes, Begin(lanes) PROVE RefInv'
  <2>1. UNCHANGED <<canonical, shadow, old, drafted, free, refcounts, hashed>>
    BY <1>5 DEF Begin, tableVars, storeVars
  <2>2. Clean' /\ Gone'
    BY <1>2, <1>5, <2>1, CleanBegin, GoneSame
  <2>3. \A p \in Pools, b \in Blocks : BlockOK(p, b)'
    BY <2>1, RefsSame
  <2> QED BY <2>2, <2>3 DEF RefInv
<1>6. ASSUME NEW l \in Lanes, DraftStep(l) \/ Verify(l) \/ Catchup(l) \/ Replay(l) PROVE RefInv'
  <2>1. canonical' = canonical
    BY <1>6 DEF DraftStep, Verify, Catchup, Replay
  <2>2. Clean' /\ Gone'
    BY <1>2, <1>6, <2>1, CleanExecutions, GoneSame
  <2>3. \A p \in Pools, b \in Blocks : BlockOK(p, b)'
    BY <1>1, <1>6, RefsExecutions
  <2> QED BY <2>2, <2>3 DEF RefInv
<1>7. ASSUME NEW l \in Lanes, Copy(l) \/ DraftBlock(l) \/ DropDraft(l) PROVE RefInv'
  <2>1. canonical' = canonical
    BY <1>7 DEF Copy, DraftBlock, DropDraft
  <2>2. Clean' /\ Gone'
    BY <1>2, <1>7, <2>1, CleanDrafts, GoneSame
  <2>3. \A p \in Pools, b \in Blocks : BlockOK(p, b)'
    BY <1>1, <1>7, RefsCopy, RefsDraftBlock, RefsDropDraft
  <2> QED BY <2>2, <2>3 DEF RefInv
<1>8. ASSUME NEW l \in Lanes, Clone(l) PROVE RefInv'
  <2>1. canonical' = canonical
    BY <1>8 DEF Clone
  <2>2. Clean' /\ Gone'
    BY <1>2, <1>8, <2>1, CleanClone, GoneSame
  <2>3. \A p \in Pools, b \in Blocks : BlockOK(p, b)'
    BY <1>1, <1>8, RefsClone
  <2> QED BY <2>2, <2>3 DEF RefInv
<1>9. ASSUME NEW l \in Lanes, Truncate(l) PROVE RefInv'
  <2>1. canonical' = canonical
    BY <1>9 DEF Truncate
  <2>2. Clean' /\ Gone'
    BY <1>2, <1>9, <2>1, CleanTruncate, GoneSame
  <2>3. \A p \in Pools, b \in Blocks : BlockOK(p, b)'
    BY <1>1, <1>9, RefsTruncate
  <2> QED BY <2>2, <2>3 DEF RefInv
<1>10. ASSUME NEW l \in Lanes, DropOld(l) \/ Discard(l) PROVE RefInv'
  <2>1. canonical' = canonical
    BY <1>10 DEF DropOld, Discard
  <2>2. Clean' /\ Gone'
    BY <1>2, <1>10, <2>1, CleanEnd, GoneSame
  <2>3. \A p \in Pools, b \in Blocks : BlockOK(p, b)'
    BY <1>1, <1>10, RefsDropOld, RefsDiscard
  <2> QED BY <2>2, <2>3 DEF RefInv
<1>11. ASSUME NEW l \in Lanes, ReturnBlocks(l) PROVE RefInv'
  <2>1. Clean' /\ Gone'
    BY <1>2, <1>11, CleanPlain, GoneReturnBlocks
  <2>2. \A p \in Pools, b \in Blocks : BlockOK(p, b)'
    BY <1>1, <1>11, RefsReturnBlocks
  <2> QED BY <2>1, <2>2 DEF RefInv
<1>12. ASSUME NEW l \in Lanes, NEW n \in Prompts, Admit(l, n) PROVE RefInv'
  <2>1. Clean' /\ Gone'
    BY <1>2, <1>12, CleanPlain, GoneAdmit
  <2>2. \A p \in Pools, b \in Blocks : BlockOK(p, b)'
    BY <1>1, <1>12, RefsAdmit
  <2> QED BY <2>1, <2>2 DEF RefInv
<1> QED BY <1>3, <1>4, <1>5, <1>6, <1>7, <1>8, <1>9, <1>10, <1>11, <1>12 DEF Next, RoundStep

LEMMA RefStutter ==
  ASSUME RefInv, UNCHANGED vars
  PROVE  RefInv'
BY DEF RefInv, vars, storeVars, tableVars, callVars, Clean, Gone, Live, Idle, Drafts, Drafting,
       PoolsOf, BlockOK, Held

LEMMA RefsKept == Unwindowed /\ Spec => [](Unwindowed /\ IInv /\ RefInv)
<1>1. Init => RefInv
  BY RefInit
<1>2. (Unwindowed /\ IInv) /\ RefInv /\ [Next]_vars => RefInv'
  BY RefNext, RefStutter
<1> QED BY <1>1, <1>2, UnwindowedInv, PTL DEF Spec

-----------------------------------------------------------------------------
(* What the invariant says of references and free blocks.                  *)

LEMMA Joined ==
  ASSUME NEW S, NEW s \in Seq(S), NEW d \in S, Len(s) = 3
  PROVE  /\ DOMAIN (s \o <<d>>) = 1 .. 4 /\ (s \o <<d>>)[4] = d
         /\ (s \o <<d>>)[1] = s[1] /\ (s \o <<d>>)[2] = s[2] /\ (s \o <<d>>)[3] = s[3]
<1>1. PICK t \in Seq(S) : t = <<d>> /\ Len(t) = 1 /\ t[1] = d
  <2>1. PICK t : t = <<d>>
    OBVIOUS
  <2>2. t \in Seq(S) /\ Len(t) = 1 /\ t[1] = d
    BY <2>1
  <2> QED BY <2>1, <2>2
<1>2. PICK u \in Seq(S) : u = s \o t
  BY ConcatProperties
<1>3. Len(u) = 4 /\ \A i \in 1 .. 4 : u[i] = IF i <= 3 THEN s[i] ELSE t[i - 3]
  <2>1. Len(u) = Len(s) + Len(t)
        /\ \A i \in 1 .. Len(s) + Len(t) : u[i] = IF i <= Len(s) THEN s[i] ELSE t[i - Len(s)]
    BY <1>2, ConcatProperties
  <2> QED BY <1>1, <2>1
<1>4. u[1] = s[1] /\ u[2] = s[2] /\ u[3] = s[3] /\ u[4] = t[1]
  BY <1>3
<1>5. DOMAIN u = 1 .. 4
  BY <1>3
<1> QED BY <1>1, <1>2, <1>4, <1>5

\* The tables of a pool are those of its slots.
LEMMA TablesAre ==
  ASSUME NEW p \in Pools
  PROVE  /\ DOMAIN TablesOf(p) = IF p = "proposer" THEN 1 .. 4 ELSE 1 .. 3
         /\ TablesOf(p)[1] = canonical[p] /\ TablesOf(p)[2] = shadow[p] /\ TablesOf(p)[3] = old[p]
         /\ p = "proposer" => TablesOf(p)[4] = drafted
<1>1. PICK a, b, c, d : a = canonical[p] /\ b = shadow[p] /\ c = old[p] /\ d = drafted
  OBVIOUS
<1>2. CASE p = "proposer"
  <2>1. TablesOf(p) = <<a, b, c>> \o <<d>>
    BY <1>1, <1>2 DEF TablesOf
  <2>2. PICK s, S : s = <<a, b, c>> /\ S = {a, b, c, d}
    OBVIOUS
  <2>3. s \in Seq(S) /\ d \in S /\ Len(s) = 3 /\ s[1] = a /\ s[2] = b /\ s[3] = c
    BY <2>2
  <2>4. /\ DOMAIN (s \o <<d>>) = 1 .. 4 /\ (s \o <<d>>)[4] = d
        /\ (s \o <<d>>)[1] = s[1] /\ (s \o <<d>>)[2] = s[2] /\ (s \o <<d>>)[3] = s[3]
    BY <2>3, Joined
  <2> QED BY <1>1, <1>2, <2>1, <2>2, <2>3, <2>4
<1>3. CASE p # "proposer"
  <2>1. TablesOf(p) = <<a, b, c>> \o <<>>
    BY <1>1, <1>3 DEF TablesOf
  <2>2. <<a, b, c>> \o <<>> = <<a, b, c>>
    OBVIOUS
  <2> QED BY <1>1, <1>3, <2>1, <2>2
<1> QED BY <1>2, <1>3

LEMMA OwnedIs ==
  ASSUME Unwindowed, IInv, NEW p \in Pools, NEW T, T = Held(p)
  PROVE  /\ \A e : e \in Owned(p) <=> e \in Slots \X Nat /\ e[2] \in DOMAIN T[e[1]]
         /\ \A e \in Owned(p) : BlockAt(p, e) = T[e[1]][e[2]]
<1>1. PICK tables : tables = TablesOf(p)
  OBVIOUS
<1>2. ASSUME NEW i \in DOMAIN tables, NEW l \in Lanes
      PROVE  /\ <<i, l>> \in Slots /\ tables[i][l].blocks = T[<<i, l>>] /\ tables[i][l].head = 0
             /\ T[<<i, l>>] \in Seq(Blocks) /\ DOMAIN T[<<i, l>>] = 1 .. Len(T[<<i, l>>])
             /\ DOMAIN T[<<i, l>>] \subseteq Nat
  <2>1. i = 1 \/ i = 2 \/ i = 3 \/ (i = 4 /\ p = "proposer")
    BY <1>1, TablesAre
  <2>2. /\ tables[1] = canonical[p] /\ tables[2] = shadow[p] /\ tables[3] = old[p]
        /\ p = "proposer" => tables[4] = drafted
    BY <1>1, TablesAre
  <2>3. <<i, l>> \in Slots /\ tables[i][l].blocks = T[<<i, l>>]
    <3>1. CASE i = 1
      BY <2>2, <3>1, HeldAt
    <3>2. CASE i = 2
      BY <2>2, <3>2, HeldAt
    <3>3. CASE i = 3
      BY <2>2, <3>3, HeldAt
    <3>4. CASE i = 4 /\ p = "proposer"
      BY <2>2, <3>4, HeldAt
    <3> QED BY <2>1, <3>1, <3>2, <3>3, <3>4
  <2>4. tables[i][l].head = 0
    BY <2>1, <2>2 DEF IInv, AllBacked, Backed
  <2>5. T[<<i, l>>] \in Seq(Blocks)
    BY <2>3, HeldTypes DEF Holdings
  <2>6. PICK s \in Seq(Blocks) : s = T[<<i, l>>]
    BY <2>5
  <2>7. DOMAIN s = 1 .. Len(s) /\ DOMAIN s \subseteq Nat
    OBVIOUS
  <2> QED BY <2>3, <2>4, <2>5, <2>6, <2>7
<1>3. ASSUME NEW s \in Slots, s[1] \notin DOMAIN tables PROVE T[s] = <<>>
  <2>1. PICK l \in Lanes : s = <<1, l>> \/ s = <<2, l>> \/ s = <<3, l>> \/ s = <<4, l>>
    BY SlotCases
  <2>2. 1 \in DOMAIN tables /\ 2 \in DOMAIN tables /\ 3 \in DOMAIN tables
        /\ (p = "proposer" => 4 \in DOMAIN tables)
    BY <1>1, TablesAre
  <2>3. s = <<4, l>> /\ p # "proposer"
    BY <1>3, <2>1, <2>2
  <2> QED BY <2>3, HeldAt
<1>4. \A e : e \in Owned(p) <=>
        \E i \in DOMAIN tables, l \in Lanes :
          e \in {<<i, l>>} \X (tables[i][l].head + 1 .. Len(tables[i][l].blocks))
  <2>1. Owned(p) = UNION {{<<i, l>>} \X (tables[i][l].head + 1 .. Len(tables[i][l].blocks)) :
                             i \in DOMAIN tables, l \in Lanes}
    BY <1>1 DEF Owned
  <2>2. ASSUME NEW e \in Owned(p)
        PROVE  \E i \in DOMAIN tables, l \in Lanes :
                 e \in {<<i, l>>} \X (tables[i][l].head + 1 .. Len(tables[i][l].blocks))
    <3>1. PICK S \in {{<<i, l>>} \X (tables[i][l].head + 1 .. Len(tables[i][l].blocks)) :
                        i \in DOMAIN tables, l \in Lanes} : e \in S
      BY <2>1
    <3> QED BY <3>1
  <2>3. ASSUME NEW i \in DOMAIN tables, NEW l \in Lanes, NEW e,
               e \in {<<i, l>>} \X (tables[i][l].head + 1 .. Len(tables[i][l].blocks))
        PROVE  e \in Owned(p)
    <3>1. PICK S : S = {<<i, l>>} \X (tables[i][l].head + 1 .. Len(tables[i][l].blocks))
      OBVIOUS
    <3>2. S \in {{<<j, m>>} \X (tables[j][m].head + 1 .. Len(tables[j][m].blocks)) :
                  j \in DOMAIN tables, m \in Lanes}
      BY <3>1
    <3> QED BY <2>1, <2>3, <3>1, <3>2
  <2> QED BY <2>2, <2>3
<1>5. ASSUME NEW i \in DOMAIN tables, NEW l \in Lanes
      PROVE  tables[i][l].head + 1 .. Len(tables[i][l].blocks) = DOMAIN T[<<i, l>>]
  BY <1>2
<1>6. ASSUME NEW e \in Owned(p)
      PROVE  /\ e \in Slots \X Nat /\ e[2] \in DOMAIN T[e[1]] /\ BlockAt(p, e) = T[e[1]][e[2]]
  <2>1. PICK i \in DOMAIN tables, l \in Lanes : e \in {<<i, l>>} \X DOMAIN T[<<i, l>>]
    <3>1. PICK i \in DOMAIN tables, l \in Lanes :
            e \in {<<i, l>>} \X (tables[i][l].head + 1 .. Len(tables[i][l].blocks))
      BY <1>4
    <3>2. tables[i][l].head + 1 .. Len(tables[i][l].blocks) = DOMAIN T[<<i, l>>]
      BY <1>5
    <3> QED BY <3>1, <3>2
  <2>2. e = <<e[1], e[2]>> /\ e[1] = <<i, l>> /\ e[2] \in DOMAIN T[<<i, l>>]
    BY <2>1
  <2>3. e[1][1] = i /\ e[1][2] = l
    BY <2>2
  <2>4. BlockAt(p, e) = tables[i][l].blocks[e[2]]
    BY <1>1, <2>3 DEF BlockAt
  <2>5. e \in Slots \X Nat
    BY <1>2, <2>2
  <2> QED BY <1>2, <2>2, <2>4, <2>5
<1>7. ASSUME NEW e \in Slots \X Nat, e[2] \in DOMAIN T[e[1]]
      PROVE  e \in Owned(p)
  <2>1. PICK s \in Slots, k \in Nat : e = <<s, k>> /\ k \in DOMAIN T[s]
    BY <1>7
  <2>2. s[1] \in DOMAIN tables
    <3>1. DOMAIN <<>> = {}
      OBVIOUS
    <3> QED BY <1>3, <2>1, <3>1
  <2>3. PICK i \in DOMAIN tables, l \in Lanes : s = <<i, l>>
    <3>1. s = <<s[1], s[2]>> /\ s[2] \in Lanes
      BY DEF Slots
    <3> QED BY <2>2, <3>1
  <2>4. e \in {<<i, l>>} \X DOMAIN T[<<i, l>>]
    BY <2>1, <2>3
  <2> QED BY <1>4, <1>5, <2>4
<1> QED BY <1>6, <1>7

LEMMA OwnersAre ==
  ASSUME Unwindowed, IInv, NEW p \in Pools, NEW b
  PROVE  {e \in Owned(p) : BlockAt(p, e) = b} = Spots(Held(p), b)
<1>1. PICK T : T = Held(p)
  OBVIOUS
<1>2. /\ \A e : e \in Owned(p) <=> e \in Slots \X Nat /\ e[2] \in DOMAIN T[e[1]]
      /\ \A e \in Owned(p) : BlockAt(p, e) = T[e[1]][e[2]]
  BY <1>1, OwnedIs
<1>3. \A e : (e \in Owned(p) /\ BlockAt(p, e) = b) <=> e \in Spots(T, b)
  BY <1>2 DEF Spots
<1> QED BY <1>1, <1>3

\* Without sliding windows the runtime counts right at every step of a round: a block
\* has one reference for each place of a table that holds it, while shadows are
\* cloned, grown, cut and swapped in, after a failure or a cancellation half way, and
\* while replaced tables are given back one lane at a time.
THEOREM RefcountsCorrect == Unwindowed /\ Spec => []RefcountExact
<1>1. ASSUME Unwindowed, IInv, RefInv PROVE RefcountExact
  <2>1. ASSUME NEW p \in Pools, NEW b \in Blocks
        PROVE  refcounts[p][b] = Cardinality({e \in Owned(p) : BlockAt(p, e) = b})
    BY <1>1, OwnersAre DEF RefInv, BlockOK, Count
  <2> QED BY <2>1 DEF RefcountExact
<1>2. Unwindowed /\ IInv /\ RefInv => RefcountExact
  BY <1>1
<1> QED BY <1>2, RefsKept, PTL

\* ... and a block is free or reclaimable exactly when no table holds it: no round
\* leaks a block, and none is handed out while a sequence or a shadow still reads it.
THEOREM BlocksConserved == Unwindowed /\ Spec => []Conserved
<1>1. ASSUME Unwindowed, IInv, RefInv PROVE Conserved
  <2>1. ASSUME NEW p \in Pools, NEW b \in Blocks
        PROVE  b \in free[p] \cup Cached(p) <=> b \notin {BlockAt(p, e) : e \in Owned(p)}
    <3>1. PICK S : S = Spots(Held(p), b)
      OBVIOUS
    <3>2. b \in {BlockAt(p, e) : e \in Owned(p)} <=> S # {}
      BY <1>1, <3>1, OwnersAre
    <3>3. IsFiniteSet(S)
      <4>1. Held(p) \in Holdings
        BY <1>1, HeldTypes
      <4> QED BY <3>1, <4>1, SpotsFinite
    <3>4. Cardinality(S) = 0 <=> S = {}
      BY <3>3, FS_EmptySet
    <3>5. /\ refcounts[p][b] = Cardinality(S)
          /\ b \in free[p] => refcounts[p][b] = 0
          /\ refcounts[p][b] = 0 => b \in free[p] \cup hashed[p]
      BY <1>1, <3>1 DEF RefInv, BlockOK, Count
    <3>6. b \in free[p] \cup Cached(p) <=> refcounts[p][b] = 0
      BY <3>5 DEF Cached
    <3> QED BY <3>2, <3>4, <3>5, <3>6
  <2>2. ASSUME NEW p \in Pools PROVE free[p] \cup Cached(p) \subseteq Blocks
    BY <1>1 DEF IInv, Typed, Stores, Cached
  <2> QED BY <2>1, <2>2 DEF Conserved
<1>2. Unwindowed /\ IInv /\ RefInv => Conserved
  BY <1>1
<1> QED BY <1>2, RefsKept, PTL

-----------------------------------------------------------------------------
(* What the rows of held and of hashed blocks are.                         *)

\* The lanes whose shadows exist, and what their stages have computed right.
Cloned(l) ==
  /\ l \in batch /\ pc \notin {"idle", "drop", "publish", "discard"}
  /\ pc = "clone" => l \notin todo

Verified(l) ==
  \/ pc \in {"catchup", "truncate", "replay", "arbitrate", "commit"}
  \/ pc = "verify" /\ l \notin todo

Replayed(l) == pc \in {"arbitrate", "commit"} \/ (pc = "replay" /\ l \notin todo)

\* How many candidates or emitted tokens an autoregressive proposer has been fed.
Fed(l) ==
  IF pc = "clone" THEN 0
  ELSE IF pc = "draft" THEN IF l \in todo THEN step ELSE Smaller(draft[l], step + 1)
  ELSE IF pc = "verify" \/ (pc = "catchup" /\ l \in todo) THEN draft[l]
  ELSE draft[l] + 1

\* How many of the page's tokens a shadow has the rows of.
Gained(p, l) ==
  IF p = "target" THEN IF Verified(l) THEN page[l] ELSE 0
  ELSE IF kind = "exact" THEN Smaller(page[l], Fed(l))
  ELSE IF Replayed(l) THEN page[l] ELSE 0

At(k, l) == <<k, l>>

\* How many rows of a slot's table are those of the lane's emitted tokens.
Trust(p) ==
  [s \in Slots |->
     IF s[1] = 1 THEN canonical[p][s[2]].cursor
     ELSE IF s[1] = 2 /\ Cloned(s[2]) /\ p \in PoolsOf(kind) THEN Base(s[2]) + Gained(p, s[2])
     ELSE 0]

\* A block is at one place of the tables of one lane.
Placed(T) ==
  \A r, s \in Slots : \A i \in DOMAIN T[r], j \in DOMAIN T[s] :
    T[r][i] = T[s][j] => r[2] = s[2] /\ i = j

\* The first n rows of these blocks are those of the lane's tokens.
Right(content, l, blocks, n) ==
  /\ n <= Len(blocks) * BlockSize
  /\ \A x \in 0 .. n - 1 :
       content[blocks[x \div BlockSize + 1]][x % BlockSize] = Row(l, x, TRUE)

Sound(p) == \A s \in Slots : Right(rows[p], s[2], Held(p)[s], Trust(p)[s])

\* A block that is hashed lies behind the cursor of its sequence.
Frozen(p) ==
  \A s \in Slots : \A i \in DOMAIN Held(p)[s] :
    Held(p)[s][i] \in hashed[p] => i * BlockSize <= canonical[p][s[2]].cursor

\* Block b is among these blocks, at a place whose rows are before the n-th.
Full(b, blocks, n) == \E k \in DOMAIN blocks : blocks[k] = b /\ k * BlockSize <= n

\* Noted blocks are full blocks of the shadows, and then of the sequences.
Noted(p) ==
  /\ pc \in {"truncate", "replay", "arbitrate", "commit"} =>
       \A b \in noted[p] : \E l \in batch : Full(b, Held(p)[At(2, l)], Trust(p)[At(2, l)])
  /\ pc \in {"drop", "publish"} =>
       \A b \in noted[p] : \E l \in batch : Full(b, Held(p)[At(1, l)], Trust(p)[At(1, l)])
  /\ pc \in {"idle", "clone", "draft", "copy", "undraft", "verify", "catchup"} => noted[p] = {}

RowsOf(content, l, k) ==
  \A offset \in 0 .. BlockSize - 1 : content[offset] = Row(l, k * BlockSize + offset, TRUE)

Sealed(p) ==
  \A b \in hashed[p] :
    /\ b \notin free[p]
    /\ \E l \in Lanes, k \in 0 .. Cardinality(Blocks) - 1 : RowsOf(rows[p][b], l, k)

\* The copy a block drafts on starts where the canonical state ends.
DraftStart ==
  \A l \in Lanes : Drafts(l) /\ pc \in {"copy", "draft"} => drafted[l].cursor = Base(l)

PoolRows(p) == Placed(Held(p)) /\ Sound(p) /\ Frozen(p) /\ Sealed(p)

RowInv ==
  /\ rows = [p \in Pools |-> rows[p]] /\ DraftStart
  /\ \A p \in Pools : PoolRows(p) /\ Noted(p)

\* Where row x of a table of k blocks is.
LEMMA PlaceOf ==
  ASSUME NEW x \in Nat, NEW k \in Nat, x < k * BlockSize
  PROVE  /\ x \div BlockSize + 1 \in 1 .. k /\ x \div BlockSize \in Nat
         /\ x % BlockSize \in 0 .. BlockSize - 1
         /\ x = (x \div BlockSize) * BlockSize + (x % BlockSize)
<1>1. PICK d \in Nat \ {0} : d = BlockSize
  BY Constants
<1>2. \A e \in Nat \ {0} : /\ x \div e \in Nat /\ x % e \in 0 .. e - 1
                           /\ x = e * (x \div e) + (x % e)
  OBVIOUS
<1>3. PICK q \in Nat, r \in 0 .. d - 1 : q = x \div d /\ r = x % d /\ x = d * q + r
  BY <1>2
<1>4. d * q = q * d
  OBVIOUS
<1>5. q < k
  <2> SUFFICES ASSUME k <= q PROVE FALSE
    OBVIOUS
  <2>1. k * d <= q * d
    OBVIOUS
  <2>2. x < k * d /\ x = q * d + r /\ q * d \in Nat /\ k * d \in Nat
    BY <1>1, <1>3, <1>4
  <2> QED BY <2>1, <2>2
<1>6. x = q * d + r
  BY <1>3, <1>4
<1> QED BY <1>1, <1>3, <1>5, <1>6

\* The block and the offset of a row.
LEMMA RowSplits ==
  ASSUME NEW x \in Nat
  PROVE  \E d \in Nat \ {0}, o \in Nat : d = BlockSize /\ o < d /\ x = (x \div BlockSize) * d + o
<1>1. PICK d \in Nat \ {0} : d = BlockSize
  BY Constants
<1>2. \A e \in Nat \ {0} : /\ x \div e \in Nat /\ x % e \in 0 .. e - 1
                           /\ x = e * (x \div e) + (x % e)
  OBVIOUS
<1>3. PICK q \in Nat, r \in 0 .. d - 1 : q = x \div d /\ r = x % d /\ x = d * q + r
  BY <1>2
<1>4. d * q = q * d
  OBVIOUS
<1>5. r \in Nat /\ r < d
  OBVIOUS
<1> QED BY <1>1, <1>3, <1>4, <1>5

\* Two rows at the same offset of the same block of a table are the same row.
LEMMA SamePlace ==
  ASSUME NEW x \in Nat, NEW y \in Nat, x \div BlockSize = y \div BlockSize,
         x % BlockSize = y % BlockSize
  PROVE  x = y
<1>1. \A e \in Nat \ {0}, z \in Nat : z = e * (z \div e) + (z % e)
  OBVIOUS
<1> QED BY <1>1, Constants

\* A row of block i + 1 is one of the rows before i + 1 whole blocks.
LEMMA BlockRow ==
  ASSUME NEW i \in Nat, NEW o \in 0 .. BlockSize - 1, NEW n \in Nat, (i + 1) * BlockSize <= n
  PROVE  /\ i * BlockSize + o \in 0 .. n - 1
         /\ (i * BlockSize + o) \div BlockSize = i /\ (i * BlockSize + o) % BlockSize = o
<1>1. PICK d \in Nat \ {0} : d = BlockSize
  BY Constants
<1>2. PICK m \in Nat : m = i * d
  BY <1>1
<1>3. (i + 1) * d = m + d
  BY <1>2
<1>4. m + o \in 0 .. n - 1 /\ m + o \in Nat
  BY <1>1, <1>3
<1>5. m + o = d * i + o
  <2>1. i * d = d * i
    OBVIOUS
  <2> QED BY <1>2, <2>1
<1>6. \A e \in Nat \ {0}, z \in Nat : z \div e \in Nat /\ z % e \in 0 .. e - 1 /\ z = e * (z \div e) + (z % e)
  OBVIOUS
<1>7. PICK q \in Nat, r \in 0 .. d - 1 : q = (m + o) \div d /\ r = (m + o) % d /\ d * i + o = d * q + r
  <2>1. PICK z \in Nat : z = m + o
    BY <1>4
  <2>2. /\ z \div d \in Nat /\ z % d \in 0 .. d - 1
        /\ z = d * (z \div d) + (z % d)
    BY <1>6
  <2> QED BY <1>5, <2>1, <2>2
<1>8. q = i
  <2>1. CASE q < i
    <3>1. d * (q + 1) <= d * i
      BY <2>1
    <3>2. d * (q + 1) = d * q + d /\ d * q \in Nat /\ d * i \in Nat
      OBVIOUS
    <3> QED BY <1>1, <1>7, <3>1, <3>2
  <2>2. CASE i < q
    <3>1. d * (i + 1) <= d * q
      BY <2>2
    <3>2. d * (i + 1) = d * i + d /\ d * q \in Nat /\ d * i \in Nat
      OBVIOUS
    <3> QED BY <1>1, <1>7, <3>1, <3>2
  <2> QED BY <2>1, <2>2
<1>9. r = o
  <2>1. d * i \in Nat
    OBVIOUS
  <2> QED BY <1>1, <1>7, <1>8, <2>1
<1> QED BY <1>1, <1>2, <1>4, <1>7, <1>8, <1>9

\* The tables U of a step come from T: the table of slot s from that of slot f[s],
\* cut or with fresh blocks behind.
Derives(T, U, f, F) ==
  \A s \in Slots :
    /\ f[s] \in Slots /\ f[s][2] = s[2]
    /\ \A i \in DOMAIN U[s] :
         IF i \in DOMAIN T[f[s]] THEN U[s][i] = T[f[s]][i] ELSE U[s][i] \in F

\* Fresh blocks were at no place before and are at one place each.
Unheld(T, U, F) ==
  /\ \A s \in Slots : \A i \in DOMAIN T[s] : T[s][i] \notin F
  /\ \A r, s \in Slots : \A i \in DOMAIN U[r], j \in DOMAIN U[s] :
       U[r][i] \in F /\ U[r][i] = U[s][j] => r[2] = s[2] /\ i = j

LEMMA PlacedNext ==
  ASSUME NEW T, NEW U, NEW f, NEW F, Placed(T), Derives(T, U, f, F), Unheld(T, U, F)
  PROVE  Placed(U)
<1> SUFFICES ASSUME NEW r \in Slots, NEW s \in Slots, NEW i \in DOMAIN U[r], NEW j \in DOMAIN U[s],
                    U[r][i] = U[s][j]
             PROVE  r[2] = s[2] /\ i = j
  BY DEF Placed
<1>1. CASE U[r][i] \in F
  BY <1>1 DEF Unheld
<1>2. CASE U[r][i] \notin F
  <2>1. i \in DOMAIN T[f[r]] /\ U[r][i] = T[f[r]][i] /\ f[r] \in Slots /\ f[r][2] = r[2]
    BY <1>2 DEF Derives
  <2>2. j \in DOMAIN T[f[s]] /\ U[s][j] = T[f[s]][j] /\ f[s] \in Slots /\ f[s][2] = s[2]
    BY <1>2 DEF Derives
  <2>3. T[f[r]][i] = T[f[s]][j]
    BY <2>1, <2>2
  <2>4. f[r][2] = f[s][2] /\ i = j
    BY <2>1, <2>2, <2>3 DEF Placed
  <2> QED BY <2>1, <2>2, <2>4
<1> QED BY <1>1, <1>2

\* Rows of a table that stay what they are.
LEMMA RightKept ==
  ASSUME NEW R, NEW S, NEW l, NEW a \in Seq(Blocks), NEW c \in Seq(Blocks),
         NEW n \in Nat, NEW m \in Nat, m <= n, m <= Len(c) * BlockSize, Right(R, l, a, n),
         \A i \in DOMAIN c : i \in DOMAIN a => c[i] = a[i],
         \A x \in 0 .. m - 1 :
           S[c[x \div BlockSize + 1]][x % BlockSize] = R[c[x \div BlockSize + 1]][x % BlockSize]
  PROVE  Right(S, l, c, m)
<1> SUFFICES ASSUME NEW x \in 0 .. m - 1
             PROVE  S[c[x \div BlockSize + 1]][x % BlockSize] = Row(l, x, TRUE)
  BY DEF Right
<1>1. x \in Nat /\ x \in 0 .. n - 1
  OBVIOUS
<1>2. PICK k \in Nat, h \in Nat : k = Len(a) /\ h = Len(c)
  OBVIOUS
<1>3. k * BlockSize \in Nat /\ h * BlockSize \in Nat
  BY <1>2, Constants
<1>4. x < k * BlockSize /\ x < h * BlockSize
  BY <1>2, <1>3 DEF Right
<1>5. x \div BlockSize + 1 \in 1 .. k /\ x \div BlockSize + 1 \in 1 .. h
  BY <1>1, <1>4, PlaceOf
<1>6. c[x \div BlockSize + 1] = a[x \div BlockSize + 1]
  BY <1>2, <1>5
<1>7. R[a[x \div BlockSize + 1]][x % BlockSize] = Row(l, x, TRUE)
  BY <1>1 DEF Right
<1> QED BY <1>6, <1>7

\* The cursors of lanes that hold blocks do not go back.
Onward(p, U) ==
  \A s \in Slots : U[s] # <<>> =>
    /\ canonical[p][s[2]].cursor \in Nat /\ canonical'[p][s[2]].cursor \in Nat
    /\ canonical[p][s[2]].cursor <= canonical'[p][s[2]].cursor

\* The blocks of N are at places whose rows are all computed and behind the cursor.
Published(p, U, N) ==
  \A b \in N : \E s \in Slots : \E k \in DOMAIN U[s] :
    /\ U[s][k] = b /\ k * BlockSize <= Trust(p)'[s]
    /\ k * BlockSize <= canonical'[p][s[2]].cursor

\* A hashed block was hashed before, or is published now at a place behind the cursor.
LEMMA FrozenNext ==
  ASSUME NEW p \in Pools, NEW T, T = Held(p), NEW U, U = Held(p)', NEW f, NEW F, NEW N,
         Frozen(p), Placed(U), Derives(T, U, f, F), hashed'[p] \subseteq (hashed[p] \ F) \cup N,
         Onward(p, U), \A s \in Slots : DOMAIN U[s] \subseteq Nat, Published(p, U, N)
  PROVE  Frozen(p)'
<1> SUFFICES ASSUME NEW s \in Slots, NEW i \in DOMAIN U[s], U[s][i] \in hashed'[p]
             PROVE  i * BlockSize <= canonical'[p][s[2]].cursor
  BY DEF Frozen
<1>1. CASE U[s][i] \in N
  <2>1. PICK r \in Slots : \E k \in DOMAIN U[r] :
          U[r][k] = U[s][i] /\ k * BlockSize <= canonical'[p][r[2]].cursor
    BY <1>1 DEF Published
  <2>2. PICK k \in DOMAIN U[r] : U[r][k] = U[s][i] /\ k * BlockSize <= canonical'[p][r[2]].cursor
    BY <2>1
  <2>3. r[2] = s[2] /\ k = i
    BY <2>2 DEF Placed
  <2> QED BY <2>2, <2>3
<1>2. CASE U[s][i] \notin N
  <2>1. U[s][i] \in hashed[p] /\ U[s][i] \notin F
    BY <1>2
  <2>2. i \in DOMAIN T[f[s]] /\ U[s][i] = T[f[s]][i] /\ f[s] \in Slots /\ f[s][2] = s[2]
    BY <2>1 DEF Derives
  <2>3. i * BlockSize <= canonical[p][s[2]].cursor
    BY <2>1, <2>2 DEF Frozen
  <2>4. U[s] # <<>>
    OBVIOUS
  <2>5. PICK a, b, n \in Nat : a = canonical[p][s[2]].cursor /\ b = canonical'[p][s[2]].cursor /\ n = i * BlockSize
    <3>1. i \in Nat
      OBVIOUS
    <3> QED BY <2>4, <3>1, Constants DEF Onward
  <2> QED BY <2>3, <2>4, <2>5 DEF Onward
<1> QED BY <1>1, <1>2

\* The rows of a published block are consecutive rows of its lane.
LEMMA RowsOfBlock ==
  ASSUME NEW R, NEW l, NEW blocks \in Seq(Blocks), NEW k \in DOMAIN blocks, NEW n \in Nat,
         Right(R, l, blocks, n), k * BlockSize <= n, k * BlockSize <= MaxTokens
  PROVE  k - 1 \in 0 .. Cardinality(Blocks) - 1 /\ RowsOf(R[blocks[k]], l, k - 1)
<1>1. PICK i \in Nat : k = i + 1 /\ i = k - 1
  <2>1. k \in Nat \ {0}
    OBVIOUS
  <2> QED BY <2>1
<1>2. (i + 1) * BlockSize <= n
  BY <1>1
<1>3. ASSUME NEW o \in 0 .. BlockSize - 1
      PROVE  R[blocks[k]][o] = Row(l, i * BlockSize + o, TRUE)
  <2>1. PICK x \in 0 .. n - 1 :
          x = i * BlockSize + o /\ x \div BlockSize = i /\ x % BlockSize = o
    BY <1>2, BlockRow
  <2>2. R[blocks[x \div BlockSize + 1]][x % BlockSize] = Row(l, x, TRUE)
    BY DEF Right
  <2> QED BY <1>1, <2>1, <2>2
<1>4. Cardinality(Blocks) = MaxTokens \div BlockSize /\ MaxTokens \div BlockSize \in Nat
  <2>1. MaxTokens \div BlockSize \in Nat
    BY SpeculativeConstants
  <2>2. PICK m \in Nat : m = MaxTokens \div BlockSize
    BY <2>1
  <2>3. Cardinality(1 .. m) = m
    <3>1. Cardinality(1 .. m) = IF 1 > m THEN 0 ELSE m - 1 + 1
      BY FS_Interval
    <3> QED BY <3>1
  <2> QED BY <2>2, <2>3, SpeculativeConstants
<1>5. k <= MaxTokens \div BlockSize
  <2>1. MaxTokens < (MaxTokens \div BlockSize) * BlockSize + BlockSize
    <3>1. \A z \in Nat, d \in Nat \ {0} : z < d * (z \div d) + d /\ z \div d \in Nat
      OBVIOUS
    <3>2. PICK z \in Nat, d \in Nat \ {0} : z = MaxTokens /\ d = BlockSize
      BY Constants
    <3>3. PICK q \in Nat : q = z \div d /\ z < d * q + d
      BY <3>1
    <3>4. d * q = q * d
      OBVIOUS
    <3> QED BY <3>2, <3>3, <3>4
  <2>2. PICK q \in Nat, d \in Nat \ {0} : q = MaxTokens \div BlockSize /\ d = BlockSize
    BY <1>4, Constants
  <2>3. q * d + d = (q + 1) * d
    OBVIOUS
  <2>4. (i + 1) * d <= MaxTokens
    BY <1>1, <2>2
  <2>5. ~ (q + 1 <= i + 1)
    <3> SUFFICES ASSUME q + 1 <= i + 1 PROVE FALSE
      OBVIOUS
    <3>1. (q + 1) * d <= (i + 1) * d
      OBVIOUS
    <3>2. (q + 1) * d \in Nat /\ (i + 1) * d \in Nat /\ MaxTokens \in Nat
      BY Constants
    <3> QED BY <2>1, <2>2, <2>3, <2>4, <3>1, <3>2
  <2> QED BY <1>1, <2>2, <2>5
<1>6. k - 1 \in 0 .. Cardinality(Blocks) - 1
  BY <1>1, <1>4, <1>5
<1> QED BY <1>1, <1>3, <1>6 DEF RowsOf

\* What is trusted of each slot, now and next.
LEMMA TrustAt ==
  ASSUME NEW p \in Pools, NEW l \in Lanes
  PROVE  /\ Trust(p)[At(1, l)] = canonical[p][l].cursor
         /\ Trust(p)[At(2, l)] =
              IF Cloned(l) /\ p \in PoolsOf(kind) THEN Base(l) + Gained(p, l) ELSE 0
         /\ Trust(p)[At(3, l)] = 0 /\ Trust(p)[At(4, l)] = 0
<1>1. /\ <<1, l>> \in Slots /\ <<2, l>> \in Slots /\ <<3, l>> \in Slots /\ <<4, l>> \in Slots
  BY HeldAt
<1> QED BY <1>1 DEF Trust, At

LEMMA TrustAtNext ==
  ASSUME NEW p \in Pools, NEW l \in Lanes
  PROVE  /\ Trust(p)'[At(1, l)] = canonical'[p][l].cursor
         /\ Trust(p)'[At(2, l)] =
              IF Cloned(l)' /\ p \in PoolsOf(kind') THEN Base(l)' + Gained(p, l)' ELSE 0
         /\ Trust(p)'[At(3, l)] = 0 /\ Trust(p)'[At(4, l)] = 0
<1>1. /\ <<1, l>> \in Slots /\ <<2, l>> \in Slots /\ <<3, l>> \in Slots /\ <<4, l>> \in Slots
  BY HeldAt
<1> QED BY <1>1 DEF Trust, PoolsOf, At

\* The same of what the slots hold.
LEMMA HeldOf ==
  ASSUME NEW p \in Pools, NEW l \in Lanes
  PROVE  /\ At(1, l) \in Slots /\ At(2, l) \in Slots /\ At(3, l) \in Slots /\ At(4, l) \in Slots
         /\ At(1, l)[2] = l /\ At(2, l)[2] = l /\ At(3, l)[2] = l /\ At(4, l)[2] = l
         /\ Held(p)[At(1, l)] = canonical[p][l].blocks /\ Held(p)[At(2, l)] = shadow[p][l].blocks
         /\ Held(p)[At(3, l)] = old[p][l].blocks
         /\ Held(p)[At(4, l)] = IF p = "proposer" THEN drafted[l].blocks ELSE <<>>
         /\ Held(p)'[At(1, l)] = canonical'[p][l].blocks /\ Held(p)'[At(2, l)] = shadow'[p][l].blocks
         /\ Held(p)'[At(3, l)] = old'[p][l].blocks
         /\ Held(p)'[At(4, l)] = IF p = "proposer" THEN drafted'[l].blocks ELSE <<>>
BY HeldAt DEF At

LEMMA SlotIs ==
  ASSUME NEW s \in Slots
  PROVE  \E l \in Lanes : s = At(1, l) \/ s = At(2, l) \/ s = At(3, l) \/ s = At(4, l)
BY SlotCases DEF At

\* A shadow gains no more than the page.
GainsBounded ==
  \A p \in Pools, l \in batch : Gained(p, l) \in Nat /\ Gained(p, l) <= page[l]

LEMMA GainedIs == IInv => GainsBounded
<1> SUFFICES ASSUME IInv, NEW p \in Pools, NEW l \in batch
             PROVE  Gained(p, l) \in Nat /\ Gained(p, l) <= page[l]
  BY DEF GainsBounded
<1>1. draft[l] \in Nat /\ page[l] \in Nat /\ step \in Nat
  BY CallIs
<1>2. Fed(l) \in Nat
  BY <1>1 DEF Fed, Smaller
<1> HIDE DEF Fed
<1> QED BY <1>1, <1>2 DEF Gained, Smaller

TrustsNat == \A p \in Pools, s \in Slots : Trust(p)[s] \in Nat

LEMMA TrustNat == IInv => TrustsNat
<1> SUFFICES ASSUME IInv, NEW p \in Pools, NEW s \in Slots PROVE Trust(p)[s] \in Nat
  BY DEF TrustsNat
<1>1. PICK l \in Lanes : s = At(1, l) \/ s = At(2, l) \/ s = At(3, l) \/ s = At(4, l)
  BY SlotIs
<1>2. canonical[p][l].cursor \in Nat
  BY DEF IInv, Typed, Tables, Table
<1>3. Cloned(l) => Base(l) + Gained(p, l) \in Nat
  <2> SUFFICES ASSUME Cloned(l) PROVE Base(l) + Gained(p, l) \in Nat
    OBVIOUS
  <2>1. l \in batch
    BY DEF Cloned
  <2>2. Base(l) \in Nat /\ Gained(p, l) \in Nat
    BY <2>1, CallIs, GainedIs DEF GainsBounded
  <2> QED BY <2>2
<1>4. /\ Trust(p)[At(1, l)] \in Nat /\ Trust(p)[At(2, l)] \in Nat
      /\ Trust(p)[At(3, l)] \in Nat /\ Trust(p)[At(4, l)] \in Nat
  BY <1>2, <1>3, TrustAt
<1> QED BY <1>1, <1>4

LEMMA TrustNatNext == IInv' => TrustsNat'
BY TrustNat, PTL

\* A block that a table holds has references and is not free.
HeldKept ==
  \A p \in Pools, s \in Slots : \A i \in DOMAIN Held(p)[s] :
    /\ Held(p)[s][i] \in Blocks /\ Held(p)[s][i] \notin free[p]
    /\ refcounts[p][Held(p)[s][i]] # 0

LEMMA HeldUsed == IInv /\ RefInv => HeldKept
<1> SUFFICES ASSUME IInv, RefInv, NEW p \in Pools, NEW s \in Slots, NEW i \in DOMAIN Held(p)[s]
             PROVE  /\ Held(p)[s][i] \in Blocks /\ Held(p)[s][i] \notin free[p]
                    /\ refcounts[p][Held(p)[s][i]] # 0
  BY DEF HeldKept
<1>1. PICK T : T = Held(p)
  OBVIOUS
<1>2. T \in Holdings
  BY <1>1, HeldTypes
<1>3. T[s] \in Seq(Blocks) /\ i \in DOMAIN T[s]
  BY <1>1, <1>2 DEF Holdings
<1>4. PICK b \in Blocks : b = T[s][i]
  BY <1>3
<1>5. i \in Nat
  BY <1>3
<1>6. <<s, i>> \in Spots(T, b)
  BY <1>3, <1>4, <1>5 DEF Spots
<1>7. IsFiniteSet(Spots(T, b)) /\ Count(T, b) \in Nat
  BY <1>2, SpotsFinite
<1>8. Count(T, b) # 0
  BY <1>6, <1>7, FS_EmptySet DEF Count
<1>9. refcounts[p][b] = Count(T, b) /\ (b \in free[p] => refcounts[p][b] = 0)
  BY <1>1 DEF RefInv, BlockOK
<1> QED BY <1>1, <1>4, <1>8, <1>9

LEMMA HeldUsedNext == IInv' /\ RefInv' => HeldKept'
BY HeldUsed, PTL

\* The store keeps the rows of blocks it does not free, and frees no hashed block.
LEMMA StoreRows ==
  ASSUME Typed, NEW fresh \in [Pools -> SUBSET Blocks], NEW gone, NEW contents,
         Store(fresh, gone, contents), NEW p \in Pools, Sealed(p)
  PROVE  /\ rows' = [q \in Pools |-> rows'[q]]
         /\ \A b \in Blocks : b \notin free'[p] => rows'[p][b] = contents[p][b]
         /\ hashed'[p] = hashed[p] \ fresh[p]
         /\ hashed'[p] \cap free'[p] = {}
<1>1. /\ hashed' = [q \in Pools |-> hashed[q] \ fresh[q]]
      /\ rows' = [q \in Pools |-> [b \in Blocks |->
           IF b \in free'[q] THEN Blank(Stale) ELSE contents[q][b]]]
  BY DEF Store
<1>2. \A b \in Blocks : b \in free'[p] => b \in free[p] \ fresh[p] \/ b \notin hashed'[p]
  BY DEF Store
<1>3. hashed[p] \in SUBSET Blocks
  BY DEF Typed, Stores
<1>4. hashed[p] \cap free[p] = {}
  BY DEF Sealed
<1> QED BY <1>1, <1>2, <1>3, <1>4

\* A pool in which no row of a held or hashed block changes.
LEMMA QuietPool ==
  ASSUME Unwindowed, IInv, IInv', RefInv', RowInv, NEW p \in Pools, NEW f, NEW N,
         NEW T, T = Held(p), NEW U, U = Held(p)', Derives(T, U, f, {}),
         \A s \in Slots : /\ Trust(p)'[s] <= Trust(p)[f[s]]
                          /\ Trust(p)'[s] <= Len(U[s]) * BlockSize,
         \A b \in Blocks : b \notin free'[p] => rows'[p][b] = rows[p][b],
         hashed'[p] \subseteq hashed[p] \cup N, hashed'[p] \cap free'[p] = {},
         \A s \in Slots :
           U[s] # <<>> => canonical[p][s[2]].cursor <= canonical'[p][s[2]].cursor,
         Published(p, U, N)
  PROVE  PoolRows(p)'
<1>1. T \in Holdings /\ U \in Holdings /\ HeldKept' /\ TrustsNat /\ TrustsNat'
  BY HeldTypes, HeldTypesNext, HeldUsedNext, TrustNat, TrustNatNext
<1>2. Placed(T) /\ Sound(p) /\ Frozen(p) /\ Sealed(p)
  BY DEF RowInv, PoolRows
<1>3. Unheld(T, U, {})
  BY DEF Unheld
<1>4. Placed(U)
  BY <1>2, <1>3, PlacedNext
<1>5. \A s \in Slots : \A i \in DOMAIN U[s] :
        U[s][i] \in Blocks /\ U[s][i] \notin free'[p] /\ rows'[p][U[s][i]] = rows[p][U[s][i]]
  BY <1>1 DEF HeldKept
<1>6. ASSUME NEW s \in Slots PROVE Right(rows'[p], s[2], U[s], Trust(p)'[s])
  <2>1. PICK r \in Slots : r = f[s] /\ r[2] = s[2]
    BY DEF Derives
  <2>2. PICK a \in Seq(Blocks), c \in Seq(Blocks), n \in Nat, m \in Nat :
          a = T[r] /\ c = U[s] /\ n = Trust(p)[r] /\ m = Trust(p)'[s]
    <3>1. T[r] \in Seq(Blocks) /\ U[s] \in Seq(Blocks)
      BY <1>1 DEF Holdings
    <3>2. Trust(p)[r] \in Nat /\ Trust(p)'[s] \in Nat
      BY <1>1 DEF TrustsNat
    <3> QED BY <3>1, <3>2
  <2>3. m <= n /\ m <= Len(c) * BlockSize
    BY <2>1, <2>2
  <2>4. Right(rows[p], s[2], a, n)
    BY <1>2, <2>1, <2>2 DEF Sound
  <2>5. \A i \in DOMAIN c : i \in DOMAIN a => c[i] = a[i]
    BY <2>1, <2>2 DEF Derives
  <2>6. ASSUME NEW x \in 0 .. m - 1
        PROVE  rows'[p][c[x \div BlockSize + 1]] = rows[p][c[x \div BlockSize + 1]]
    <3>1. PICK k \in Nat : k = Len(c)
      OBVIOUS
    <3>2. x \in Nat /\ x < k * BlockSize
      <4>1. k * BlockSize \in Nat
        BY Constants
      <4> QED BY <2>3, <3>1, <4>1
    <3>3. x \div BlockSize + 1 \in DOMAIN c
      BY <3>1, <3>2, PlaceOf
    <3> QED BY <1>5, <2>2, <3>3
  <2>7. Right(rows'[p], s[2], c, m)
    BY <2>3, <2>4, <2>5, <2>6, RightKept
  <2> QED BY <2>2, <2>7
<1>7. Sound(p)'
  BY <1>6 DEF Sound
<1>8. ASSUME NEW s \in Slots
      PROVE  canonical[p][s[2]].cursor \in Nat /\ canonical'[p][s[2]].cursor \in Nat
             /\ canonical'[p][s[2]].cursor <= MaxTokens
  <2>1. s[2] \in Lanes
    BY DEF Slots
  <2>2. canonical[p][s[2]] \in Table /\ canonical'[p][s[2]] \in Table
    BY <2>1 DEF IInv, Typed, Tables
  <2>3. Backed(canonical[p][s[2]])'
    BY <2>1 DEF IInv, AllBacked
  <2>4. canonical'[p][s[2]].cursor <= MaxTokens
    BY <2>3 DEF Backed, Unwindowed
  <2> QED BY <2>2, <2>4 DEF Table
<1>9. \A s \in Slots : DOMAIN U[s] \subseteq Nat
  BY <1>1 DEF Holdings
<1>10. Frozen(p)'
  <2>0. PICK F : F = {}
    OBVIOUS
  <2>1. hashed'[p] \subseteq (hashed[p] \ F) \cup N /\ Derives(T, U, f, F)
    BY <2>0
  <2>2. Onward(p, U)
    BY <1>8 DEF Onward
  <2> QED BY <1>2, <1>4, <1>9, <2>1, <2>2, FrozenNext
<1>11. ASSUME NEW b \in hashed'[p]
       PROVE  \E l \in Lanes, k \in 0 .. Cardinality(Blocks) - 1 : RowsOf(rows'[p][b], l, k)
  <2>1. CASE b \in N
    <3>1. PICK s \in Slots : \E k \in DOMAIN U[s] :
            /\ U[s][k] = b /\ k * BlockSize <= Trust(p)'[s]
            /\ k * BlockSize <= canonical'[p][s[2]].cursor
      BY <2>1 DEF Published
    <3>2. PICK k \in DOMAIN U[s] :
            /\ U[s][k] = b /\ k * BlockSize <= Trust(p)'[s]
            /\ k * BlockSize <= canonical'[p][s[2]].cursor
      BY <3>1
    <3>3. PICK c \in Seq(Blocks), n \in Nat : c = U[s] /\ n = Trust(p)'[s]
      BY <1>1 DEF Holdings, TrustsNat
    <3>4. k * BlockSize <= MaxTokens
      <4>1. PICK z \in Nat : z = k * BlockSize
        <5>1. k \in Nat
          BY <1>9
        <5> QED BY <5>1, Constants
      <4> QED BY <1>8, <3>2, <4>1, Constants
    <3>5. Right(rows'[p], s[2], c, n) /\ k \in DOMAIN c /\ k * BlockSize <= n
      BY <1>6, <3>2, <3>3
    <3>6. k - 1 \in 0 .. Cardinality(Blocks) - 1 /\ RowsOf(rows'[p][c[k]], s[2], k - 1)
      BY <3>4, <3>5, RowsOfBlock
    <3>7. s[2] \in Lanes
      BY DEF Slots
    <3> QED BY <3>2, <3>3, <3>6, <3>7
  <2>2. CASE b \notin N
    <3>1. b \in hashed[p] /\ b \notin free'[p] /\ b \in Blocks
      BY <2>2 DEF IInv, Typed, Stores
    <3>2. rows'[p][b] = rows[p][b]
      BY <3>1
    <3> QED BY <1>2, <3>1, <3>2 DEF Sealed
  <2> QED BY <2>1, <2>2
<1>12. Sealed(p)'
  <2>1. \A b \in hashed'[p] : b \notin free'[p]
    OBVIOUS
  <2> QED BY <1>11, <2>1 DEF Sealed, RowsOf
<1>13. Placed(Held(p))'
  BY <1>4
<1> QED BY <1>7, <1>10, <1>12, <1>13 DEF PoolRows

\* The table of slot s comes from that of slot r, whole or cut, and is trusted no further.
SlotQuiet(p, r, s) ==
  /\ r \in Slots /\ r[2] = s[2]
  /\ \A i \in DOMAIN Held(p)'[s] : i \in DOMAIN Held(p)[r] /\ Held(p)'[s][i] = Held(p)[r][i]
  /\ Trust(p)'[s] <= Trust(p)[r] /\ Trust(p)'[s] <= Len(Held(p)'[s]) * BlockSize

\* Rows change only in blocks that are freed, and those are not hashed.
StoreQuiet(p) ==
  /\ \A b \in Blocks : b \notin free'[p] => rows'[p][b] = rows[p][b]
  /\ hashed'[p] \cap free'[p] = {}

LEMMA QuietStep ==
  ASSUME Unwindowed, IInv, IInv', RefInv', RowInv, NEW p \in Pools, NEW N,
         \A s \in Slots : \E r : SlotQuiet(p, r, s), StoreQuiet(p), hashed'[p] \subseteq hashed[p] \cup N,
         \A s \in Slots : Held(p)'[s] # <<>> =>
           canonical[p][s[2]].cursor <= canonical'[p][s[2]].cursor,
         Published(p, Held(p)', N)
  PROVE  PoolRows(p)'
<1>0. PICK f : \A s \in Slots : SlotQuiet(p, f[s], s)
  <2>1. PICK f : f = [s \in Slots |-> CHOOSE r : SlotQuiet(p, r, s)]
    OBVIOUS
  <2>2. ASSUME NEW s \in Slots PROVE SlotQuiet(p, f[s], s)
    <3>1. \E r : SlotQuiet(p, r, s)
      OBVIOUS
    <3>2. SlotQuiet(p, CHOOSE r : SlotQuiet(p, r, s), s)
      BY <3>1, Zenon
    <3> QED BY <2>1, <3>2
  <2> QED BY <2>2
<1>1. PICK T, U : T = Held(p) /\ U = Held(p)'
  OBVIOUS
<1>2. Derives(T, U, f, {})
  BY <1>0, <1>1 DEF SlotQuiet, Derives
<1>3. \A s \in Slots : /\ Trust(p)'[s] <= Trust(p)[f[s]]
                       /\ Trust(p)'[s] <= Len(U[s]) * BlockSize
  BY <1>0, <1>1 DEF SlotQuiet
<1>4. \A s \in Slots :
        U[s] # <<>> => canonical[p][s[2]].cursor <= canonical'[p][s[2]].cursor
  BY <1>1
<1>5. Published(p, U, N)
  BY <1>1
<1>6. /\ \A b \in Blocks : b \notin free'[p] => rows'[p][b] = rows[p][b]
      /\ hashed'[p] \cap free'[p] = {}
  BY DEF StoreQuiet
<1> QED BY <1>1, <1>2, <1>3, <1>4, <1>5, <1>6, QuietPool

\* A step that leaves each table where it is, whole or cut, and publishes nothing.
LEMMA CalmStep ==
  ASSUME Unwindowed, IInv, IInv', RefInv', RowInv, NEW p \in Pools,
         \A s \in Slots : SlotQuiet(p, s, s), StoreQuiet(p), hashed'[p] \subseteq hashed[p],
         \A l \in Lanes : canonical'[p][l].cursor = canonical[p][l].cursor
                          \/ \A s \in Slots : s[2] = l => Held(p)'[s] = <<>>
  PROVE  PoolRows(p)'
<1>2. \A s \in Slots : \E r : SlotQuiet(p, r, s)
  OBVIOUS
<1>3. ASSUME NEW s \in Slots, Held(p)'[s] # <<>>
      PROVE  canonical[p][s[2]].cursor <= canonical'[p][s[2]].cursor
  <2>1. PICK l \in Lanes : l = s[2]
    BY DEF Slots
  <2>2. canonical'[p][l].cursor = canonical[p][l].cursor
    BY <1>3, <2>1
  <2>3. canonical[p][l].cursor \in Nat
    BY DEF IInv, Typed, Tables, Table
  <2> QED BY <2>1, <2>2, <2>3
<1>4. Published(p, Held(p)', {})
  BY DEF Published
<1>5. hashed'[p] \subseteq hashed[p] \cup {}
  OBVIOUS
<1> QED BY <1>2, <1>3, <1>4, <1>5, QuietStep

\* A slot whose table comes whole from a slot of the same lane.
LEMMA SameSlot ==
  ASSUME IInv, IInv', RowInv, NEW p \in Pools, NEW r \in Slots, NEW s \in Slots, r[2] = s[2],
         Held(p)'[s] = Held(p)[r], Trust(p)'[s] <= Trust(p)[r]
  PROVE  SlotQuiet(p, r, s)
<1>1. PICK m \in Nat, n \in Nat, k \in Nat :
        m = Trust(p)'[s] /\ n = Trust(p)[r] /\ k = Len(Held(p)[r])
  <2>1. Trust(p)'[s] \in Nat /\ Trust(p)[r] \in Nat
    BY TrustNat, TrustNatNext DEF TrustsNat
  <2>2. Held(p) \in Holdings
    BY HeldTypes
  <2>3. Held(p)[r] \in Seq(Blocks)
    BY <2>2 DEF Holdings
  <2>4. Len(Held(p)[r]) \in Nat
    BY <2>3
  <2> QED BY <2>1, <2>4
<1>2. n <= k * BlockSize
  BY <1>1 DEF RowInv, PoolRows, Sound, Right
<1>3. k * BlockSize \in Nat
  BY Constants
<1>4. m <= k * BlockSize
  BY <1>1, <1>2, <1>3
<1> QED BY <1>1, <1>4 DEF SlotQuiet

\* A slot that becomes or stays empty.
LEMMA EmptySlot ==
  ASSUME IInv, NEW p \in Pools, NEW s \in Slots, Held(p)'[s] = <<>>, Trust(p)'[s] = 0
  PROVE  SlotQuiet(p, s, s)
<1>1. Trust(p)[s] \in Nat
  BY TrustNat DEF TrustsNat
<1>2. Len(<<>>) * BlockSize = 0
  BY Constants
<1> QED BY <1>1, <1>2 DEF SlotQuiet

LEMMA UnrefQuiet ==
  ASSUME IInv, RowInv, NEW blocks, Unref(blocks), NEW p \in Pools
  PROVE  /\ StoreQuiet(p) /\ hashed'[p] \subseteq hashed[p]
         /\ rows' = [q \in Pools |-> rows'[q]]
<1>1. PICK gone : Store(None, gone, rows)
  BY DEF Unref
<1>2. None \in [Pools -> SUBSET Blocks] /\ None[p] = {}
  BY DEF None
<1>3. Typed /\ Sealed(p)
  BY DEF IInv, RowInv, PoolRows
<1>4. /\ rows' = [q \in Pools |-> rows'[q]]
      /\ \A b \in Blocks : b \notin free'[p] => rows'[p][b] = rows[p][b]
      /\ hashed'[p] = hashed[p] \ None[p]
      /\ hashed'[p] \cap free'[p] = {}
  BY <1>1, <1>2, <1>3, StoreRows
<1> QED BY <1>2, <1>4 DEF StoreQuiet

LEMMA RefQuiet ==
  ASSUME RowInv, UNCHANGED <<free, hashed, rows>>, NEW p \in Pools
  PROVE  /\ StoreQuiet(p) /\ hashed'[p] \subseteq hashed[p]
         /\ rows' = [q \in Pools |-> rows'[q]]
<1>1. hashed[p] \cap free[p] = {}
  BY DEF RowInv, PoolRows, Sealed
<1>2. rows = [q \in Pools |-> rows[q]]
  BY DEF RowInv
<1> QED BY <1>1, <1>2 DEF StoreQuiet

\* The shadows of the round keep their blocks or lose their trust.
LEMMA QuietLanes ==
  ASSUME Unwindowed, IInv, IInv', RefInv', RowInv, NEW p \in Pools,
         StoreQuiet(p), hashed'[p] \subseteq hashed[p], canonical' = canonical,
         \A m \in Lanes : /\ shadow'[p][m].blocks \in {shadow[p][m].blocks, <<>>}
                          /\ old'[p][m].blocks \in {old[p][m].blocks, <<>>}
                          /\ drafted'[m].blocks \in {drafted[m].blocks, <<>>},
         \A m \in Lanes : \/ Trust(p)'[At(2, m)] = 0
                          \/ /\ shadow'[p][m].blocks = shadow[p][m].blocks
                             /\ Trust(p)'[At(2, m)] <= Trust(p)[At(2, m)]
  PROVE  PoolRows(p)'
<1>1. ASSUME NEW m \in Lanes
      PROVE  /\ SlotQuiet(p, At(1, m), At(1, m)) /\ SlotQuiet(p, At(2, m), At(2, m))
             /\ SlotQuiet(p, At(3, m), At(3, m)) /\ SlotQuiet(p, At(4, m), At(4, m))
  <2>1. /\ At(1, m) \in Slots /\ At(2, m) \in Slots /\ At(3, m) \in Slots /\ At(4, m) \in Slots
    BY HeldOf
  <2>2. /\ Held(p)'[At(1, m)] = Held(p)[At(1, m)]
        /\ Held(p)'[At(2, m)] \in {Held(p)[At(2, m)], <<>>}
        /\ Held(p)'[At(3, m)] \in {Held(p)[At(3, m)], <<>>}
        /\ Held(p)'[At(4, m)] \in {Held(p)[At(4, m)], <<>>}
        /\ shadow'[p][m].blocks = shadow[p][m].blocks => Held(p)'[At(2, m)] = Held(p)[At(2, m)]
    BY HeldOf
  <2>3. /\ Trust(p)'[At(1, m)] = Trust(p)[At(1, m)] /\ Trust(p)[At(1, m)] \in Nat
        /\ Trust(p)[At(2, m)] \in Nat
        /\ Trust(p)'[At(3, m)] = 0 /\ Trust(p)[At(3, m)] = 0
        /\ Trust(p)'[At(4, m)] = 0 /\ Trust(p)[At(4, m)] = 0
    BY <2>1, TrustAt, TrustAtNext, TrustNat DEF TrustsNat
  <2>4. SlotQuiet(p, At(1, m), At(1, m))
    BY <2>1, <2>2, <2>3, SameSlot
  <2>5. SlotQuiet(p, At(2, m), At(2, m))
    <3>1. CASE Held(p)'[At(2, m)] = Held(p)[At(2, m)]
      <4>1. Trust(p)'[At(2, m)] <= Trust(p)[At(2, m)]
        BY <2>3
      <4> QED BY <2>1, <3>1, <4>1, SameSlot
    <3>2. CASE Held(p)'[At(2, m)] # Held(p)[At(2, m)]
      <4>1. Trust(p)'[At(2, m)] = 0 /\ Held(p)'[At(2, m)] = <<>>
        BY <2>2, <3>2
      <4> QED BY <2>1, <4>1, EmptySlot
    <3> QED BY <3>1, <3>2
  <2>6. \A k \in {3, 4} : SlotQuiet(p, At(k, m), At(k, m))
    <3> TAKE k \in {3, 4}
    <3>1. /\ At(k, m) \in Slots /\ Held(p)'[At(k, m)] \in {Held(p)[At(k, m)], <<>>}
          /\ Trust(p)'[At(k, m)] = 0 /\ Trust(p)'[At(k, m)] <= Trust(p)[At(k, m)]
      BY <2>1, <2>2, <2>3
    <3> QED BY <3>1, SameSlot, EmptySlot
  <2> QED BY <2>4, <2>5, <2>6
<1>2. \A s \in Slots : SlotQuiet(p, s, s)
  <2> TAKE s \in Slots
  <2>1. PICK m \in Lanes : s = At(1, m) \/ s = At(2, m) \/ s = At(3, m) \/ s = At(4, m)
    BY SlotIs
  <2> QED BY <1>1, <2>1
<1> QED BY <1>2, CalmStep

\* What a shadow is trusted with stays, or there is nothing to trust.
LEMMA ShadowTrust ==
  ASSUME IInv, NEW p \in Pools, NEW m \in Lanes, UNCHANGED <<canonical, kind>>,
         Cloned(m)' /\ p \in PoolsOf(kind) => Cloned(m) /\ Gained(p, m)' = Gained(p, m)
  PROVE  Trust(p)'[At(2, m)] \in {0, Trust(p)[At(2, m)]}
<1>1. Base(m)' = Base(m)
  BY DEF Base
<1> QED BY <1>1, TrustAt, TrustAtNext

\* A full block stays full where its table keeps it and is trusted as far.
LEMMA FullKept ==
  ASSUME NEW b, NEW c \in Seq(Blocks), NEW n \in Nat, Full(b, c, n),
         NEW d \in Seq(Blocks), NEW m \in Nat, n <= m,
         \A k \in DOMAIN c : k * BlockSize <= n => k \in DOMAIN d /\ d[k] = c[k]
  PROVE  Full(b, d, m)
<1>1. PICK k \in DOMAIN c : c[k] = b /\ k * BlockSize <= n
  BY DEF Full
<1>2. k * BlockSize \in Nat
  BY Constants
<1>3. k \in DOMAIN d /\ d[k] = b /\ k * BlockSize <= m
  BY <1>1, <1>2
<1> QED BY <1>3 DEF Full

\* Steps of the call that move no block.
LEMMA RowsPlain ==
  ASSUME Unwindowed, IInv, IInv', RefInv, RefInv', RowInv,
         Arbitrate \/ Fail \/ Cancel \/ \E l \in Lanes : Release(l)
  PROVE  RowInv'
<1>1. /\ UNCHANGED <<canonical, shadow, old, drafted, free, hashed, rows, kind, batch, draft, page,
                     step, noted>>
      /\ \/ UNCHANGED <<pc, todo>>
         \/ pc' = "discard"
         \/ pc = "arbitrate" /\ pc' = "commit"
  BY DEF Arbitrate, Fail, Cancel, Release, storeVars, tableVars, callVars
<1>2. ASSUME NEW p \in Pools, NEW m \in Lanes, pc' # "discard"
      PROVE  /\ Cloned(m)' = Cloned(m) /\ Gained(p, m)' = Gained(p, m)
             /\ Trust(p)'[At(2, m)] = Trust(p)[At(2, m)] /\ Base(m)' = Base(m)
             /\ Trust(p)'[At(1, m)] = Trust(p)[At(1, m)]
  <2>1. Base(m)' = Base(m)
    BY <1>1 DEF Base
  <2>2. Cloned(m)' = Cloned(m) /\ Gained(p, m)' = Gained(p, m)
    <3>1. CASE UNCHANGED <<pc, todo>>
      BY <1>1, <3>1 DEF Cloned, Gained, Verified, Replayed, Fed
    <3>2. CASE pc = "arbitrate" /\ pc' = "commit"
      <4>1. Cloned(m)' = Cloned(m)
        BY <1>1, <3>2 DEF Cloned
      <4>2. Fed(m)' = Fed(m)
        BY <1>1, <3>2 DEF Fed
      <4>3. Verified(m)' = Verified(m) /\ Replayed(m)' = Replayed(m)
        BY <3>2 DEF Verified, Replayed
      <4> QED BY <1>1, <4>1, <4>2, <4>3 DEF Gained
    <3> QED BY <1>1, <1>2, <3>1, <3>2
  <2> QED BY <1>1, <2>1, <2>2, TrustAt, TrustAtNext
<1>3. ASSUME NEW p \in Pools PROVE PoolRows(p)'
  <2>1. StoreQuiet(p) /\ hashed'[p] \subseteq hashed[p]
    BY <1>1, RefQuiet
  <2>2. ASSUME NEW m \in Lanes PROVE Trust(p)'[At(2, m)] \in {0, Trust(p)[At(2, m)]}
    <3>1. CASE pc' = "discard"
      <4>1. ~ Cloned(m)'
        BY <3>1 DEF Cloned
      <4> QED BY <4>1, TrustAtNext
    <3> QED BY <1>2, <3>1
  <2>3. \A m \in Lanes : \/ Trust(p)'[At(2, m)] = 0
                         \/ /\ shadow'[p][m].blocks = shadow[p][m].blocks
                            /\ Trust(p)'[At(2, m)] <= Trust(p)[At(2, m)]
    <3> TAKE m \in Lanes
    <3>1. Trust(p)[At(2, m)] \in Nat
      BY HeldOf, TrustNat DEF TrustsNat
    <3> QED BY <1>1, <2>2, <3>1
  <2>4. \A m \in Lanes : /\ shadow'[p][m].blocks \in {shadow[p][m].blocks, <<>>}
                         /\ old'[p][m].blocks \in {old[p][m].blocks, <<>>}
                         /\ drafted'[m].blocks \in {drafted[m].blocks, <<>>}
    BY <1>1
  <2> QED BY <1>1, <2>1, <2>3, <2>4, QuietLanes
<1>4. ASSUME NEW p \in Pools PROVE Noted(p)'
  <2>1. CASE pc' = "discard"
    BY <2>1 DEF Noted
  <2>2. CASE pc' # "discard"
    <3>1. Held(p)' = Held(p) /\ Noted(p)
      BY <1>1 DEF Held, RowInv
    <3>3. batch \subseteq Lanes
      BY DEF IInv, Control, Live
    <3> QED BY <1>1, <1>2, <2>2, <3>1, <3>3 DEF Noted
  <2> QED BY <2>1, <2>2
<1>5. DraftStart'
  <2>1. \A m \in Lanes : pc' \in {"copy", "draft"} => (Drafts(m)' <=> Drafts(m)) /\ pc = pc'
    BY <1>1 DEF Drafts, Drafting
  <2> QED BY <1>1, <2>1 DEF DraftStart, RowInv, Base
<1>6. rows' = [p \in Pools |-> rows'[p]]
  BY <1>1 DEF RowInv
<1> QED BY <1>3, <1>4, <1>5, <1>6 DEF RowInv

LEMMA RowsBegin ==
  ASSUME Unwindowed, IInv, IInv', RefInv, RefInv', RowInv, NEW lanes \in SUBSET Lanes, Begin(lanes)
  PROVE  RowInv'
<1>1. /\ UNCHANGED <<canonical, shadow, old, drafted, free, hashed, rows, kind, step, noted>>
      /\ pc = "idle" /\ pc' = "clone" /\ todo' = lanes /\ batch' = lanes
  BY DEF Begin, storeVars, tableVars
<1>2. ASSUME NEW p \in Pools PROVE PoolRows(p)'
  <2>1. StoreQuiet(p) /\ hashed'[p] \subseteq hashed[p]
    BY <1>1, RefQuiet
  <2>2. \A m \in Lanes : Trust(p)'[At(2, m)] = 0
    <3> TAKE m \in Lanes
    <3>1. ~ Cloned(m)'
      BY <1>1 DEF Cloned
    <3> QED BY <3>1, TrustAtNext
  <2>3. \A m \in Lanes : /\ shadow'[p][m].blocks \in {shadow[p][m].blocks, <<>>}
                         /\ old'[p][m].blocks \in {old[p][m].blocks, <<>>}
                         /\ drafted'[m].blocks \in {drafted[m].blocks, <<>>}
    BY <1>1
  <2> QED BY <1>1, <2>1, <2>2, <2>3, QuietLanes
<1>3. \A p \in Pools : Noted(p)'
  BY <1>1 DEF Noted, RowInv
<1>4. DraftStart'
  BY <1>1 DEF DraftStart, Drafts
<1>5. rows' = [p \in Pools |-> rows'[p]]
  BY <1>1 DEF RowInv
<1> QED BY <1>2, <1>3, <1>4, <1>5 DEF RowInv

LEMMA RowsDropDraft ==
  ASSUME Unwindowed, IInv, IInv', RefInv, RefInv', RowInv, NEW l \in Lanes, DropDraft(l)
  PROVE  RowInv'
<1>1. /\ UNCHANGED <<canonical, shadow, old, kind, batch, draft, page, step, noted>>
      /\ pc = "undraft" /\ kind = "parallel" /\ pc' \in {"undraft", "verify"}
      /\ pc' = "verify" => todo' = batch
      /\ drafted' = [drafted EXCEPT ![l] = NoTable]
      /\ \E blocks : Unref(blocks)
  BY DEF DropDraft, callVars, Done, IInv, Control
<1>2. ASSUME NEW p \in Pools PROVE PoolRows(p)'
  <2>1. StoreQuiet(p) /\ hashed'[p] \subseteq hashed[p]
    BY <1>1, UnrefQuiet
  <2>2. ASSUME NEW m \in Lanes PROVE Trust(p)'[At(2, m)] \in {0, Trust(p)[At(2, m)]}
    <3>1. Cloned(m)' => Cloned(m) /\ Gained(p, m)' = Gained(p, m)
      <4> SUFFICES ASSUME Cloned(m)' PROVE Cloned(m) /\ Gained(p, m)' = Gained(p, m)
        OBVIOUS
      <4>1. m \in batch /\ Cloned(m)
        BY <1>1 DEF Cloned
      <4>2. ~ Verified(m) /\ ~ Verified(m)' /\ ~ Replayed(m) /\ ~ Replayed(m)'
        BY <1>1, <4>1 DEF Verified, Replayed
      <4>3. Gained(p, m) = 0 /\ Gained(p, m)' = 0
        BY <1>1, <4>2 DEF Gained
      <4> QED BY <4>1, <4>3
    <3> QED BY <1>1, <3>1, ShadowTrust
  <2>3. \A m \in Lanes : \/ Trust(p)'[At(2, m)] = 0
                         \/ /\ shadow'[p][m].blocks = shadow[p][m].blocks
                            /\ Trust(p)'[At(2, m)] <= Trust(p)[At(2, m)]
    <3> TAKE m \in Lanes
    <3>1. Trust(p)[At(2, m)] \in Nat
      BY HeldOf, TrustNat DEF TrustsNat
    <3> QED BY <1>1, <2>2, <3>1
  <2>4. \A m \in Lanes : /\ shadow'[p][m].blocks \in {shadow[p][m].blocks, <<>>}
                         /\ old'[p][m].blocks \in {old[p][m].blocks, <<>>}
                         /\ drafted'[m].blocks \in {drafted[m].blocks, <<>>}
    BY <1>1, NoTableIs DEF IInv, Typed
  <2> QED BY <1>1, <2>1, <2>3, <2>4, QuietLanes
<1>3. \A p \in Pools : Noted(p)'
  BY <1>1 DEF Noted, RowInv
<1>4. DraftStart'
  BY <1>1 DEF DraftStart
<1>5. rows' = [p \in Pools |-> rows'[p]]
  <2>1. PICK p : p \in Pools
    BY DEF Pools
  <2> QED BY <1>1, <2>1, UnrefQuiet
<1> QED BY <1>2, <1>3, <1>4, <1>5 DEF RowInv

LEMMA RowsDropOld ==
  ASSUME Unwindowed, IInv, IInv', RefInv, RefInv', RowInv, NEW l \in Lanes, DropOld(l)
  PROVE  RowInv'
<1>1. /\ UNCHANGED <<canonical, shadow, drafted, kind, batch, draft, page, step, noted>>
      /\ pc = "drop" /\ pc' \in {"drop", "discard", "publish"}
      /\ old' = [p \in Pools |-> [old[p] EXCEPT ![l] = NoTable]]
      /\ \E blocks : Unref(blocks)
  BY DEF DropOld, callVars, Done
<1>2. ASSUME NEW p \in Pools PROVE PoolRows(p)'
  <2>1. StoreQuiet(p) /\ hashed'[p] \subseteq hashed[p]
    BY <1>1, UnrefQuiet
  <2>2. \A m \in Lanes : Trust(p)'[At(2, m)] = 0
    <3> TAKE m \in Lanes
    <3>1. ~ Cloned(m)'
      BY <1>1 DEF Cloned
    <3> QED BY <3>1, TrustAtNext
  <2>3. \A m \in Lanes : /\ shadow'[p][m].blocks \in {shadow[p][m].blocks, <<>>}
                         /\ old'[p][m].blocks \in {old[p][m].blocks, <<>>}
                         /\ drafted'[m].blocks \in {drafted[m].blocks, <<>>}
    BY <1>1, NoTableIs DEF IInv, Typed, Tables
  <2> QED BY <1>1, <2>1, <2>2, <2>3, QuietLanes
<1>3. ASSUME NEW p \in Pools PROVE Noted(p)'
  <2>1. Noted(p) /\ batch \subseteq Lanes
    BY DEF RowInv, IInv, Control, Live
  <2>2. \A m \in Lanes : /\ Held(p)'[At(1, m)] = Held(p)[At(1, m)]
                         /\ Trust(p)'[At(1, m)] = Trust(p)[At(1, m)]
    BY <1>1, HeldOf, TrustAt, TrustAtNext
  <2>3. pc' \in {"drop", "publish"} => \A b \in noted'[p] : \E m \in batch' :
          Full(b, Held(p)'[At(1, m)], Trust(p)'[At(1, m)])
    BY <1>1, <2>1, <2>2 DEF Noted
  <2> QED BY <1>1, <2>3 DEF Noted
<1>4. DraftStart'
  BY <1>1 DEF DraftStart
<1>5. rows' = [p \in Pools |-> rows'[p]]
  <2>1. PICK p : p \in Pools
    BY DEF Pools
  <2> QED BY <1>1, <2>1, UnrefQuiet
<1> QED BY <1>2, <1>3, <1>4, <1>5 DEF RowInv

LEMMA RowsDiscard ==
  ASSUME Unwindowed, IInv, IInv', RefInv, RefInv', RowInv, NEW l \in Lanes, Discard(l)
  PROVE  RowInv'
<1>1. /\ UNCHANGED <<canonical, old, kind>>
      /\ pc = "discard" /\ pc' \in {"discard", "idle"}
      /\ pc' = "idle" => noted' = None
      /\ shadow' = [p \in Pools |-> [shadow[p] EXCEPT ![l] = NoTable]]
      /\ drafted' = [drafted EXCEPT ![l] = NoTable]
      /\ \E blocks : Unref(blocks)
  BY DEF Discard, Done
<1>2. ASSUME NEW p \in Pools PROVE PoolRows(p)'
  <2>1. StoreQuiet(p) /\ hashed'[p] \subseteq hashed[p]
    BY <1>1, UnrefQuiet
  <2>2. \A m \in Lanes : Trust(p)'[At(2, m)] = 0
    <3> TAKE m \in Lanes
    <3>1. ~ Cloned(m)'
      BY <1>1 DEF Cloned
    <3> QED BY <3>1, TrustAtNext
  <2>3. \A m \in Lanes : /\ shadow'[p][m].blocks \in {shadow[p][m].blocks, <<>>}
                         /\ old'[p][m].blocks \in {old[p][m].blocks, <<>>}
                         /\ drafted'[m].blocks \in {drafted[m].blocks, <<>>}
    BY <1>1, NoTableIs DEF IInv, Typed, Tables
  <2> QED BY <1>1, <2>1, <2>2, <2>3, QuietLanes
<1>3. \A p \in Pools : Noted(p)'
  BY <1>1 DEF Noted, None
<1>4. DraftStart'
  BY <1>1 DEF DraftStart
<1>5. rows' = [p \in Pools |-> rows'[p]]
  <2>1. PICK p : p \in Pools
    BY DEF Pools
  <2> QED BY <1>1, <2>1, UnrefQuiet
<1> QED BY <1>2, <1>3, <1>4, <1>5 DEF RowInv

LEMMA RowsCopy ==
  ASSUME Unwindowed, IInv, IInv', RefInv, RefInv', RowInv, NEW l \in Lanes, Copy(l)
  PROVE  RowInv'
<1>1. /\ UNCHANGED <<rows, canonical, shadow, old, kind, batch, draft, page, step, noted, free, hashed>>
      /\ pc = "copy" /\ kind = "parallel" /\ l \in todo /\ l \in batch
      /\ drafted' = [drafted EXCEPT ![l] = shadow["proposer"][l]]
      /\ \/ pc' = "draft" /\ todo = {l}
         \/ pc' = "copy" /\ todo' = todo \ {l}
  BY DEF Copy, callVars, Done, Turn, Ref, IInv, Control
<1>2. ASSUME NEW p \in Pools, NEW m \in Lanes
      PROVE  /\ Trust(p)'[At(1, m)] = Trust(p)[At(1, m)] /\ Trust(p)[At(1, m)] \in Nat
             /\ Trust(p)'[At(2, m)] = Trust(p)[At(2, m)] /\ Trust(p)[At(2, m)] \in Nat
             /\ Trust(p)'[At(3, m)] = 0 /\ Trust(p)[At(3, m)] = 0
             /\ Trust(p)'[At(4, m)] = 0 /\ Trust(p)[At(4, m)] = 0
  <2>1. Cloned(m)' = Cloned(m)
    BY <1>1 DEF Cloned
  <2>2. Gained(p, m) = 0 /\ Gained(p, m)' = 0
    <3>1. ~ Verified(m) /\ ~ Verified(m)' /\ ~ Replayed(m) /\ ~ Replayed(m)'
      BY <1>1 DEF Verified, Replayed
    <3> QED BY <1>1, <3>1 DEF Gained
  <2>3. Base(m)' = Base(m)
    BY <1>1 DEF Base
  <2>4. Trust(p)[At(1, m)] \in Nat /\ Trust(p)[At(2, m)] \in Nat
    BY HeldOf, TrustNat DEF TrustsNat
  <2> QED BY <1>1, <2>1, <2>2, <2>3, <2>4, TrustAt, TrustAtNext
<1>3. ASSUME NEW p \in Pools PROVE PoolRows(p)'
  <2>1. StoreQuiet(p) /\ hashed'[p] \subseteq hashed[p]
    BY <1>1, RefQuiet
  <2>2. ASSUME NEW m \in Lanes
        PROVE  /\ SlotQuiet(p, At(1, m), At(1, m)) /\ SlotQuiet(p, At(2, m), At(2, m))
               /\ SlotQuiet(p, At(3, m), At(3, m)) /\ \E r : SlotQuiet(p, r, At(4, m))
    <3>1. /\ At(1, m) \in Slots /\ At(2, m) \in Slots /\ At(3, m) \in Slots /\ At(4, m) \in Slots
          /\ At(2, m)[2] = At(4, m)[2]
          /\ Held(p)'[At(1, m)] = Held(p)[At(1, m)] /\ Held(p)'[At(2, m)] = Held(p)[At(2, m)]
          /\ Held(p)'[At(3, m)] = Held(p)[At(3, m)]
      BY <1>1, HeldOf
    <3>2. Held(p)'[At(4, m)] = Held(p)[At(4, m)] \/ Held(p)'[At(4, m)] = Held(p)[At(2, m)]
      <4>1. drafted' \in [Lanes -> Table] /\ drafted \in [Lanes -> Table]
        BY DEF IInv, Typed
      <4>2. drafted'[m] = drafted[m] \/ drafted'[m] = shadow["proposer"][m]
        BY <1>1, <4>1
      <4>3. CASE p = "proposer"
        <5>1. /\ Held(p)'[At(4, m)] = drafted'[m].blocks /\ Held(p)[At(4, m)] = drafted[m].blocks
              /\ Held(p)[At(2, m)] = shadow["proposer"][m].blocks
          BY <4>3, HeldOf
        <5> QED BY <4>2, <5>1
      <4>4. CASE p # "proposer"
        <5>1. Held(p)'[At(4, m)] = <<>> /\ Held(p)[At(4, m)] = <<>>
          BY <4>4, HeldOf
        <5> QED BY <5>1
      <4> QED BY <4>3, <4>4
    <3>3. SlotQuiet(p, At(1, m), At(1, m))
      BY <1>2, <3>1, SameSlot
    <3>4. SlotQuiet(p, At(2, m), At(2, m))
      BY <1>2, <3>1, SameSlot
    <3>5. SlotQuiet(p, At(3, m), At(3, m))
      BY <1>2, <3>1, SameSlot
    <3>6. CASE Held(p)'[At(4, m)] = Held(p)[At(4, m)]
      <4>1. SlotQuiet(p, At(4, m), At(4, m))
        BY <1>2, <3>1, <3>6, SameSlot
      <4> QED BY <3>3, <3>4, <3>5, <4>1
    <3>7. CASE Held(p)'[At(4, m)] = Held(p)[At(2, m)]
      <4>1. Trust(p)'[At(4, m)] <= Trust(p)[At(2, m)]
        BY <1>2
      <4>2. SlotQuiet(p, At(2, m), At(4, m))
        BY <3>1, <3>7, <4>1, SameSlot
      <4> QED BY <3>3, <3>4, <3>5, <4>2
    <3> QED BY <3>2, <3>6, <3>7
  <2>3. \A s \in Slots : \E r : SlotQuiet(p, r, s)
    <3> TAKE s \in Slots
    <3>1. PICK m \in Lanes : s = At(1, m) \/ s = At(2, m) \/ s = At(3, m) \/ s = At(4, m)
      BY SlotIs
    <3> QED BY <2>2, <3>1
  <2>4. ASSUME NEW s \in Slots, Held(p)'[s] # <<>>
        PROVE  canonical[p][s[2]].cursor <= canonical'[p][s[2]].cursor
    <3>1. PICK m \in Lanes : m = s[2]
      BY DEF Slots
    <3>2. canonical[p][m].cursor \in Nat
      BY DEF IInv, Typed, Tables, Table
    <3> QED BY <1>1, <3>1, <3>2
  <2>5. Published(p, Held(p)', {}) /\ hashed'[p] \subseteq hashed[p] \cup {}
    BY <2>1 DEF Published
  <2> QED BY <2>1, <2>3, <2>4, <2>5, QuietStep
<1>4. \A p \in Pools : Noted(p)'
  BY <1>1 DEF Noted, RowInv
<1>5. DraftStart'
  <2> SUFFICES ASSUME NEW m \in Lanes, Drafts(m)' PROVE drafted'[m].cursor = Base(m)'
    BY DEF DraftStart
  <2>1. Base(m)' = Base(m) /\ m \in Drafting(0) /\ m \in batch
    BY <1>1 DEF Base, Drafts, Drafting
  <2>2. CASE m = l
    <3>1. ParallelStage(l)
      BY <1>1 DEF IInv, Stages
    <3>2. shadow["proposer"][l].cursor = Base(l)
      BY <1>1, <3>1 DEF ParallelStage
    <3>3. drafted'[l] = shadow["proposer"][l]
      BY <1>1 DEF IInv, Typed
    <3> QED BY <2>1, <2>2, <3>2, <3>3
  <2>3. CASE m # l
    <3>1. m \notin todo
      BY <1>1, <2>3 DEF Drafts
    <3>2. Drafts(m)
      BY <1>1, <2>1, <3>1 DEF Drafts
    <3>3. drafted[m].cursor = Base(m)
      BY <1>1, <3>2 DEF RowInv, DraftStart
    <3>4. drafted'[m] = drafted[m]
      BY <1>1, <2>3 DEF IInv, Typed
    <3> QED BY <2>1, <3>3, <3>4
  <2> QED BY <2>2, <2>3
<1>6. rows' = [p \in Pools |-> rows'[p]]
  BY <1>1 DEF RowInv
<1> QED BY <1>3, <1>4, <1>5, <1>6 DEF RowInv

\* Right after a clone nothing is gained.
LEMMA CloneGains ==
  ASSUME IInv, NEW l \in Lanes, Clone(l), NEW p \in PoolsOf(kind), NEW m \in batch
  PROVE  /\ Gained(p, m)' = 0 /\ Gained(p, m) = 0
         /\ Cloned(m)' => m = l \/ Cloned(m)
<1>1. /\ UNCHANGED <<kind, batch, draft, page, step>> /\ pc = "clone" /\ step = 0
      /\ \/ pc' = "clone" /\ todo' = todo \ {l}
         \/ pc' = "verify" /\ todo' = batch /\ todo = {l} /\ (kind = "history" \/ Drafting(0) = {})
         \/ pc' = "draft" /\ kind = "exact" /\ todo' = Drafting(0) /\ todo = {l}
         \/ pc' = "copy" /\ kind # "exact" /\ todo = {l}
  BY DEF Clone, Done, callVars, IInv, Control
<1>2. draft[m] \in Nat /\ page[m] \in Nat
  BY CallIs
<1>3. ~ Verified(m) /\ ~ Verified(m)' /\ ~ Replayed(m) /\ ~ Replayed(m)'
  BY <1>1 DEF Verified, Replayed
<1>4. m \in Drafting(0) \/ draft[m] = 0
  BY <1>2 DEF Drafting
<1>5. Fed(m) = 0
  BY <1>1 DEF Fed
<1>6. kind = "exact" => Fed(m)' = 0
  <2> SUFFICES ASSUME kind = "exact" PROVE Fed(m)' = 0
    OBVIOUS
  <2>1. CASE pc' = "clone"
    BY <2>1 DEF Fed
  <2>2. CASE pc' = "verify"
    <3>1. draft[m] = 0
      BY <1>1, <1>4, <2>2
    <3> QED BY <1>1, <2>2, <3>1 DEF Fed
  <2>3. CASE pc' = "draft" /\ m \in Drafting(0)
    BY <1>1, <2>3 DEF Fed
  <2>4. CASE pc' = "draft" /\ m \notin Drafting(0)
    <3>1. draft[m] = 0
      BY <1>4, <2>4
    <3> QED BY <1>1, <2>4, <3>1 DEF Fed, Smaller
  <2> QED BY <1>1, <2>1, <2>2, <2>3, <2>4
<1>7. Gained(p, m)' = 0 /\ Gained(p, m) = 0
  BY <1>1, <1>2, <1>3, <1>5, <1>6 DEF Gained, Smaller
<1>8. Cloned(m)' => m = l \/ Cloned(m)
  BY <1>1 DEF Cloned
<1> QED BY <1>7, <1>8

LEMMA RowsClone ==
  ASSUME Unwindowed, IInv, IInv', RefInv, RefInv', RowInv, NEW l \in Lanes, Clone(l)
  PROVE  RowInv'
<1>1. /\ UNCHANGED <<rows, canonical, drafted, old, kind, batch, draft, noted, free, hashed>>
      /\ pc = "clone" /\ l \in todo /\ l \in batch /\ pc' \in {"clone", "verify", "draft", "copy"}
      /\ pc' = "draft" => kind = "exact"
      /\ pc' = "copy" => todo' = Drafting(0)
      /\ shadow' = [p \in Pools |->
           IF p \in PoolsOf(kind) THEN [shadow[p] EXCEPT ![l] = canonical[p][l]] ELSE shadow[p]]
  BY DEF Clone, callVars, Done, Turn, Ref, IInv, Control
<1>2. ASSUME NEW p \in Pools, NEW m \in Lanes
      PROVE  /\ Trust(p)'[At(1, m)] = Trust(p)[At(1, m)] /\ Trust(p)[At(1, m)] \in Nat
             /\ Trust(p)[At(2, m)] \in Nat
             /\ m # l \/ p \notin PoolsOf(kind) => Trust(p)'[At(2, m)] <= Trust(p)[At(2, m)]
             /\ p \in PoolsOf(kind) => Trust(p)'[At(2, l)] <= Trust(p)[At(1, l)]
             /\ Trust(p)'[At(3, m)] = 0 /\ Trust(p)[At(3, m)] = 0
             /\ Trust(p)'[At(4, m)] = 0 /\ Trust(p)[At(4, m)] = 0
  <2>1. Base(m)' = Base(m) /\ Base(l)' = Base(l)
    BY <1>1 DEF Base
  <2>2. Trust(p)[At(1, m)] \in Nat /\ Trust(p)[At(2, m)] \in Nat /\ Trust(p)[At(1, l)] \in Nat
    BY HeldOf, TrustNat DEF TrustsNat
  <2>3. m # l \/ p \notin PoolsOf(kind) => Trust(p)'[At(2, m)] <= Trust(p)[At(2, m)]
    <3> SUFFICES ASSUME m # l \/ p \notin PoolsOf(kind)
                 PROVE  Trust(p)'[At(2, m)] <= Trust(p)[At(2, m)]
      OBVIOUS
    <3>1. CASE Cloned(m)' /\ p \in PoolsOf(kind)
      <4>1. m \in batch
        BY <1>1, <3>1 DEF Cloned
      <4>2. Cloned(m) /\ Gained(p, m)' = 0 /\ Gained(p, m) = 0
        BY <3>1, <4>1, CloneGains
      <4>3. Trust(p)'[At(2, m)] = Trust(p)[At(2, m)]
        BY <1>1, <2>1, <3>1, <4>2, TrustAt, TrustAtNext
      <4> QED BY <2>2, <4>3
    <3>2. CASE ~ (Cloned(m)' /\ p \in PoolsOf(kind))
      <4>1. Trust(p)'[At(2, m)] = 0
        BY <1>1, <3>2, TrustAtNext
      <4> QED BY <2>2, <4>1
    <3> QED BY <3>1, <3>2
  <2>4. p \in PoolsOf(kind) => Trust(p)'[At(2, l)] <= Trust(p)[At(1, l)]
    <3> SUFFICES ASSUME p \in PoolsOf(kind) PROVE Trust(p)'[At(2, l)] <= Trust(p)[At(1, l)]
      OBVIOUS
    <3>1. Base(l) \in Nat /\ canonical[p][l].cursor = Base(l)
      <4>1. p = "target" \/ kind # "history"
        BY DEF PoolsOf
      <4> QED BY <1>1, <4>1, CallIs DEF Pools
    <3>2. Gained(p, l)' = 0
      BY <1>1, CloneGains
    <3>3. Trust(p)[At(1, l)] = Base(l)
      BY <3>1, TrustAt
    <3>4. Trust(p)'[At(2, l)] \in {0, Base(l) + 0}
      BY <2>1, <3>2, TrustAtNext
    <3> QED BY <3>1, <3>3, <3>4
  <2>5. Trust(p)'[At(1, m)] = Trust(p)[At(1, m)]
    BY <1>1, TrustAt, TrustAtNext
  <2> QED BY <2>2, <2>3, <2>4, <2>5, TrustAt, TrustAtNext
<1>3. ASSUME NEW p \in Pools PROVE PoolRows(p)'
  <2>1. StoreQuiet(p) /\ hashed'[p] \subseteq hashed[p]
    BY <1>1, RefQuiet
  <2>2. ASSUME NEW m \in Lanes
        PROVE  /\ SlotQuiet(p, At(1, m), At(1, m)) /\ \E r : SlotQuiet(p, r, At(2, m))
               /\ SlotQuiet(p, At(3, m), At(3, m)) /\ SlotQuiet(p, At(4, m), At(4, m))
    <3>1. /\ At(1, m) \in Slots /\ At(2, m) \in Slots /\ At(3, m) \in Slots /\ At(4, m) \in Slots
          /\ At(2, m)[2] = At(1, m)[2]
          /\ Held(p)'[At(1, m)] = Held(p)[At(1, m)]
          /\ Held(p)'[At(3, m)] = Held(p)[At(3, m)] /\ Held(p)'[At(4, m)] = Held(p)[At(4, m)]
      BY <1>1, HeldOf
    <3>2. \A k \in {1, 3, 4} : At(k, m) \in Slots /\ Held(p)'[At(k, m)] = Held(p)[At(k, m)]
                               /\ Trust(p)'[At(k, m)] <= Trust(p)[At(k, m)]
      BY <1>2, <3>1
    <3>3. \A k \in {1, 3, 4} : SlotQuiet(p, At(k, m), At(k, m))
      BY <3>2, SameSlot
    <3>4. \E r : SlotQuiet(p, r, At(2, m))
      <4>1. CASE m = l /\ p \in PoolsOf(kind)
        <5>1. shadow'[p][m] = canonical[p][m]
          BY <1>1, <4>1 DEF IInv, Typed, Tables
        <5>2. Held(p)'[At(2, m)] = Held(p)[At(1, m)]
          BY <5>1, HeldOf
        <5>3. Trust(p)'[At(2, m)] <= Trust(p)[At(1, m)]
          BY <1>2, <4>1
        <5>4. SlotQuiet(p, At(1, m), At(2, m))
          BY <3>1, <5>2, <5>3, SameSlot
        <5> QED BY <5>4
      <4>2. CASE ~ (m = l /\ p \in PoolsOf(kind))
        <5>1. shadow'[p][m] = shadow[p][m]
          BY <1>1, <4>2 DEF IInv, Typed, Tables
        <5>2. Held(p)'[At(2, m)] = Held(p)[At(2, m)]
          BY <5>1, HeldOf
        <5>3. Trust(p)'[At(2, m)] <= Trust(p)[At(2, m)]
          BY <1>2, <4>2
        <5>4. SlotQuiet(p, At(2, m), At(2, m))
          BY <3>1, <5>2, <5>3, SameSlot
        <5> QED BY <5>4
      <4> QED BY <4>1, <4>2
    <3> QED BY <3>3, <3>4
  <2>3. \A s \in Slots : \E r : SlotQuiet(p, r, s)
    <3> TAKE s \in Slots
    <3>1. PICK m \in Lanes : s = At(1, m) \/ s = At(2, m) \/ s = At(3, m) \/ s = At(4, m)
      BY SlotIs
    <3> QED BY <2>2, <3>1
  <2>4. ASSUME NEW s \in Slots, Held(p)'[s] # <<>>
        PROVE  canonical[p][s[2]].cursor <= canonical'[p][s[2]].cursor
    <3>1. PICK m \in Lanes : m = s[2]
      BY DEF Slots
    <3>2. canonical[p][m].cursor \in Nat
      BY DEF IInv, Typed, Tables, Table
    <3> QED BY <1>1, <3>1, <3>2
  <2>5. Published(p, Held(p)', {}) /\ hashed'[p] \subseteq hashed[p] \cup {}
    BY <2>1 DEF Published
  <2> QED BY <2>1, <2>3, <2>4, <2>5, QuietStep
<1>4. \A p \in Pools : Noted(p)'
  BY <1>1 DEF Noted, RowInv
<1>5. DraftStart'
  <2> SUFFICES ASSUME NEW m \in Lanes, Drafts(m)', pc' \in {"copy", "draft"} PROVE FALSE
    BY DEF DraftStart
  <2>1. Drafting(0)' = Drafting(0) /\ m \in Drafting(0)
    BY <1>1 DEF Drafts, Drafting
  <2>2. pc' # "draft"
    BY <1>1 DEF Drafts
  <2>3. m \notin todo'
    BY <2>2 DEF Drafts
  <2> QED BY <1>1, <2>1, <2>2, <2>3
<1>6. rows' = [p \in Pools |-> rows'[p]]
  BY <1>1 DEF RowInv
<1> QED BY <1>3, <1>4, <1>5, <1>6 DEF RowInv

\* The blocks a page completes are full.
LEMMA CompletedFull ==
  ASSUME NEW p \in Pools, NEW l \in Lanes, NEW table \in Table, NEW n \in Nat,
         NEW c \in Nat, canonical[p][l].cursor = c, c + n <= Len(table.blocks) * BlockSize,
         NEW b \in Completed(p, l, table, n)
  PROVE  Full(b, table.blocks, c + n)
<1>1. PICK s \in Seq(Blocks), k \in Nat : s = table.blocks /\ k = Len(s)
  BY DEF Table
<1>2. c + n \in Nat /\ c + n <= k * BlockSize
  BY <1>1
<1>3. PICK q \in Nat : q = (c + n) \div BlockSize /\ q <= k
  BY <1>2, WholeBlocks
<1>4. c \div BlockSize \in Nat
  <2>1. \A a \in Nat, d \in Nat \ {0} : a \div d \in Nat
    OBVIOUS
  <2> QED BY <2>1, Constants
<1>5. PICK i \in c \div BlockSize + 1 .. q : b = s[i]
  BY <1>1, <1>3 DEF Completed
<1>6. i \in 1 .. k /\ i \in Nat /\ i <= q
  BY <1>3, <1>4, <1>5
<1>7. i * BlockSize <= c + n
  <2>1. PICK d \in Nat \ {0}, z \in Nat : d = BlockSize /\ z = c + n
    BY Constants
  <2>2. d * (z \div d) <= z
    OBVIOUS
  <2>3. d * q <= z
    BY <1>3, <2>1, <2>2
  <2>4. d * i <= d * q
    BY <1>6
  <2>5. d * i = i * d /\ d * i \in Nat /\ d * q \in Nat
    BY <1>6
  <2> QED BY <2>1, <2>3, <2>4, <2>5
<1> QED BY <1>1, <1>5, <1>6, <1>7 DEF Full

\* A cut takes nothing from what a shadow is trusted with.
LEMMA CutGains ==
  ASSUME IInv, NEW l \in Lanes, Truncate(l), NEW p \in PoolsOf(kind), NEW m \in batch
  PROVE  /\ Gained(p, m)' = Gained(p, m)
         /\ p \in CutPools => Gained(p, m) = page[m]
<1>1. /\ pc = "truncate" /\ UNCHANGED <<kind, batch, draft, page, step>>
      /\ \/ pc' = "truncate"
         \/ pc' = "replay" /\ todo' = batch /\ kind = "parallel"
         \/ pc' = "arbitrate" /\ kind # "parallel"
  <2>1. Turn(l) /\ pc = "truncate"
    BY DEF Truncate
  <2>2. CASE kind = "parallel"
    BY <2>1, <2>2, DoneIs DEF Truncate, callVars
  <2>3. CASE kind # "parallel"
    BY <2>1, <2>3, DoneIs DEF Truncate, callVars
  <2> QED BY <2>2, <2>3
<1>2. draft[m] \in Nat /\ page[m] \in Nat /\ page[m] <= draft[m] + 1
  BY CallIs
<1>3. Verified(m) /\ Verified(m)'
  BY <1>1 DEF Verified
<1>4. kind # "parallel" => Fed(m) = draft[m] + 1 /\ Fed(m)' = draft[m] + 1
  BY <1>1 DEF Fed
<1>5. kind = "parallel" => ~ Replayed(m) /\ ~ Replayed(m)'
  BY <1>1 DEF Replayed
<1>6. p = "target" => Gained(p, m)' = page[m] /\ Gained(p, m) = page[m]
  BY <1>1, <1>3 DEF Gained
<1>7. kind = "exact" /\ p # "target" => Gained(p, m)' = page[m] /\ Gained(p, m) = page[m]
  BY <1>1, <1>2, <1>4 DEF Gained, Smaller
<1>8. kind = "parallel" /\ p # "target" => Gained(p, m)' = 0 /\ Gained(p, m) = 0
  BY <1>1, <1>5 DEF Gained
<1>9. kind \in {"exact", "history", "parallel"}
  BY Constants DEF IInv, Typed
<1>10. p = "target" \/ kind \in {"exact", "parallel"}
  BY <1>9 DEF PoolsOf
<1>11. p \in CutPools => p = "target" \/ kind # "parallel"
  BY DEF CutPools
<1> QED BY <1>6, <1>7, <1>8, <1>10, <1>11

LEMMA RowsTruncate ==
  ASSUME Unwindowed, IInv, IInv', RefInv, RefInv', RowInv, NEW l \in Lanes, Truncate(l)
  PROVE  RowInv'
<1>1. /\ UNCHANGED <<canonical, drafted, old, kind, batch, draft, page, step>>
      /\ pc = "truncate" /\ l \in todo /\ l \in batch
      /\ pc' \in {"truncate", "replay", "arbitrate"}
      /\ batch \subseteq Lanes /\ CutPools \subseteq PoolsOf(kind) /\ CutPools \subseteq Pools
      /\ shadow' = [p \in Pools |-> IF p \notin CutPools THEN shadow[p]
                                    ELSE [shadow[p] EXCEPT ![l] = Cut(p, l)]]
      /\ noted' = [p \in Pools |-> noted[p] \cup
           IF p \in CutPools THEN Completed(p, l, shadow[p][l], page[l]) ELSE {}]
      /\ \E blocks : Unref(blocks)
  BY DEF Truncate, callVars, Done, Turn, IInv, Control, Live, CutPools, PoolsOf, Pools
<1>2. ASSUME NEW p \in Pools, NEW m \in Lanes
      PROVE  /\ Trust(p)'[At(1, m)] = Trust(p)[At(1, m)] /\ Trust(p)[At(1, m)] \in Nat
             /\ Trust(p)'[At(2, m)] = Trust(p)[At(2, m)] /\ Trust(p)[At(2, m)] \in Nat
             /\ Trust(p)'[At(3, m)] = 0 /\ Trust(p)[At(3, m)] = 0
             /\ Trust(p)'[At(4, m)] = 0 /\ Trust(p)[At(4, m)] = 0
             /\ p \in CutPools /\ m \in batch => Trust(p)[At(2, m)] = Base(m) + page[m]
  <2>1. Cloned(m)' = Cloned(m) /\ (Cloned(m) <=> m \in batch)
    BY <1>1 DEF Cloned
  <2>2. m \in batch /\ p \in PoolsOf(kind) =>
          /\ Gained(p, m)' = Gained(p, m)
          /\ p \in CutPools => Gained(p, m) = page[m]
    BY CutGains
  <2>3. Base(m)' = Base(m)
    BY <1>1 DEF Base
  <2>4. Trust(p)[At(1, m)] \in Nat /\ Trust(p)[At(2, m)] \in Nat
    BY HeldOf, TrustNat DEF TrustsNat
  <2>5. Trust(p)'[At(2, m)] = Trust(p)[At(2, m)]
    BY <1>1, <2>1, <2>2, <2>3, TrustAt, TrustAtNext
  <2>6. p \in CutPools /\ m \in batch => Trust(p)[At(2, m)] = Base(m) + page[m]
    BY <1>1, <2>1, <2>2, TrustAt
  <2> QED BY <1>1, <2>4, <2>5, <2>6, TrustAt, TrustAtNext
<1>3. ASSUME NEW p \in Pools, NEW m \in Lanes, p \notin CutPools \/ m # l
      PROVE  Held(p)'[At(2, m)] = Held(p)[At(2, m)]
  <2>1. shadow'[p][m] = shadow[p][m]
    BY <1>1, <1>3 DEF IInv, Typed, Tables
  <2> QED BY <2>1, HeldOf
<1>4. ASSUME NEW p \in CutPools
      PROVE  \E s \in Seq(Blocks), d \in Seq(Blocks), k \in Nat, n \in Nat :
               /\ s = Held(p)[At(2, l)] /\ d = Held(p)'[At(2, l)] /\ d = SubSeq(s, 1, k)
               /\ k <= Len(s) /\ n = Trust(p)[At(2, l)] /\ n <= k * BlockSize
               /\ s = shadow[p][l].blocks
  <2>1. p \in Pools /\ shadow \in Tables
    BY <1>1 DEF IInv, Typed
  <2>2. /\ Cut(p, l) \in Table /\ Backed(Cut(p, l)) /\ Cut(p, l).cursor = Base(l) + page[l]
        /\ Cut(p, l).blocks = SubSeq(shadow[p][l].blocks, 1, Needed(p, l))
    BY <1>1, CutIs
  <2>3. PICK k \in Nat : k = Needed(p, l) /\ k <= Len(shadow[p][l].blocks)
    BY <1>1, NeededIs
  <2>4. shadow'[p][l] = Cut(p, l)
    BY <1>1, <2>1 DEF Tables
  <2>5. PICK s \in Seq(Blocks), d \in Seq(Blocks) :
          s = shadow[p][l].blocks /\ d = Cut(p, l).blocks
    BY <2>1, <2>2 DEF Table, Tables
  <2>6. s = Held(p)[At(2, l)] /\ d = Held(p)'[At(2, l)]
    BY <2>1, <2>4, <2>5, HeldOf
  <2>7. d = SubSeq(s, 1, k) /\ Len(d) = k
    BY <2>2, <2>3, <2>5
  <2>8. PICK n \in Nat : n = Trust(p)[At(2, l)] /\ n = Base(l) + page[l]
    BY <1>1, <1>2, <2>1
  <2>9. n <= k * BlockSize
    BY <2>2, <2>5, <2>7, <2>8 DEF Backed
  <2> QED BY <2>3, <2>5, <2>6, <2>7, <2>8, <2>9
<1>5. ASSUME NEW p \in Pools PROVE PoolRows(p)'
  <2>1. StoreQuiet(p) /\ hashed'[p] \subseteq hashed[p]
    BY <1>1, UnrefQuiet
  <2>2. ASSUME NEW m \in Lanes
        PROVE  /\ SlotQuiet(p, At(1, m), At(1, m)) /\ SlotQuiet(p, At(2, m), At(2, m))
               /\ SlotQuiet(p, At(3, m), At(3, m)) /\ SlotQuiet(p, At(4, m), At(4, m))
    <3>1. /\ At(1, m) \in Slots /\ At(2, m) \in Slots /\ At(3, m) \in Slots /\ At(4, m) \in Slots
          /\ Held(p)'[At(1, m)] = Held(p)[At(1, m)]
          /\ Held(p)'[At(3, m)] = Held(p)[At(3, m)] /\ Held(p)'[At(4, m)] = Held(p)[At(4, m)]
      BY <1>1, HeldOf
    <3>2. \A k \in {1, 3, 4} : At(k, m) \in Slots /\ Held(p)'[At(k, m)] = Held(p)[At(k, m)]
                               /\ Trust(p)'[At(k, m)] <= Trust(p)[At(k, m)]
      BY <1>2, <3>1
    <3>3. \A k \in {1, 3, 4} : SlotQuiet(p, At(k, m), At(k, m))
      BY <3>2, SameSlot
    <3>4. SlotQuiet(p, At(2, m), At(2, m))
      <4>1. CASE p \notin CutPools \/ m # l
        <5>1. Held(p)'[At(2, m)] = Held(p)[At(2, m)] /\ Trust(p)'[At(2, m)] <= Trust(p)[At(2, m)]
          BY <1>2, <1>3, <4>1
        <5> QED BY <3>1, <5>1, SameSlot
      <4>2. CASE p \in CutPools /\ m = l
        <5>1. PICK s \in Seq(Blocks), d \in Seq(Blocks), k \in Nat, n \in Nat :
                 /\ s = Held(p)[At(2, l)] /\ d = Held(p)'[At(2, l)] /\ d = SubSeq(s, 1, k)
                 /\ k <= Len(s) /\ n = Trust(p)[At(2, l)] /\ n <= k * BlockSize
          BY <1>4, <4>2
        <5>2. Len(d) = k /\ \A i \in DOMAIN d : i \in DOMAIN s /\ d[i] = s[i]
          BY <5>1
        <5>3. n = Trust(p)'[At(2, l)] /\ n <= n
          BY <1>2, <5>1
        <5> QED BY <3>1, <4>2, <5>1, <5>2, <5>3 DEF SlotQuiet
      <4> QED BY <4>1, <4>2
    <3> QED BY <3>3, <3>4
  <2>3. \A s \in Slots : SlotQuiet(p, s, s)
    <3> TAKE s \in Slots
    <3>1. PICK m \in Lanes : s = At(1, m) \/ s = At(2, m) \/ s = At(3, m) \/ s = At(4, m)
      BY SlotIs
    <3> QED BY <2>2, <3>1
  <2> QED BY <1>1, <2>1, <2>3, CalmStep
<1>6. ASSUME NEW p \in Pools, NEW m \in Lanes, NEW b,
             Full(b, Held(p)[At(2, m)], Trust(p)[At(2, m)])
      PROVE  Full(b, Held(p)'[At(2, m)], Trust(p)'[At(2, m)])
  <2>1. CASE p \notin CutPools \/ m # l
    BY <1>2, <1>3, <1>6, <2>1
  <2>2. CASE p \in CutPools /\ m = l
    <3>1. PICK s \in Seq(Blocks), d \in Seq(Blocks), k \in Nat, n \in Nat :
             /\ s = Held(p)[At(2, l)] /\ d = Held(p)'[At(2, l)] /\ d = SubSeq(s, 1, k)
             /\ k <= Len(s) /\ n = Trust(p)[At(2, l)] /\ n <= k * BlockSize
      BY <1>4, <2>2
    <3>2. ASSUME NEW i \in DOMAIN s, i * BlockSize <= n
          PROVE  i \in DOMAIN d /\ d[i] = s[i]
      <4>1. PICK j \in Nat \ {0}, e \in Nat \ {0} : j = i /\ e = BlockSize
        BY Constants
      <4>2. j * e \in Nat /\ k * e \in Nat
        OBVIOUS
      <4>3. j * e <= k * e
        BY <3>1, <3>2, <4>1, <4>2
      <4>4. ~ (k + 1 <= j)
        <5> SUFFICES ASSUME k + 1 <= j PROVE FALSE
          OBVIOUS
        <5>1. (k + 1) * e <= j * e
          OBVIOUS
        <5>2. (k + 1) * e = k * e + e
          OBVIOUS
        <5> QED BY <4>2, <4>3, <5>1, <5>2
      <4>5. j <= k
        BY <4>4
      <4> QED BY <3>1, <4>1, <4>5
    <3>3. Full(b, s, n) /\ n <= n
      BY <1>6, <2>2, <3>1
    <3>4. Full(b, d, n)
      BY <3>2, <3>3, FullKept
    <3> QED BY <1>2, <2>2, <3>1, <3>4
  <2> QED BY <2>1, <2>2
<1>7. ASSUME NEW p \in Pools PROVE Noted(p)'
  <2>1. ASSUME NEW b \in noted'[p]
        PROVE  \E m \in batch : Full(b, Held(p)[At(2, m)], Trust(p)[At(2, m)])
    <3>1. CASE b \in noted[p]
      BY <1>1, <3>1 DEF RowInv, Noted
    <3>2. CASE b \notin noted[p]
      <4>1. p \in CutPools /\ b \in Completed(p, l, shadow[p][l], page[l])
        BY <1>1, <2>1, <3>2
      <4>2. PICK t \in Table, n \in Nat, c \in Nat :
              /\ t = shadow[p][l] /\ n = page[l] /\ c = canonical[p][l].cursor /\ c = Base(l)
              /\ Room(t.blocks, c + n)
        <5>1. /\ canonical[p][l].cursor \in Nat /\ page[l] \in Nat
              /\ canonical[p][l].cursor = Base(l)
              /\ Room(shadow[p][l].blocks, canonical[p][l].cursor + page[l])
          BY <1>1, <4>1, PageFits
        <5>2. shadow[p][l] \in Table
          BY DEF IInv, Typed, Tables
        <5> QED BY <5>1, <5>2
      <4>3. b \in Completed(p, l, t, n) /\ c + n <= Len(t.blocks) * BlockSize
        BY <4>1, <4>2 DEF Room
      <4>4. Full(b, t.blocks, c + n)
        BY <4>2, <4>3, CompletedFull
      <4>5. Held(p)[At(2, l)] = t.blocks /\ Trust(p)[At(2, l)] = c + n
        BY <1>1, <1>2, <4>1, <4>2, HeldOf
      <4> QED BY <1>1, <4>4, <4>5
    <3> QED BY <3>1, <3>2
  <2>2. \A b \in noted'[p] : \E m \in batch' : Full(b, Held(p)'[At(2, m)], Trust(p)'[At(2, m)])
    <3> TAKE b \in noted'[p]
    <3>1. PICK m \in batch : Full(b, Held(p)[At(2, m)], Trust(p)[At(2, m)])
      BY <2>1
    <3>2. m \in Lanes
      BY <1>1
    <3>3. Full(b, Held(p)'[At(2, m)], Trust(p)'[At(2, m)])
      BY <1>6, <3>1, <3>2
    <3> QED BY <1>1, <3>3
  <2> QED BY <1>1, <2>2 DEF Noted
<1>8. DraftStart'
  BY <1>1 DEF DraftStart
<1>9. rows' = [p \in Pools |-> rows'[p]]
  <2>1. PICK p : p \in Pools
    BY DEF Pools
  <2> QED BY <1>1, <2>1, UnrefQuiet
<1> QED BY <1>5, <1>7, <1>8, <1>9 DEF RowInv

\* A step outside the round changes the canonical state of one lane only.
Outside(l) ==
  /\ l \notin batch
  /\ UNCHANGED <<shadow, drafted, old, kind, pc, todo, batch, draft, page, step, noted>>
  /\ \A p \in Pools, m \in Lanes : m # l => canonical'[p][m] = canonical[p][m]

LEMMA OutsideSame ==
  ASSUME IInv, NEW l \in Lanes, Outside(l), NEW p \in Pools, NEW m \in Lanes, m # l
  PROVE  /\ \A k \in {1, 2, 3, 4} : /\ At(k, m) \in Slots /\ Held(p)'[At(k, m)] = Held(p)[At(k, m)]
                                    /\ Trust(p)'[At(k, m)] = Trust(p)[At(k, m)]
         /\ Base(m)' = Base(m)
<1>1. /\ UNCHANGED <<shadow, drafted, old, kind, pc, todo, batch, draft, page, step>>
      /\ canonical'[p][m] = canonical[p][m] /\ canonical'["target"][m] = canonical["target"][m]
  BY DEF Outside, Pools
<1>2. Base(m)' = Base(m)
  BY <1>1 DEF Base
<1>3. Cloned(m)' = Cloned(m) /\ Gained(p, m)' = Gained(p, m)
  BY <1>1 DEF Cloned, Gained, Verified, Replayed, Fed
<1>4. /\ Trust(p)'[At(1, m)] = Trust(p)[At(1, m)] /\ Trust(p)'[At(2, m)] = Trust(p)[At(2, m)]
      /\ Trust(p)'[At(3, m)] = Trust(p)[At(3, m)] /\ Trust(p)'[At(4, m)] = Trust(p)[At(4, m)]
  BY <1>1, <1>2, <1>3, TrustAt, TrustAtNext
<1>5. /\ Held(p)'[At(1, m)] = Held(p)[At(1, m)] /\ Held(p)'[At(2, m)] = Held(p)[At(2, m)]
      /\ Held(p)'[At(3, m)] = Held(p)[At(3, m)] /\ Held(p)'[At(4, m)] = Held(p)[At(4, m)]
      /\ At(1, m) \in Slots /\ At(2, m) \in Slots /\ At(3, m) \in Slots /\ At(4, m) \in Slots
  BY <1>1, HeldOf
<1>6. \A k \in {1, 2, 3, 4} : /\ At(k, m) \in Slots /\ Held(p)'[At(k, m)] = Held(p)[At(k, m)]
                              /\ Trust(p)'[At(k, m)] = Trust(p)[At(k, m)]
  <2> TAKE k \in {1, 2, 3, 4}
  <2>1. CASE k = 1
    BY <1>4, <1>5, <2>1
  <2>2. CASE k = 2
    BY <1>4, <1>5, <2>2
  <2>3. CASE k = 3
    BY <1>4, <1>5, <2>3
  <2>4. CASE k = 4
    BY <1>4, <1>5, <2>4
  <2> QED BY <2>1, <2>2, <2>3, <2>4
<1> QED BY <1>2, <1>6

\* What such a lane has besides its canonical state: nothing.
LEMMA OutsideEmpty ==
  ASSUME IInv, RefInv, NEW l \in Lanes, Outside(l), NEW p \in Pools
  PROVE  \A k \in {2, 3, 4} : /\ At(k, l) \in Slots /\ Held(p)[At(k, l)] = <<>>
                              /\ Held(p)'[At(k, l)] = <<>>
                              /\ Trust(p)[At(k, l)] = 0 /\ Trust(p)'[At(k, l)] = 0
<1>1. UNCHANGED <<shadow, drafted, old, kind, pc, todo, batch>> /\ l \notin batch
  BY DEF Outside
<1>2. todo \subseteq batch
  BY DEF IInv, Control
<1>3. shadow[p][l] = NoTable /\ old[p][l] = NoTable /\ drafted[l] = NoTable
  BY <1>1, <1>2 DEF RefInv, Clean, Idle, Drafts, Drafting
<1>4. /\ Held(p)[At(2, l)] = <<>> /\ Held(p)'[At(2, l)] = <<>> /\ Held(p)[At(3, l)] = <<>>
      /\ Held(p)'[At(3, l)] = <<>> /\ Held(p)[At(4, l)] = <<>> /\ Held(p)'[At(4, l)] = <<>>
      /\ At(2, l) \in Slots /\ At(3, l) \in Slots /\ At(4, l) \in Slots
  BY <1>1, <1>3, HeldOf, NoTableIs
<1>5. ~ Cloned(l) /\ ~ Cloned(l)'
  BY <1>1 DEF Cloned
<1>6. /\ Trust(p)[At(2, l)] = 0 /\ Trust(p)'[At(2, l)] = 0 /\ Trust(p)[At(3, l)] = 0
      /\ Trust(p)'[At(3, l)] = 0 /\ Trust(p)[At(4, l)] = 0 /\ Trust(p)'[At(4, l)] = 0
  BY <1>5, TrustAt, TrustAtNext
<1> QED BY <1>4, <1>6

LEMMA OutsideNoted ==
  ASSUME IInv, RowInv, NEW l \in Lanes, Outside(l)
  PROVE  DraftStart' /\ \A p \in Pools : Noted(p)'
<1>1. /\ UNCHANGED <<drafted, kind, pc, todo, batch, draft, noted>> /\ l \notin batch
      /\ batch \subseteq Lanes
  BY DEF Outside, IInv, Control, Live
<1>2. ASSUME NEW m \in Lanes, Drafts(m)', pc' \in {"copy", "draft"} PROVE drafted'[m].cursor = Base(m)'
  <2>1. Drafts(m) /\ m \in batch
    BY <1>1, <1>2 DEF Drafts, Drafting
  <2>2. PICK p : p \in Pools
    BY DEF Pools
  <2>3. Base(m)' = Base(m)
    BY <1>1, <2>1, <2>2, OutsideSame
  <2> QED BY <1>1, <1>2, <2>1, <2>3 DEF RowInv, DraftStart
<1>3. ASSUME NEW p \in Pools PROVE Noted(p)'
  <2>1. Noted(p)
    BY DEF RowInv
  <2>2. \A m \in batch : /\ Held(p)'[At(1, m)] = Held(p)[At(1, m)] /\ Held(p)'[At(2, m)] = Held(p)[At(2, m)]
                         /\ Trust(p)'[At(1, m)] = Trust(p)[At(1, m)]
                         /\ Trust(p)'[At(2, m)] = Trust(p)[At(2, m)]
    BY <1>1, OutsideSame
  <2> QED BY <1>1, <2>1, <2>2 DEF Noted
<1> QED BY <1>2, <1>3 DEF DraftStart

LEMMA RowsReturnBlocks ==
  ASSUME Unwindowed, IInv, IInv', RefInv, RefInv', RowInv, NEW l \in Lanes, ReturnBlocks(l)
  PROVE  RowInv'
<1>1. /\ l \notin batch
      /\ UNCHANGED <<shadow, drafted, old, kind, pc, todo, batch, draft, page, step, noted>>
      /\ canonical' = [p \in Pools |-> [canonical[p] EXCEPT ![l] = NoTable]]
      /\ \E blocks : Unref(blocks)
  BY DEF ReturnBlocks, callVars
<1>2. \A p \in Pools, m \in Lanes : canonical'[p][m] = IF m = l THEN NoTable ELSE canonical[p][m]
  BY <1>1 DEF IInv, Typed, Tables
<1>3. Outside(l)
  BY <1>1, <1>2 DEF Outside
<1>4. ASSUME NEW p \in Pools PROVE PoolRows(p)'
  <2>1. StoreQuiet(p) /\ hashed'[p] \subseteq hashed[p]
    BY <1>1, UnrefQuiet
  <2>2. ASSUME NEW m \in Lanes, m # l, NEW k \in {1, 2, 3, 4} PROVE SlotQuiet(p, At(k, m), At(k, m))
    <3>1. /\ At(k, m) \in Slots /\ Held(p)'[At(k, m)] = Held(p)[At(k, m)]
          /\ Trust(p)'[At(k, m)] = Trust(p)[At(k, m)]
      BY <1>3, <2>2, OutsideSame
    <3>2. Trust(p)'[At(k, m)] <= Trust(p)[At(k, m)]
      BY <3>1, TrustNat DEF TrustsNat
    <3> QED BY <3>1, <3>2, SameSlot
  <2>3. At(1, l) \in Slots /\ Held(p)'[At(1, l)] = <<>> /\ Trust(p)'[At(1, l)] = 0
    BY <1>2, HeldOf, TrustAtNext, NoTableIs
  <2>4. \A k \in {1, 2, 3, 4} : At(k, l) \in Slots /\ Held(p)'[At(k, l)] = <<>> /\ Trust(p)'[At(k, l)] = 0
    BY <1>3, <2>3, OutsideEmpty
  <2>5. \A k \in {1, 2, 3, 4} : SlotQuiet(p, At(k, l), At(k, l))
    BY <2>4, EmptySlot
  <2>6. ASSUME NEW s \in Slots PROVE SlotQuiet(p, s, s)
    <3>1. PICK m \in Lanes : s = At(1, m) \/ s = At(2, m) \/ s = At(3, m) \/ s = At(4, m)
      BY SlotIs
    <3>2. PICK k \in {1, 2, 3, 4} : s = At(k, m)
      BY <3>1
    <3> QED BY <2>2, <2>5, <3>2
  <2>7. \A m \in Lanes : canonical'[p][m].cursor = canonical[p][m].cursor
                          \/ \A s \in Slots : s[2] = m => Held(p)'[s] = <<>>
    <3> TAKE m \in Lanes
    <3>1. CASE m = l
      <4>1. ASSUME NEW s \in Slots, s[2] = l PROVE Held(p)'[s] = <<>>
        <5>1. PICK h \in Lanes : s = At(1, h) \/ s = At(2, h) \/ s = At(3, h) \/ s = At(4, h)
          BY SlotIs
        <5>2. h = l
          BY <4>1, <5>1, HeldOf
        <5> QED BY <2>4, <5>1, <5>2
      <4> QED BY <3>1, <4>1
    <3>2. CASE m # l
      BY <1>2, <3>2
    <3> QED BY <3>1, <3>2
  <2> QED BY <2>1, <2>6, <2>7, CalmStep
<1>5. DraftStart' /\ \A p \in Pools : Noted(p)'
  BY <1>3, OutsideNoted
<1>6. rows' = [p \in Pools |-> rows'[p]]
  <2>1. PICK p : p \in Pools
    BY DEF Pools
  <2> QED BY <1>1, <2>1, UnrefQuiet
<1> QED BY <1>4, <1>5, <1>6 DEF RowInv

LEMMA RowsPublish ==
  ASSUME Unwindowed, IInv, IInv', RefInv, RefInv', RowInv, Publish
  PROVE  RowInv'
<1>1. /\ UNCHANGED <<canonical, shadow, old, drafted, free, rows, kind, batch, noted>>
      /\ pc = "publish" /\ pc' = "discard"
      /\ hashed' = [p \in Pools |-> hashed[p] \cup noted[p]]
      /\ batch \subseteq Lanes
  BY DEF Publish, tableVars, callVars, IInv, Control, Live
<1>2. ASSUME NEW p \in Pools, NEW b \in noted[p]
      PROVE  \E m \in batch : \E k \in DOMAIN Held(p)[At(1, m)] :
               Held(p)[At(1, m)][k] = b /\ k * BlockSize <= canonical[p][m].cursor
  <2>1. PICK m \in batch : Full(b, Held(p)[At(1, m)], Trust(p)[At(1, m)])
    BY <1>1 DEF RowInv, Noted
  <2>2. Trust(p)[At(1, m)] = canonical[p][m].cursor
    BY <1>1, TrustAt
  <2> QED BY <2>1, <2>2 DEF Full
<1>3. ASSUME NEW p \in Pools PROVE PoolRows(p)'
  <2>1. StoreQuiet(p)
    <3>1. HeldKept
      BY HeldUsed
    <3>2. ASSUME NEW b \in noted[p] PROVE b \notin free[p]
      <4>1. PICK m \in batch : \E k \in DOMAIN Held(p)[At(1, m)] : Held(p)[At(1, m)][k] = b
        BY <1>2
      <4>2. At(1, m) \in Slots
        BY <1>1, HeldOf
      <4> QED BY <3>1, <4>1, <4>2 DEF HeldKept
    <3>3. hashed[p] \cap free[p] = {}
      BY DEF RowInv, PoolRows, Sealed
    <3> QED BY <1>1, <3>2, <3>3 DEF StoreQuiet
  <2>2. ASSUME NEW m \in Lanes, NEW k \in {1, 2, 3, 4} PROVE SlotQuiet(p, At(k, m), At(k, m))
    <3>1. /\ At(1, m) \in Slots /\ At(2, m) \in Slots /\ At(3, m) \in Slots /\ At(4, m) \in Slots
          /\ Held(p)'[At(1, m)] = Held(p)[At(1, m)] /\ Held(p)'[At(2, m)] = Held(p)[At(2, m)]
          /\ Held(p)'[At(3, m)] = Held(p)[At(3, m)] /\ Held(p)'[At(4, m)] = Held(p)[At(4, m)]
      BY <1>1, HeldOf
    <3>2. ~ Cloned(m)'
      BY <1>1 DEF Cloned
    <3>3. /\ Trust(p)'[At(1, m)] = Trust(p)[At(1, m)] /\ Trust(p)'[At(2, m)] = 0
          /\ Trust(p)'[At(3, m)] = 0 /\ Trust(p)'[At(4, m)] = 0
      BY <1>1, <3>2, TrustAt, TrustAtNext
    <3>4. At(k, m) \in Slots /\ Held(p)'[At(k, m)] = Held(p)[At(k, m)]
          /\ Trust(p)'[At(k, m)] \in {Trust(p)[At(k, m)], 0}
      BY <3>1, <3>3
    <3>5. Trust(p)[At(k, m)] \in Nat
      BY <3>4, TrustNat DEF TrustsNat
    <3>6. Trust(p)'[At(k, m)] <= Trust(p)[At(k, m)]
      BY <3>4, <3>5
    <3> QED BY <3>4, <3>6, SameSlot
  <2>3. \A s \in Slots : \E r : SlotQuiet(p, r, s)
    <3> TAKE s \in Slots
    <3>1. PICK m \in Lanes : s = At(1, m) \/ s = At(2, m) \/ s = At(3, m) \/ s = At(4, m)
      BY SlotIs
    <3>2. PICK k \in {1, 2, 3, 4} : s = At(k, m)
      BY <3>1
    <3> QED BY <2>2, <3>2
  <2>4. ASSUME NEW s \in Slots, Held(p)'[s] # <<>>
        PROVE  canonical[p][s[2]].cursor <= canonical'[p][s[2]].cursor
    <3>1. PICK m \in Lanes : m = s[2]
      BY DEF Slots
    <3>2. canonical[p][m].cursor \in Nat
      BY DEF IInv, Typed, Tables, Table
    <3> QED BY <1>1, <3>1, <3>2
  <2>5. Published(p, Held(p)', noted[p])
    <3> SUFFICES ASSUME NEW b \in noted[p]
                 PROVE  \E s \in Slots : \E k \in DOMAIN Held(p)'[s] :
                          /\ Held(p)'[s][k] = b /\ k * BlockSize <= Trust(p)'[s]
                          /\ k * BlockSize <= canonical'[p][s[2]].cursor
      BY DEF Published
    <3>1. PICK m \in batch : \E k \in DOMAIN Held(p)[At(1, m)] :
               Held(p)[At(1, m)][k] = b /\ k * BlockSize <= canonical[p][m].cursor
      BY <1>2
    <3>2. PICK k \in DOMAIN Held(p)[At(1, m)] :
               Held(p)[At(1, m)][k] = b /\ k * BlockSize <= canonical[p][m].cursor
      BY <3>1
    <3>3. /\ At(1, m) \in Slots /\ At(1, m)[2] = m /\ Held(p)'[At(1, m)] = Held(p)[At(1, m)]
          /\ Trust(p)'[At(1, m)] = canonical'[p][m].cursor /\ canonical'[p][m] = canonical[p][m]
      BY <1>1, HeldOf, TrustAtNext
    <3>4. PICK s \in Slots : s = At(1, m)
      BY <3>3
    <3>5. k \in DOMAIN Held(p)'[s] /\ Held(p)'[s][k] = b /\ k * BlockSize <= Trust(p)'[s]
          /\ k * BlockSize <= canonical'[p][s[2]].cursor
      BY <3>2, <3>3, <3>4
    <3> QED BY <3>5
  <2>6. hashed'[p] \subseteq hashed[p] \cup noted[p]
    BY <1>1
  <2> QED BY <2>1, <2>3, <2>4, <2>5, <2>6, QuietStep
<1>4. \A p \in Pools : Noted(p)'
  BY <1>1 DEF Noted
<1>5. DraftStart'
  BY <1>1 DEF DraftStart
<1>6. rows' = [p \in Pools |-> rows'[p]]
  BY <1>1 DEF RowInv
<1> QED BY <1>3, <1>4, <1>5, <1>6 DEF RowInv

\* At the commit a shadow has the whole page.
LEMMA CommitGains ==
  ASSUME IInv, pc = "commit", NEW p \in Pools, NEW m \in batch
  PROVE  /\ p \in PoolsOf(kind) =>
              /\ Trust(p)[At(2, m)] = Base(m) + page[m]
              /\ shadow[p][m].cursor = Base(m) + page[m] /\ canonical[p][m].cursor = Base(m)
         /\ p \notin PoolsOf(kind) => Trust(p)[At(2, m)] = 0
<1>1. /\ m \in Lanes /\ draft[m] \in Nat /\ page[m] \in Nat /\ page[m] <= draft[m] + 1
      /\ canonical["target"][m].cursor = Base(m)
      /\ kind # "history" => canonical["proposer"][m].cursor = Base(m)
  BY CallIs
<1>2. kind \in {"exact", "history", "parallel"} /\ p \in {"target", "proposer"}
  BY Constants DEF IInv, Typed, Pools
<1>3. Verified(m) /\ Replayed(m) /\ Fed(m) = draft[m] + 1 /\ Cloned(m) /\ Settled(m)
  BY DEF Verified, Replayed, Fed, Cloned, Settled
<1>4. p \in PoolsOf(kind) <=> p = "target" \/ kind # "history"
  BY <1>2 DEF PoolsOf, Pools
<1>5. p \in PoolsOf(kind) => Gained(p, m) = page[m]
  BY <1>1, <1>2, <1>3, <1>4 DEF Gained, Smaller
<1>6. p \in PoolsOf(kind) => shadow[p][m].cursor = Base(m) + page[m]
  <2>1. /\ TargetStage(m) /\ (kind = "exact" => ExactStage(m))
        /\ (kind = "parallel" => ParallelStage(m))
    BY DEF IInv, Stages
  <2>2. shadow["target"][m].cursor = Base(m) + page[m]
    BY <1>3, <2>1 DEF TargetStage
  <2>3. kind = "exact" => shadow["proposer"][m].cursor = Base(m) + page[m]
    BY <1>3, <2>1 DEF ExactStage
  <2>4. kind = "parallel" => shadow["proposer"][m].cursor = Base(m) + page[m]
    BY <2>1 DEF ParallelStage
  <2> QED BY <1>2, <1>4, <2>2, <2>3, <2>4
<1>7. p \in PoolsOf(kind) => canonical[p][m].cursor = Base(m)
  BY <1>1, <1>2, <1>4
<1> QED BY <1>1, <1>3, <1>5, <1>6, <1>7, TrustAt

LEMMA RowsCommit ==
  ASSUME Unwindowed, IInv, IInv', RefInv, RefInv', RowInv, Commit
  PROVE  RowInv'
<1>1. /\ UNCHANGED <<free, rows, drafted, kind, batch, page, noted>>
      /\ pc = "commit" /\ pc' = "drop" /\ batch \subseteq Lanes
      /\ shadow' = NoTables
      /\ hashed' = IF kind # "parallel" THEN hashed ELSE [p \in Pools |-> hashed[p] \cup noted[p]]
  BY DEF Commit, callVars, Taken, IInv, Control, Live
<1>2. \A p \in Pools, m \in Lanes :
        /\ canonical'[p][m] = IF m \in batch /\ p \in PoolsOf(kind) THEN shadow[p][m]
                              ELSE canonical[p][m]
        /\ old'[p][m] = IF m \in batch /\ p \in PoolsOf(kind) THEN canonical[p][m] ELSE NoTable
        /\ shadow'[p][m] = NoTable
  BY DEF Commit, Taken, NoTables
<1>3. ASSUME NEW p \in Pools, NEW m \in Lanes
      PROVE  /\ At(1, m) \in Slots /\ At(2, m) \in Slots /\ At(3, m) \in Slots /\ At(4, m) \in Slots
             /\ At(1, m)[2] = m /\ At(2, m)[2] = m /\ At(3, m)[2] = m /\ At(4, m)[2] = m
             /\ Held(p)'[At(2, m)] = <<>> /\ Trust(p)'[At(2, m)] = 0
             /\ Trust(p)'[At(3, m)] = 0
             /\ Held(p)'[At(4, m)] = Held(p)[At(4, m)] /\ Trust(p)'[At(4, m)] = 0
             /\ Trust(p)[At(1, m)] \in Nat /\ Trust(p)[At(2, m)] \in Nat /\ Trust(p)[At(4, m)] \in Nat
  <2>1. ~ Cloned(m)'
    BY <1>1 DEF Cloned
  <2>2. /\ At(1, m) \in Slots /\ At(2, m) \in Slots /\ At(3, m) \in Slots /\ At(4, m) \in Slots
        /\ At(1, m)[2] = m /\ At(2, m)[2] = m /\ At(3, m)[2] = m /\ At(4, m)[2] = m
        /\ Held(p)'[At(2, m)] = <<>> /\ Held(p)'[At(4, m)] = Held(p)[At(4, m)]
    BY <1>1, <1>2, HeldOf, NoTableIs
  <2>3. Trust(p)'[At(2, m)] = 0 /\ Trust(p)'[At(3, m)] = 0 /\ Trust(p)'[At(4, m)] = 0
    BY <2>1, TrustAtNext
  <2>4. Trust(p)[At(1, m)] \in Nat /\ Trust(p)[At(2, m)] \in Nat /\ Trust(p)[At(4, m)] \in Nat
    BY <2>2, TrustNat DEF TrustsNat
  <2> QED BY <2>2, <2>3, <2>4
<1>4. ASSUME NEW p \in PoolsOf(kind), NEW m \in batch
      PROVE  /\ Held(p)'[At(1, m)] = Held(p)[At(2, m)] /\ Trust(p)'[At(1, m)] = Trust(p)[At(2, m)]
             /\ Held(p)'[At(3, m)] = Held(p)[At(1, m)]
             /\ canonical[p][m].cursor \in Nat /\ canonical'[p][m].cursor \in Nat
             /\ canonical[p][m].cursor <= canonical'[p][m].cursor
             /\ canonical'[p][m].cursor = Trust(p)'[At(1, m)]
  <2>1. p \in Pools /\ m \in Lanes
    BY <1>1 DEF PoolsOf, Pools
  <2>2. canonical'[p][m] = shadow[p][m] /\ old'[p][m] = canonical[p][m]
    BY <1>2, <2>1
  <2>3. Held(p)'[At(1, m)] = Held(p)[At(2, m)] /\ Held(p)'[At(3, m)] = Held(p)[At(1, m)]
    BY <2>1, <2>2, HeldOf
  <2>4. /\ Trust(p)[At(2, m)] = Base(m) + page[m]
        /\ shadow[p][m].cursor = Base(m) + page[m] /\ canonical[p][m].cursor = Base(m)
        /\ Base(m) \in Nat /\ page[m] \in Nat
    BY <1>1, <2>1, CommitGains, CallIs
  <2>5. Trust(p)'[At(1, m)] = canonical'[p][m].cursor
    BY <2>1, TrustAtNext
  <2> QED BY <2>2, <2>3, <2>4, <2>5
<1>5. ASSUME NEW p \in Pools, NEW m \in Lanes, m \notin batch \/ p \notin PoolsOf(kind)
      PROVE  /\ Held(p)'[At(1, m)] = Held(p)[At(1, m)] /\ Trust(p)'[At(1, m)] = Trust(p)[At(1, m)]
             /\ Held(p)'[At(3, m)] = <<>> /\ canonical'[p][m] = canonical[p][m]
  <2>1. canonical'[p][m] = canonical[p][m] /\ old'[p][m] = NoTable
    BY <1>2, <1>5
  <2> QED BY <2>1, HeldOf, TrustAt, TrustAtNext, NoTableIs
<1>6. ASSUME NEW p \in Pools, NEW b \in noted[p]
      PROVE  /\ p \in PoolsOf(kind)
             /\ \E m \in batch : Full(b, Held(p)[At(2, m)], Trust(p)[At(2, m)])
  <2>1. PICK m \in batch : Full(b, Held(p)[At(2, m)], Trust(p)[At(2, m)])
    BY <1>1 DEF RowInv, Noted
  <2>2. p \in PoolsOf(kind)
    <3> SUFFICES ASSUME p \notin PoolsOf(kind) PROVE FALSE
      OBVIOUS
    <3>1. Trust(p)[At(2, m)] = 0
      BY <1>1, CommitGains
    <3>2. PICK k \in DOMAIN Held(p)[At(2, m)] : k * BlockSize <= 0
      BY <2>1, <3>1 DEF Full
    <3>3. Held(p) \in Holdings /\ At(2, m) \in Slots
      BY <1>1, <1>3, HeldTypes
    <3>4. Held(p)[At(2, m)] \in Seq(Blocks)
      BY <3>3 DEF Holdings
    <3>5. PICK j \in Nat \ {0}, d \in Nat \ {0} : j = k /\ d = BlockSize
      BY <3>4, Constants
    <3>6. j * d >= 1
      OBVIOUS
    <3> QED BY <3>2, <3>5, <3>6
  <2> QED BY <2>1, <2>2
<1>7. ASSUME NEW p \in Pools PROVE PoolRows(p)'
  <2>0. PICK N : N = IF kind # "parallel" THEN {} ELSE noted[p]
    OBVIOUS
  <2>1. StoreQuiet(p)
    <3>1. HeldKept
      BY HeldUsed
    <3>2. ASSUME NEW b \in noted[p] PROVE b \notin free[p]
      <4>1. PICK m \in batch : Full(b, Held(p)[At(2, m)], Trust(p)[At(2, m)])
        BY <1>6
      <4>2. At(2, m) \in Slots
        BY <1>1, <1>3
      <4> QED BY <3>1, <4>1, <4>2 DEF HeldKept, Full
    <3>3. hashed[p] \cap free[p] = {}
      BY DEF RowInv, PoolRows, Sealed
    <3> QED BY <1>1, <3>2, <3>3 DEF StoreQuiet
  <2>2. ASSUME NEW m \in Lanes
        PROVE  /\ \E r : SlotQuiet(p, r, At(1, m))
               /\ SlotQuiet(p, At(2, m), At(2, m))
               /\ \E r : SlotQuiet(p, r, At(3, m))
               /\ SlotQuiet(p, At(4, m), At(4, m))
    <3>1. \E r : SlotQuiet(p, r, At(1, m))
      <4>1. CASE m \in batch /\ p \in PoolsOf(kind)
        <5>1. Held(p)'[At(1, m)] = Held(p)[At(2, m)] /\ Trust(p)'[At(1, m)] <= Trust(p)[At(2, m)]
          BY <1>3, <1>4, <4>1
        <5>2. At(1, m) \in Slots /\ At(2, m) \in Slots /\ At(2, m)[2] = At(1, m)[2]
          BY <1>3
        <5> QED BY <5>1, <5>2, SameSlot
      <4>2. CASE ~ (m \in batch /\ p \in PoolsOf(kind))
        <5>1. Held(p)'[At(1, m)] = Held(p)[At(1, m)] /\ Trust(p)'[At(1, m)] <= Trust(p)[At(1, m)]
          BY <1>3, <1>5, <4>2
        <5>2. At(1, m) \in Slots
          BY <1>3
        <5> QED BY <5>1, <5>2, SameSlot
      <4> QED BY <4>1, <4>2
    <3>2. SlotQuiet(p, At(2, m), At(2, m))
      BY <1>3, EmptySlot
    <3>3. \E r : SlotQuiet(p, r, At(3, m))
      <4>1. CASE m \in batch /\ p \in PoolsOf(kind)
        <5>1. Held(p)'[At(3, m)] = Held(p)[At(1, m)] /\ Trust(p)'[At(3, m)] <= Trust(p)[At(1, m)]
          BY <1>3, <1>4, <4>1
        <5>2. At(1, m) \in Slots /\ At(3, m) \in Slots /\ At(1, m)[2] = At(3, m)[2]
          BY <1>3
        <5> QED BY <5>1, <5>2, SameSlot
      <4>2. CASE ~ (m \in batch /\ p \in PoolsOf(kind))
        <5>1. Held(p)'[At(3, m)] = <<>> /\ Trust(p)'[At(3, m)] = 0 /\ At(3, m) \in Slots
          BY <1>3, <1>5, <4>2
        <5> QED BY <5>1, EmptySlot
      <4> QED BY <4>1, <4>2
    <3>4. SlotQuiet(p, At(4, m), At(4, m))
      <4>1. Held(p)'[At(4, m)] = Held(p)[At(4, m)] /\ Trust(p)'[At(4, m)] <= Trust(p)[At(4, m)]
            /\ At(4, m) \in Slots
        BY <1>3
      <4> QED BY <4>1, SameSlot
    <3> QED BY <3>1, <3>2, <3>3, <3>4
  <2>3. \A s \in Slots : \E r : SlotQuiet(p, r, s)
    <3> TAKE s \in Slots
    <3>1. PICK m \in Lanes : s = At(1, m) \/ s = At(2, m) \/ s = At(3, m) \/ s = At(4, m)
      BY SlotIs
    <3> QED BY <2>2, <3>1
  <2>4. ASSUME NEW s \in Slots, Held(p)'[s] # <<>>
        PROVE  canonical[p][s[2]].cursor <= canonical'[p][s[2]].cursor
    <3>1. PICK m \in Lanes : m = s[2]
      BY DEF Slots
    <3>2. canonical[p][m].cursor \in Nat
      BY DEF IInv, Typed, Tables, Table
    <3>3. CASE m \in batch /\ p \in PoolsOf(kind)
      BY <1>4, <3>1, <3>3
    <3>4. CASE ~ (m \in batch /\ p \in PoolsOf(kind))
      <4>1. canonical'[p][m] = canonical[p][m]
        BY <1>5, <3>4
      <4> QED BY <3>1, <3>2, <4>1
    <3> QED BY <3>3, <3>4
  <2>5. Published(p, Held(p)', N)
    <3> SUFFICES ASSUME NEW b \in N
                 PROVE  \E s \in Slots : \E k \in DOMAIN Held(p)'[s] :
                          /\ Held(p)'[s][k] = b /\ k * BlockSize <= Trust(p)'[s]
                          /\ k * BlockSize <= canonical'[p][s[2]].cursor
      BY DEF Published
    <3>1. b \in noted[p]
      BY <2>0
    <3>2. PICK m \in batch : Full(b, Held(p)[At(2, m)], Trust(p)[At(2, m)])
      BY <1>6, <3>1
    <3>3. PICK k \in DOMAIN Held(p)[At(2, m)] :
               Held(p)[At(2, m)][k] = b /\ k * BlockSize <= Trust(p)[At(2, m)]
      BY <3>2 DEF Full
    <3>4. /\ At(1, m) \in Slots /\ At(1, m)[2] = m /\ Held(p)'[At(1, m)] = Held(p)[At(2, m)]
          /\ Trust(p)'[At(1, m)] = canonical'[p][m].cursor
          /\ Trust(p)'[At(1, m)] = Trust(p)[At(2, m)]
      BY <1>1, <1>3, <1>4, <1>6, <3>1
    <3>5. PICK s \in Slots : s = At(1, m)
      BY <3>4
    <3>6. k \in DOMAIN Held(p)'[s] /\ Held(p)'[s][k] = b /\ k * BlockSize <= Trust(p)'[s]
          /\ k * BlockSize <= canonical'[p][s[2]].cursor
      BY <3>3, <3>4, <3>5
    <3> QED BY <3>6
  <2>6. hashed'[p] \subseteq hashed[p] \cup N
    BY <1>1, <2>0
  <2> QED BY <2>1, <2>3, <2>4, <2>5, <2>6, QuietStep
<1>8. ASSUME NEW p \in Pools PROVE Noted(p)'
  <2>1. \A b \in noted'[p] : \E m \in batch' : Full(b, Held(p)'[At(1, m)], Trust(p)'[At(1, m)])
    <3> TAKE b \in noted'[p]
    <3>1. p \in PoolsOf(kind) /\ b \in noted[p]
      BY <1>1, <1>6
    <3>2. PICK m \in batch : Full(b, Held(p)[At(2, m)], Trust(p)[At(2, m)])
      BY <1>6, <3>1
    <3>3. Full(b, Held(p)'[At(1, m)], Trust(p)'[At(1, m)])
      BY <1>4, <3>1, <3>2
    <3> QED BY <1>1, <3>3
  <2> QED BY <1>1, <2>1 DEF Noted
<1>9. DraftStart'
  BY <1>1 DEF DraftStart
<1>10. rows' = [p \in Pools |-> rows'[p]]
  BY <1>1 DEF RowInv
<1> QED BY <1>7, <1>8, <1>9, <1>10 DEF RowInv

-----------------------------------------------------------------------------
(* Executions write the rows behind a cursor.                              *)

\* Row x of these blocks is in block b at offset o.
Hits(blocks, x, b, o) == blocks[x \div BlockSize + 1] = b /\ x % BlockSize = o

\* The n rows from c on are the lane's, the first g of them emitted, and no other row changes.
RowsWritten(before, content, l, blocks, c, n, g, kept) ==
  /\ \A x \in c .. c + n - 1 :
       blocks[x \div BlockSize + 1] \in kept =>
         content[blocks[x \div BlockSize + 1]][x % BlockSize] = Row(l, x, x - c < g)
  /\ \A b \in kept, o \in 0 .. BlockSize - 1 :
       (\A x \in c .. c + n - 1 : ~ Hits(blocks, x, b, o)) => content[b][o] = before[b][o]

LEMMA WrittenIs ==
  ASSUME NEW q \in Pools, NEW blocks \in Seq(Blocks), NEW t, t.blocks = blocks,
         NEW c \in Nat, t.cursor = c, NEW n \in Nat, c + n <= Len(blocks) * BlockSize,
         \A i, j \in DOMAIN blocks : blocks[i] = blocks[j] => i = j, NEW l, NEW g
  PROVE  RowsWritten(rows[q], Written(q, t, l, n, g), l, blocks, c, n, g, Blocks)
<1> DEFINE W == Written(q, t, l, n, g)
           hit(b, o) == {i \in 0 .. n - 1 : (c + i) % BlockSize = o
                                            /\ blocks[(c + i) \div BlockSize + 1] = b}
           pick(b, o) == CHOOSE i \in hit(b, o) : TRUE
<1>1. \A b \in Blocks, o \in 0 .. BlockSize - 1 :
        W[b][o] = IF hit(b, o) = {} THEN rows[q][b][o]
                  ELSE Row(l, c + pick(b, o), pick(b, o) < g)
  BY DEF Written
<1> HIDE DEF W
<1>2. ASSUME NEW b \in Blocks, NEW o \in 0 .. BlockSize - 1,
             \A x \in c .. c + n - 1 : ~ Hits(blocks, x, b, o)
      PROVE  W[b][o] = rows[q][b][o]
  <2>1. ASSUME NEW i \in hit(b, o) PROVE FALSE
    <3>1. c + i \in c .. c + n - 1
      OBVIOUS
    <3>2. Hits(blocks, c + i, b, o)
      BY DEF Hits
    <3> QED BY <1>2, <3>1, <3>2
  <2>2. hit(b, o) = {}
    BY <2>1
  <2> QED BY <1>1, <2>2
<1>3. ASSUME NEW x \in c .. c + n - 1,
             blocks[x \div BlockSize + 1] \in Blocks
      PROVE  W[blocks[x \div BlockSize + 1]][x % BlockSize] = Row(l, x, x - c < g)
  <2>1. PICK k \in Nat : k = Len(blocks)
    OBVIOUS
  <2>2. k * BlockSize \in Nat
    BY Constants
  <2>3. ASSUME NEW y \in c .. c + n - 1
        PROVE  /\ y \in Nat /\ y \div BlockSize + 1 \in 1 .. k
               /\ y \div BlockSize \in Nat /\ y % BlockSize \in 0 .. BlockSize - 1
    <3>1. y \in Nat /\ y < k * BlockSize
      BY <2>1, <2>2
    <3> QED BY <3>1, PlaceOf
  <2>4. PICK b \in Blocks, o \in 0 .. BlockSize - 1 : b = blocks[x \div BlockSize + 1] /\ o = x % BlockSize
    BY <1>3, <2>3
  <2>5. PICK j \in 0 .. n - 1 : j = x - c /\ c + j = x
    OBVIOUS
  <2>6. j \in hit(b, o)
    BY <2>4, <2>5
  <2>7. PICK i : i = pick(b, o)
    OBVIOUS
  <2>8. i \in hit(b, o)
    BY <2>6, <2>7
  <2>9. PICK y \in c .. c + n - 1 : y = c + i /\ i \in 0 .. n - 1
    BY <2>8
  <2>10. y % BlockSize = x % BlockSize /\ blocks[y \div BlockSize + 1] = blocks[x \div BlockSize + 1]
    BY <2>4, <2>8, <2>9
  <2>11. y \div BlockSize + 1 = x \div BlockSize + 1
    <3>1. y \div BlockSize + 1 \in DOMAIN blocks /\ x \div BlockSize + 1 \in DOMAIN blocks
      BY <2>1, <2>3
    <3> QED BY <2>10, <3>1
  <2>12. y \div BlockSize = x \div BlockSize
    <3>1. \A a, d \in Nat : a + 1 = d + 1 => a = d
      OBVIOUS
    <3> QED BY <2>3, <2>11, <3>1
  <2>13. y = x
    BY <2>3, <2>10, <2>12, SamePlace
  <2>14. i = j
    BY <2>5, <2>9, <2>13
  <2>15. W[b][o] = Row(l, c + i, i < g)
    BY <1>1, <2>6, <2>7
  <2> QED BY <2>4, <2>5, <2>14, <2>15
<1> HIDE DEF hit, pick
<1> QED BY <1>2, <1>3 DEF RowsWritten, W

\* A table of blocks s has become a, with blocks of F behind.
Extends(s, a, F) ==
  /\ a \in Seq(Blocks) /\ F \in SUBSET Blocks
  /\ \A i \in DOMAIN a : IF i \in DOMAIN s THEN a[i] = s[i] ELSE a[i] \in F
  /\ \A i, j \in DOMAIN a : i \notin DOMAIN s /\ j \notin DOMAIN s /\ a[i] = a[j] => i = j

\* kv_prepare appends blocks that no table holds.
LEMMA GrowthExtends ==
  ASSUME Typed, NEW p \in Pools, NEW t \in Table, NEW n \in Nat, Fits(p, t, n),
         NEW a, a = Grown(p, t, n).blocks, NEW F,
         F = ToSet(SubSeq(a, Len(t.blocks) + 1, Len(a)))
  PROVE  /\ Extends(t.blocks, a, F) /\ t.cursor + n <= Len(a) * BlockSize
         /\ \A b \in F : b \in free[p] \cup Cached(p)
<1>1. PICK g : g = Grown(p, t, n)
  OBVIOUS
<1>2. Prepared(p, t, n, g)
  BY <1>1, GrownIs
<1>3. PICK s \in Seq(Blocks), len \in Nat, k \in Nat :
        s = t.blocks /\ len = Len(s) /\ k = Missing(t, n)
  BY <1>2 DEF Prepared, Table
<1>0. t.cursor + n <= Len(a) * BlockSize
  BY <1>1, <1>2 DEF Prepared
<1>4. /\ a \in Seq(Blocks) /\ Len(a) = len + k
      /\ (\A i \in 1 .. len : a[i] = s[i])
      /\ \A i \in 1 .. k : a[len + i] = Allocatable(p)[i] /\ i \in DOMAIN Allocatable(p)
  BY <1>1, <1>2, <1>3 DEF Prepared, Table
<1>5. PICK x : x = SubSeq(a, len + 1, Len(a))
  OBVIOUS
<1>6. x \in Seq(Blocks) /\ Len(x) = k /\ \A i \in 1 .. k : x[i] = a[len + i]
  <2>1. a \in Seq(Blocks) /\ Len(a) = len + k
    BY <1>4
  <2> QED BY <1>5, <2>1, RestIs
<1>7. F = ToSet(x)
  BY <1>3, <1>5
<1>8. F \in SUBSET Blocks /\ \A b : b \in F <=> \E i \in DOMAIN x : x[i] = b
  BY <1>6, <1>7, ToSetIs
<1>9. /\ \A i \in DOMAIN Allocatable(p) : Allocatable(p)[i] \in free[p] \cup Cached(p)
      /\ \A i, j \in DOMAIN Allocatable(p) : Allocatable(p)[i] = Allocatable(p)[j] => i = j
  BY AllocatableIs
<1>10. ASSUME NEW i \in DOMAIN a, i \notin DOMAIN s
       PROVE  \E j \in 1 .. k : i = len + j /\ j = i - len
  <2>1. i \in 1 .. len + k /\ ~ (i \in 1 .. len)
    BY <1>3, <1>4, <1>10
  <2>2. i - len \in 1 .. k /\ i = len + (i - len)
    BY <2>1
  <2> QED BY <2>2
<1>11. ASSUME NEW i \in DOMAIN a PROVE IF i \in DOMAIN s THEN a[i] = s[i] ELSE a[i] \in F
  <2>1. CASE i \in DOMAIN s
    <3>1. i \in 1 .. len
      BY <1>3, <2>1
    <3> QED BY <1>4, <2>1, <3>1
  <2>2. CASE i \notin DOMAIN s
    <3>1. PICK j \in 1 .. k : i = len + j
      BY <1>10, <2>2
    <3>2. j \in DOMAIN x /\ x[j] = a[i]
      BY <1>6, <3>1
    <3> QED BY <1>8, <2>2, <3>2
  <2> QED BY <2>1, <2>2
<1>12. ASSUME NEW i \in DOMAIN a, NEW j \in DOMAIN a, i \notin DOMAIN s, j \notin DOMAIN s, a[i] = a[j]
       PROVE  i = j
  <2>1. PICK d \in 1 .. k : i = len + d
    BY <1>10, <1>12
  <2>2. PICK e \in 1 .. k : j = len + e
    BY <1>10, <1>12
  <2>3. Allocatable(p)[d] = Allocatable(p)[e] /\ d \in DOMAIN Allocatable(p) /\ e \in DOMAIN Allocatable(p)
    BY <1>4, <1>12, <2>1, <2>2
  <2>4. d = e
    BY <1>9, <2>3
  <2> QED BY <2>1, <2>2, <2>4
<1>13. \A b \in F : b \in free[p] \cup Cached(p)
  <2> TAKE b \in F
  <2>1. PICK i \in 1 .. k : x[i] = b
    BY <1>6, <1>8
  <2>2. b = Allocatable(p)[i] /\ i \in DOMAIN Allocatable(p)
    BY <1>4, <1>6, <2>1
  <2> QED BY <1>9, <2>2
<1> QED BY <1>0, <1>3, <1>4, <1>8, <1>11, <1>12, <1>13 DEF Extends

\* What no table of the pool holds.
Untouched(p, F) == \A s \in Slots : \A i \in DOMAIN Held(p)[s] : Held(p)[s][i] \notin F

LEMMA SpareUntouched ==
  ASSUME IInv, RefInv, NEW p \in Pools, NEW F, \A b \in F : b \in free[p] \cup Cached(p)
  PROVE  Untouched(p, F)
<1> SUFFICES ASSUME NEW s \in Slots, NEW i \in DOMAIN Held(p)[s], Held(p)[s][i] \in F PROVE FALSE
  BY DEF Untouched
<1>1. PICK b : b = Held(p)[s][i]
  OBVIOUS
<1>2. b \notin free[p] /\ refcounts[p][b] # 0
  BY <1>1, HeldUsed DEF HeldKept
<1> QED BY <1>1, <1>2 DEF Cached

\* Lane l of an execution of pool q on the table of blocks s, from cursor c on.
Ran(q, l, c, n, g, s, a, F) ==
  /\ Extends(s, a, F) /\ c + n <= Len(a) * BlockSize /\ Untouched(q, F)
  /\ hashed'[q] = hashed[q] \ F /\ hashed'[q] \cap free'[q] = {}
  /\ \E t : /\ t.blocks = a /\ t.cursor = c
            /\ \A b \in Blocks : b \notin free'[q] => rows'[q][b] = Written(q, t, l, n, g)[b]
  /\ \A p \in Pools : p # q => StoreQuiet(p) /\ hashed'[p] \subseteq hashed[p]
  /\ rows' = [p \in Pools |-> rows'[p]]

LEMMA ExecutionRan ==
  ASSUME Unwindowed, IInv, RefInv, RowInv, NEW q \in Pools, NEW tables \in [Lanes -> Table],
         NEW l \in Lanes, NEW lanes, NEW advance \in [Lanes -> Nat], NEW moves \in [Lanes -> Nat],
         NEW good, NEW after, after = Executed(q, tables, l, lanes, advance, moves),
         Execution(q, tables, after, l, advance, good)
  PROVE  \E F : Ran(q, l, tables[l].cursor, advance[l], good[l], tables[l].blocks, after[l].blocks, F)
<1> DEFINE t == [after[l] EXCEPT !.cursor = tables[l].cursor]
           fresh == ToSet(SubSeq(t.blocks, Len(tables[l].blocks) + 1, Len(t.blocks)))
           left == UNION {{m} \X (tables[m].head + 1 .. after[m].head) : m \in Lanes}
           gone == [c \in Blocks |-> Cardinality({e \in left : after[e[1]].blocks[e[2]] = c})]
           contents == [rows EXCEPT ![q] = Written(q, t, l, advance[l], good[l])]
<1>1. /\ Fits(q, tables[l], advance[l])
      /\ Store([None EXCEPT ![q] = fresh], [Nothing EXCEPT ![q] = gone], contents)
  BY DEF Execution
<1>2. Advanced(q, tables, after, l, lanes, advance, moves)
  BY <1>1, ExecutedIs DEF IInv
<1>3. after \in [Lanes -> Table] /\ after[l].blocks = Grown(q, tables[l], advance[l]).blocks
  BY <1>2 DEF Advanced
<1>4. t.blocks = after[l].blocks /\ t.cursor = tables[l].cursor
  BY <1>3 DEF Table
<1>5. PICK a, u : a = after[l].blocks /\ u = t
  OBVIOUS
<1>6. fresh = ToSet(SubSeq(a, Len(tables[l].blocks) + 1, Len(a)))
  BY <1>4, <1>5
<1>7. contents = [rows EXCEPT ![q] = Written(q, u, l, advance[l], good[l])]
  BY <1>5
<1>8. u.blocks = a /\ u.cursor = tables[l].cursor
  BY <1>4, <1>5
<1> HIDE DEF t, fresh, left, gone, contents
<1>9. /\ Extends(tables[l].blocks, a, fresh)
      /\ tables[l].cursor + advance[l] <= Len(a) * BlockSize
      /\ \A b \in fresh : b \in free[q] \cup Cached(q)
  <2>1. PICK t0 \in Table, n \in Nat : t0 = tables[l] /\ n = advance[l]
    OBVIOUS
  <2>2. Fits(q, t0, n) /\ a = Grown(q, t0, n).blocks /\ Typed
        /\ fresh = ToSet(SubSeq(a, Len(t0.blocks) + 1, Len(a)))
    BY <1>1, <1>3, <1>5, <1>6, <2>1 DEF IInv
  <2>3. /\ Extends(t0.blocks, a, fresh) /\ t0.cursor + n <= Len(a) * BlockSize
        /\ \A b \in fresh : b \in free[q] \cup Cached(q)
    BY <2>2, GrowthExtends
  <2> QED BY <2>1, <2>3
<1>10. Untouched(q, fresh)
  BY <1>9, SpareUntouched
<1>11. PICK F, G : F = [None EXCEPT ![q] = fresh] /\ G = [Nothing EXCEPT ![q] = gone]
  OBVIOUS
<1>12. F \in [Pools -> SUBSET Blocks] /\ F[q] = fresh /\ (\A p \in Pools : p # q => F[p] = {})
       /\ Store(F, G, contents)
  BY <1>1, <1>9, <1>11 DEF None, Extends
<1>13. /\ contents[q] = Written(q, u, l, advance[l], good[l])
       /\ \A p \in Pools : p # q => contents[p] = rows[p]
  <2>1. rows = [p \in Pools |-> rows[p]]
    BY DEF RowInv
  <2> QED BY <1>7, <2>1
<1>14. ASSUME NEW p \in Pools
       PROVE  /\ rows' = [r \in Pools |-> rows'[r]]
              /\ \A b \in Blocks : b \notin free'[p] => rows'[p][b] = contents[p][b]
              /\ hashed'[p] = hashed[p] \ F[p]
              /\ hashed'[p] \cap free'[p] = {}
  <2>1. Typed /\ Sealed(p)
    BY DEF IInv, RowInv, PoolRows
  <2> QED BY <1>12, <2>1, StoreRows
<1>15. \A b \in Blocks : b \notin free'[q] =>
         rows'[q][b] = Written(q, u, l, advance[l], good[l])[b]
  BY <1>13, <1>14
<1>16. \A p \in Pools : p # q => StoreQuiet(p) /\ hashed'[p] \subseteq hashed[p]
  BY <1>12, <1>13, <1>14 DEF StoreQuiet
<1>17. hashed'[q] = hashed[q] \ fresh /\ hashed'[q] \cap free'[q] = {}
       /\ rows' = [p \in Pools |-> rows'[p]]
  BY <1>12, <1>14
<1>18. Ran(q, l, tables[l].cursor, advance[l], good[l], tables[l].blocks, a, fresh)
  BY <1>8, <1>9, <1>10, <1>15, <1>16, <1>17 DEF Ran
<1> QED BY <1>5, <1>18

\* How far the slots are trusted when slot s gets rows from c on, g of them right.
Within(p, s, c, g) ==
  /\ \A r \in Slots : r # s => /\ Trust(p)'[r] <= Trust(p)[r]
                               /\ r[2] = s[2] => Trust(p)'[r] <= c
  /\ Trust(p)'[s] <= c + g
  /\ Trust(p)'[s] <= Trust(p)[s] \/ c <= Trust(p)[s]

\* Only slot s of a pool changes.
OnlySlot(p, s) == \A r \in Slots : r # s => Held(p)'[r] = Held(p)[r]

LEMMA CursorNat ==
  ASSUME IInv, NEW p \in Pools, NEW l \in Lanes
  PROVE  canonical[p][l].cursor \in Nat
BY DEF IInv, Typed, Tables, Table

LEMMA ExecutionPool ==
  ASSUME Unwindowed, IInv, IInv', RefInv', RowInv, canonical' = canonical,
         NEW q \in Pools, NEW l \in Lanes, NEW s \in Slots, s[2] = l,
         NEW c \in Nat, NEW n \in Nat, NEW g \in Nat, g <= n, NEW a, NEW F,
         Ran(q, l, c, n, g, Held(q)[s], a, F), Held(q)'[s] = a, OnlySlot(q, s), Within(q, s, c, g),
         canonical[q][l].cursor <= c
  PROVE  PoolRows(q)'
<1>1. PICK T, U : T = Held(q) /\ U = Held(q)'
  OBVIOUS
<1>2. T \in Holdings /\ U \in Holdings /\ HeldKept' /\ TrustsNat /\ TrustsNat'
  BY <1>1, HeldTypes, HeldTypesNext, HeldUsedNext, TrustNat, TrustNatNext
<1>3. Placed(T) /\ Sound(q) /\ Frozen(q) /\ Sealed(q)
  BY <1>1 DEF RowInv, PoolRows
<1>4. /\ Extends(T[s], a, F) /\ c + n <= Len(a) * BlockSize /\ Untouched(q, F) /\ U[s] = a
      /\ \A r \in Slots : r # s => U[r] = T[r]
  BY <1>1 DEF Ran, OnlySlot
<1>5. \A r \in Slots : \A i \in DOMAIN T[r] : T[r][i] \notin F
  BY <1>1, <1>4 DEF Untouched
<1>6. PICK f : f = [r \in Slots |-> r]
  OBVIOUS
<1>7. Derives(T, U, f, F)
  <2> SUFFICES ASSUME NEW r \in Slots, NEW i \in DOMAIN U[r]
               PROVE  IF i \in DOMAIN T[r] THEN U[r][i] = T[r][i] ELSE U[r][i] \in F
    BY <1>6 DEF Derives
  <2>1. CASE r = s
    BY <1>4, <2>1 DEF Extends
  <2>2. CASE r # s
    BY <1>4, <2>2
  <2> QED BY <2>1, <2>2
<1>8. Unheld(T, U, F)
  <2> SUFFICES ASSUME NEW r \in Slots, NEW v \in Slots, NEW i \in DOMAIN U[r], NEW j \in DOMAIN U[v],
                      U[r][i] \in F, U[r][i] = U[v][j]
               PROVE  r[2] = v[2] /\ i = j
    BY <1>5 DEF Unheld
  <2>1. r = s /\ v = s
    BY <1>4, <1>5
  <2>2. i \notin DOMAIN T[s] /\ j \notin DOMAIN T[s]
    BY <1>4, <1>5, <2>1 DEF Extends
  <2>3. i = j
    BY <1>4, <2>1, <2>2 DEF Extends
  <2> QED BY <2>1, <2>3
<1>9. Placed(U)
  BY <1>3, <1>7, <1>8, PlacedNext
<1>10. a \in Seq(Blocks) /\ \A i, j \in DOMAIN a : a[i] = a[j] => i = j
  <2>1. a \in Seq(Blocks)
    BY <1>4 DEF Extends
  <2>2. \A i, j \in DOMAIN U[s] : U[s][i] = U[s][j] => i = j
    BY <1>9 DEF Placed
  <2> QED BY <1>4, <2>1, <2>2
<1>11. PICK t : /\ t.blocks = a /\ t.cursor = c
                /\ \A b \in Blocks : b \notin free'[q] => rows'[q][b] = Written(q, t, l, n, g)[b]
  BY DEF Ran
<1>12. PICK k \in Nat : k = Len(a) /\ c + n <= k * BlockSize /\ k * BlockSize \in Nat
  BY <1>4, <1>10, Constants
<1>13. RowsWritten(rows[q], Written(q, t, l, n, g), l, a, c, n, g, Blocks)
  BY <1>4, <1>10, <1>11, WrittenIs
<1>14. PICK kept : kept = Blocks \ free'[q]
  OBVIOUS
<1>15. RowsWritten(rows[q], rows'[q], l, a, c, n, g, kept)
  BY <1>11, <1>13, <1>14 DEF RowsWritten
<1>16. \A r \in Slots : \A i \in DOMAIN U[r] : U[r][i] \in kept
  BY <1>1, <1>2, <1>14 DEF HeldKept
<1>17. ASSUME NEW y \in c .. c + n - 1
       PROVE  /\ y \in Nat /\ c <= y /\ y \div BlockSize + 1 \in DOMAIN a /\ y \div BlockSize \in Nat
              /\ y % BlockSize \in 0 .. BlockSize - 1
              /\ y = (y \div BlockSize) * BlockSize + (y % BlockSize)
  <2>1. y \in Nat /\ c <= y /\ y < k * BlockSize
    BY <1>12
  <2>2. DOMAIN a = 1 .. k
    BY <1>10, <1>12
  <2> QED BY <2>1, <2>2, PlaceOf
\* A row of a table of the lane before c, or of another lane, is not written.
<1>18. ASSUME NEW r \in Slots, NEW x \in Nat, x \div BlockSize + 1 \in DOMAIN U[r],
              x \div BlockSize \in Nat, x % BlockSize \in 0 .. BlockSize - 1, r[2] = l => x < c
       PROVE  rows'[q][U[r][x \div BlockSize + 1]][x % BlockSize] =
                rows[q][U[r][x \div BlockSize + 1]][x % BlockSize]
  <2>1. PICK b \in kept, o \in 0 .. BlockSize - 1 :
          b = U[r][x \div BlockSize + 1] /\ o = x % BlockSize
    BY <1>16, <1>18
  <2>2. ASSUME NEW y \in c .. c + n - 1, Hits(a, y, b, o) PROVE FALSE
    <3>1. y \div BlockSize + 1 \in DOMAIN U[s] /\ U[s][y \div BlockSize + 1] = U[r][x \div BlockSize + 1]
          /\ y % BlockSize = x % BlockSize
      BY <1>4, <1>17, <2>1, <2>2 DEF Hits
    <3>2. r[2] = s[2] /\ y \div BlockSize + 1 = x \div BlockSize + 1
      BY <1>9, <1>18, <3>1 DEF Placed
    <3>3. y \div BlockSize = x \div BlockSize
      <4>1. \A d, e \in Nat : d + 1 = e + 1 => d = e
        OBVIOUS
      <4> QED BY <1>17, <1>18, <3>2, <4>1
    <3>4. y = x
      BY <1>17, <3>1, <3>3, SamePlace
    <3>5. x < c /\ c <= y
      BY <1>17, <1>18, <3>2
    <3> QED BY <3>4, <3>5
  <2>3. rows'[q][b][o] = rows[q][b][o]
    BY <1>15, <2>2 DEF RowsWritten
  <2> QED BY <2>1, <2>3
<1>19. ASSUME NEW r \in Slots, r # s PROVE Right(rows'[q], r[2], U[r], Trust(q)'[r])
  <2>1. PICK d \in Seq(Blocks), m \in Nat, v \in Nat :
          d = U[r] /\ d = T[r] /\ m = Trust(q)'[r] /\ v = Trust(q)[r]
    BY <1>2, <1>4, <1>19 DEF TrustsNat, Holdings
  <2>2. m <= v /\ (r[2] = l => m <= c)
    BY <1>19, <2>1 DEF Within
  <2>3. Right(rows[q], r[2], d, v)
    BY <1>1, <1>3, <2>1 DEF Sound
  <2>4. PICK h \in Nat : h = Len(d) /\ v <= h * BlockSize /\ h * BlockSize \in Nat
    BY <2>3, Constants DEF Right
  <2>5. m <= h * BlockSize
    BY <2>2, <2>4
  <2>6. ASSUME NEW x \in 0 .. m - 1
        PROVE  rows'[q][d[x \div BlockSize + 1]][x % BlockSize] =
                 rows[q][d[x \div BlockSize + 1]][x % BlockSize]
    <3>1. x \in Nat /\ x < h * BlockSize
      <4>1. PICK z \in Nat : z = h * BlockSize
        BY <2>4
      <4>2. x \in Nat /\ x < z
        BY <2>5, <4>1
      <4> QED BY <4>1, <4>2
    <3>2. x \div BlockSize + 1 \in DOMAIN d /\ x \div BlockSize \in Nat
          /\ x % BlockSize \in 0 .. BlockSize - 1
      BY <2>4, <3>1, PlaceOf
    <3>3. r[2] = l => x < c
      <4>1. m <= c => x < c
        OBVIOUS
      <4> QED BY <2>2, <4>1
    <3>4. x \div BlockSize + 1 \in DOMAIN U[r] /\ x \in Nat
      BY <2>1, <3>1, <3>2
    <3>5. rows'[q][U[r][x \div BlockSize + 1]][x % BlockSize] =
            rows[q][U[r][x \div BlockSize + 1]][x % BlockSize]
      BY <1>18, <3>2, <3>3, <3>4
    <3> QED BY <2>1, <3>5
  <2>7. Right(rows'[q], r[2], d, m)
    BY <2>2, <2>3, <2>4, <2>5, <2>6, RightKept
  <2> QED BY <2>1, <2>7
<1>20. Right(rows'[q], s[2], U[s], Trust(q)'[s])
  <2>1. PICK m \in Nat, v \in Nat, d \in Seq(Blocks) :
          m = Trust(q)'[s] /\ v = Trust(q)[s] /\ d = T[s]
    BY <1>2 DEF TrustsNat, Holdings
  <2>2. m <= c + g /\ (m <= v \/ c <= v)
    BY <2>1 DEF Within
  <2>3. m <= k * BlockSize
    BY <1>12, <2>2
  <2>4. Right(rows[q], l, d, v)
    BY <1>1, <1>3, <2>1 DEF Sound
  <2>5. ASSUME NEW x \in 0 .. m - 1
        PROVE  rows'[q][a[x \div BlockSize + 1]][x % BlockSize] = Row(l, x, TRUE)
    <3>1. x \in Nat /\ x < k * BlockSize
      BY <1>12, <2>3
    <3>2. x \div BlockSize + 1 \in DOMAIN a /\ x \div BlockSize \in Nat
          /\ x % BlockSize \in 0 .. BlockSize - 1
      BY <1>10, <1>12, <3>1, PlaceOf
    <3>3. CASE c <= x
      <4>1. x \in c .. c + n - 1 /\ x - c < g
        BY <2>2, <3>1, <3>3
      <4>2. a[x \div BlockSize + 1] \in kept
        BY <1>4, <1>16, <3>2
      <4>3. rows'[q][a[x \div BlockSize + 1]][x % BlockSize] = Row(l, x, x - c < g)
        BY <1>15, <4>1, <4>2 DEF RowsWritten
      <4> QED BY <4>1, <4>3
    <3>4. CASE x < c
      <4>1. x \in 0 .. v - 1
        BY <2>2, <3>1, <3>4
      <4>2. rows[q][d[x \div BlockSize + 1]][x % BlockSize] = Row(l, x, TRUE)
        BY <2>4, <4>1 DEF Right
      <4>3. x \div BlockSize + 1 \in DOMAIN d
        <5>1. PICK h \in Nat : h = Len(d) /\ v <= h * BlockSize /\ h * BlockSize \in Nat
          BY <2>4, Constants DEF Right
        <5>2. x < h * BlockSize
          BY <4>1, <5>1
        <5> QED BY <3>1, <5>1, <5>2, PlaceOf
      <4>4. a[x \div BlockSize + 1] = d[x \div BlockSize + 1]
        BY <1>4, <2>1, <3>2, <4>3 DEF Extends
      <4>5. rows'[q][a[x \div BlockSize + 1]][x % BlockSize] =
              rows[q][a[x \div BlockSize + 1]][x % BlockSize]
        BY <1>4, <1>18, <3>1, <3>2, <3>4
      <4> QED BY <4>2, <4>4, <4>5
    <3>5. c <= x \/ x < c
      BY <3>1
    <3> QED BY <3>3, <3>4, <3>5
  <2>6. Right(rows'[q], l, a, m)
    BY <1>12, <2>3, <2>5 DEF Right
  <2> QED BY <1>4, <2>1, <2>6
<1>21. Sound(q)'
  BY <1>1, <1>19, <1>20 DEF Sound
<1>22. Frozen(q)'
  <2>1. \A r \in Slots : DOMAIN U[r] \subseteq Nat
    BY <1>2 DEF Holdings
  <2>2. Onward(q, U)
    <3> SUFFICES ASSUME NEW r \in Slots
                 PROVE  /\ canonical[q][r[2]].cursor \in Nat /\ canonical'[q][r[2]].cursor \in Nat
                        /\ canonical[q][r[2]].cursor <= canonical'[q][r[2]].cursor
      BY DEF Onward
    <3>1. r[2] \in Lanes
      BY DEF Slots
    <3>2. PICK m \in Lanes : m = r[2]
      BY <3>1
    <3>3. PICK z \in Nat : z = canonical[q][m].cursor
      BY CursorNat
    <3>4. z <= z
      OBVIOUS
    <3> QED BY <3>2, <3>3, <3>4
  <2>3. PICK N : N = {}
    OBVIOUS
  <2>4. Published(q, U, N) /\ hashed'[q] \subseteq (hashed[q] \ F) \cup N
    BY <2>3 DEF Published, Ran
  <2> QED BY <1>1, <1>3, <1>7, <1>9, <2>1, <2>2, <2>4, FrozenNext
<1>23. ASSUME NEW b \in hashed'[q]
       PROVE  /\ b \notin free'[q]
              /\ \E m \in Lanes, e \in 0 .. Cardinality(Blocks) - 1 : RowsOf(rows'[q][b], m, e)
  <2>1. b \in hashed[q] /\ b \notin F /\ b \notin free'[q] /\ b \in kept
    <3>1. b \in hashed[q] /\ b \notin F /\ b \notin free'[q]
      BY DEF Ran
    <3>2. b \in Blocks
      BY <3>1 DEF IInv, Typed, Stores
    <3> QED BY <1>14, <3>1, <3>2
  <2>2. ASSUME NEW y \in c .. c + n - 1, a[y \div BlockSize + 1] = b PROVE FALSE
    <3>1. PICK w \in Nat : w = y \div BlockSize /\ w + 1 \in DOMAIN a
      BY <1>17
    <3>2. w + 1 \in DOMAIN T[s] /\ T[s][w + 1] = b
      BY <1>4, <2>1, <2>2, <3>1 DEF Extends
    <3>3. (w + 1) * BlockSize <= canonical[q][l].cursor
      BY <1>1, <1>3, <2>1, <3>2 DEF Frozen
    <3>4. PICK d \in Nat \ {0}, o \in Nat : d = BlockSize /\ o < d /\ y = w * d + o
      <4>1. y \in Nat /\ w = y \div BlockSize
        BY <1>17, <3>1
      <4> QED BY <4>1, RowSplits
    <3>5. PICK z \in Nat : z = canonical[q][l].cursor
      BY CursorNat
    <3>6. PICK e \in Nat : e = w * d /\ (w + 1) * d = e + d
      OBVIOUS
    <3>7. c <= y /\ z <= c /\ e + d <= z /\ y = e + o
      BY <1>17, <3>3, <3>4, <3>5, <3>6
    <3>8. y \in Nat
      BY <1>17
    <3> QED BY <3>4, <3>7, <3>8
  <2>3. \A o \in 0 .. BlockSize - 1 : rows'[q][b][o] = rows[q][b][o]
    BY <1>15, <2>1, <2>2 DEF RowsWritten, Hits
  <2>4. PICK m \in Lanes, e \in 0 .. Cardinality(Blocks) - 1 : RowsOf(rows[q][b], m, e)
    BY <1>3, <2>1 DEF Sealed
  <2>5. RowsOf(rows'[q][b], m, e)
    BY <2>3, <2>4 DEF RowsOf
  <2> QED BY <2>1, <2>5
<1>24. Sealed(q)'
  BY <1>23 DEF Sealed, RowsOf
<1> QED BY <1>1, <1>9, <1>21, <1>22, <1>24 DEF PoolRows

\* The other pool, whose tables and contents stay.
LEMMA OtherPool ==
  ASSUME Unwindowed, IInv, IInv', RefInv', RowInv, canonical' = canonical,
         NEW p \in Pools, \A r \in Slots : Held(p)'[r] = Held(p)[r],
         \A r \in Slots : Trust(p)'[r] <= Trust(p)[r],
         StoreQuiet(p), hashed'[p] \subseteq hashed[p]
  PROVE  PoolRows(p)'
<1>1. \A s \in Slots : SlotQuiet(p, s, s)
  BY SameSlot
<1> QED BY <1>1, CalmStep

\* Nothing happens in the tables of the other pools.
OtherPools(q) ==
  \A p \in Pools : p # q =>
    \A r \in Slots : Held(p)'[r] = Held(p)[r] /\ Trust(p)'[r] <= Trust(p)[r]

\* One lane of an execution on the table of slot s.
LEMMA ExecutionRows ==
  ASSUME Unwindowed, IInv, IInv', RefInv, RefInv', RowInv, canonical' = canonical,
         NEW q \in Pools, NEW l \in Lanes, NEW s \in Slots, s[2] = l,
         NEW tables \in [Lanes -> Table], NEW lanes, NEW advance \in [Lanes -> Nat],
         NEW moves \in [Lanes -> Nat], NEW good,
         NEW after, after = Executed(q, tables, l, lanes, advance, moves),
         Execution(q, tables, after, l, advance, good),
         good[l] \in Nat, good[l] <= advance[l],
         Held(q)[s] = tables[l].blocks, Held(q)'[s] = after[l].blocks, OnlySlot(q, s),
         Within(q, s, tables[l].cursor, good[l]), canonical[q][l].cursor <= tables[l].cursor,
         OtherPools(q)
  PROVE  /\ \A p \in Pools : PoolRows(p)'
         /\ rows' = [p \in Pools |-> rows'[p]]
         /\ \E F : Extends(tables[l].blocks, after[l].blocks, F)
<1>1. PICK F : Ran(q, l, tables[l].cursor, advance[l], good[l], tables[l].blocks, after[l].blocks, F)
  BY ExecutionRan
<1>2. PICK c \in Nat, n \in Nat, g \in Nat :
        c = tables[l].cursor /\ n = advance[l] /\ g = good[l]
  BY DEF Table
<1>0. PICK a : a = after[l].blocks
  OBVIOUS
<1>3. Ran(q, l, c, n, g, Held(q)[s], a, F)
  BY <1>0, <1>1, <1>2
<1>4. g <= n /\ Held(q)'[s] = a /\ Within(q, s, c, g) /\ canonical[q][l].cursor <= c
  BY <1>0, <1>2
<1>5. PoolRows(q)'
  BY <1>3, <1>4, ExecutionPool
<1>6. ASSUME NEW p \in Pools, p # q PROVE PoolRows(p)'
  <2>1. StoreQuiet(p) /\ hashed'[p] \subseteq hashed[p]
    BY <1>3, <1>6 DEF Ran
  <2>2. /\ \A r \in Slots : Held(p)'[r] = Held(p)[r]
        /\ \A r \in Slots : Trust(p)'[r] <= Trust(p)[r]
    BY <1>6 DEF OtherPools
  <2> QED BY <2>1, <2>2, OtherPool
<1>7. rows' = [p \in Pools |-> rows'[p]] /\ Extends(tables[l].blocks, after[l].blocks, F)
  BY <1>1 DEF Ran
<1>8. \A p \in Pools : PoolRows(p)'
  BY <1>5, <1>6
<1> QED BY <1>7, <1>8

\* The trust in the shadows, when lane l of pool q gets g emitted rows from c on.
Writing(q, l, c, g) ==
  /\ \A p \in Pools, m \in Lanes : p # q \/ m # l => Trust(p)'[At(2, m)] <= Trust(p)[At(2, m)]
  /\ Trust(q)'[At(2, l)] <= c + g
  /\ Trust(q)'[At(2, l)] <= Trust(q)[At(2, l)] \/ c <= Trust(q)[At(2, l)]

LEMMA ShadowRows ==
  ASSUME Unwindowed, IInv, IInv', RefInv, RefInv', RowInv,
         UNCHANGED <<canonical, drafted, old>>,
         NEW q \in Pools, NEW l \in Lanes,
         NEW tables, tables = shadow[q], NEW lanes, NEW advance \in [Lanes -> Nat],
         NEW moves \in [Lanes -> Nat], NEW good,
         NEW after, after = Executed(q, tables, l, lanes, advance, moves),
         Execution(q, tables, after, l, advance, good),
         shadow' = [shadow EXCEPT ![q] = after],
         good[l] \in Nat, good[l] <= advance[l],
         Writing(q, l, tables[l].cursor, good[l]), canonical[q][l].cursor <= tables[l].cursor
  PROVE  /\ \A p \in Pools : PoolRows(p)'
         /\ rows' = [p \in Pools |-> rows'[p]]
         /\ \E F : Extends(tables[l].blocks, after[l].blocks, F)
         /\ Len(tables[l].blocks) <= Len(after[l].blocks)
         /\ \A p \in Pools, m \in Lanes : p # q \/ m # l => Held(p)'[At(2, m)] = Held(p)[At(2, m)]
<1>1. shadow \in Tables /\ tables \in [Lanes -> Table]
  BY DEF IInv, Typed, Tables
<1>2. Advanced(q, tables, after, l, lanes, advance, moves)
  <2>1. Fits(q, tables[l], advance[l]) /\ Typed
    BY DEF Execution, IInv
  <2> QED BY <1>1, <2>1, ExecutedIs
<1>3. PICK s \in Slots : s = At(2, l) /\ s[2] = l
  BY HeldOf
<1>4. shadow'[q] = after /\ \A p \in Pools : p # q => shadow'[p] = shadow[p]
  BY <1>1 DEF Tables
<1>5. Held(q)[s] = tables[l].blocks /\ Held(q)'[s] = after[l].blocks
  BY <1>3, <1>4, HeldOf
<1>6. ASSUME NEW p \in Pools, NEW m \in Lanes, p # q \/ m # l
      PROVE  Held(p)'[At(2, m)] = Held(p)[At(2, m)]
  <2>1. shadow'[p][m].blocks = shadow[p][m].blocks
    BY <1>2, <1>4, <1>6 DEF Advanced
  <2> QED BY <2>1, HeldOf
<1>7. ASSUME NEW p \in Pools, NEW m \in Lanes
      PROVE  /\ Held(p)'[At(1, m)] = Held(p)[At(1, m)] /\ Held(p)'[At(3, m)] = Held(p)[At(3, m)]
             /\ Held(p)'[At(4, m)] = Held(p)[At(4, m)]
             /\ Trust(p)'[At(1, m)] = Trust(p)[At(1, m)] /\ Trust(p)[At(1, m)] \in Nat
             /\ Trust(p)'[At(3, m)] = 0 /\ Trust(p)[At(3, m)] = 0
             /\ Trust(p)'[At(4, m)] = 0 /\ Trust(p)[At(4, m)] = 0
             /\ Trust(p)[At(1, m)] = canonical[p][m].cursor
  <2>1. Trust(p)[At(1, m)] \in Nat
    BY HeldOf, TrustNat DEF TrustsNat
  <2> QED BY <2>1, HeldOf, TrustAt, TrustAtNext
<1>8. ASSUME NEW r \in Slots, NEW p \in Pools, r # s \/ p # q
      PROVE  /\ Held(p)'[r] = Held(p)[r] /\ Trust(p)'[r] <= Trust(p)[r]
             /\ r[2] = l /\ p = q => Trust(p)'[r] <= tables[l].cursor
  <2>1. PICK m \in Lanes : r = At(1, m) \/ r = At(2, m) \/ r = At(3, m) \/ r = At(4, m)
    BY SlotIs
  <2>2. r[2] = m /\ tables[l].cursor \in Nat
    BY <1>1, <2>1, HeldOf DEF Table
  <2>3. CASE r = At(1, m)
    BY <1>7, <2>2, <2>3
  <2>4. CASE r = At(2, m)
    <3>1. p # q \/ m # l
      BY <1>3, <1>8, <2>4
    <3> QED BY <1>6, <2>2, <2>4, <3>1 DEF Writing
  <2>5. CASE r = At(3, m)
    BY <1>7, <2>2, <2>5
  <2>6. CASE r = At(4, m)
    BY <1>7, <2>2, <2>6
  <2> QED BY <2>1, <2>3, <2>4, <2>5, <2>6
<1>9. OnlySlot(q, s)
  BY <1>8 DEF OnlySlot
<1>10. OtherPools(q)
  BY <1>8 DEF OtherPools
<1>11. Within(q, s, tables[l].cursor, good[l])
  <2>1. \A r \in Slots : r # s => /\ Trust(q)'[r] <= Trust(q)[r]
                                  /\ r[2] = s[2] => Trust(q)'[r] <= tables[l].cursor
    BY <1>3, <1>8
  <2>2. /\ Trust(q)'[s] <= tables[l].cursor + good[l]
        /\ Trust(q)'[s] <= Trust(q)[s] \/ tables[l].cursor <= Trust(q)[s]
    BY <1>3 DEF Writing
  <2> QED BY <2>1, <2>2 DEF Within
<1>12. /\ \A p \in Pools : PoolRows(p)'
       /\ rows' = [p \in Pools |-> rows'[p]]
       /\ \E F : Extends(tables[l].blocks, after[l].blocks, F)
  BY <1>1, <1>3, <1>5, <1>9, <1>10, <1>11, ExecutionRows
<1>13. Len(tables[l].blocks) <= Len(after[l].blocks)
  BY <1>2 DEF Advanced
<1> QED BY <1>6, <1>12, <1>13

\* No other shadow gains or loses rows.
GainsKept(q, l) ==
  \A p \in Pools, m \in Lanes : p # q \/ m # l =>
    (Cloned(m)' /\ p \in PoolsOf(kind) => Cloned(m) /\ Gained(p, m)' = Gained(p, m))

LEMMA GainsWriting ==
  ASSUME IInv, UNCHANGED <<canonical, kind>>, NEW q \in Pools, NEW l \in Lanes, GainsKept(q, l),
         q \in PoolsOf(kind), Cloned(l), Cloned(l)', NEW d \in Nat, NEW g \in Nat,
         NEW v \in Nat, v = Gained(q, l), NEW w \in Nat, w = Gained(q, l)',
         w <= d + g, w <= v \/ d <= v, NEW c, c = Base(l) + d
  PROVE  Writing(q, l, c, g)
<1>1. ASSUME NEW p \in Pools, NEW m \in Lanes, p # q \/ m # l
      PROVE  Trust(p)'[At(2, m)] <= Trust(p)[At(2, m)]
  <2>1. Cloned(m)' /\ p \in PoolsOf(kind) => Cloned(m) /\ Gained(p, m)' = Gained(p, m)
    BY <1>1 DEF GainsKept
  <2>2. Trust(p)'[At(2, m)] \in {0, Trust(p)[At(2, m)]}
    BY <2>1, ShadowTrust
  <2>3. Trust(p)[At(2, m)] \in Nat
    BY HeldOf, TrustNat DEF TrustsNat
  <2> QED BY <2>2, <2>3
<1>2. PICK e \in Nat : e = Base(l) /\ Base(l)' = e
  <2>1. l \in batch
    BY DEF Cloned
  <2> QED BY <2>1, CallIs DEF Base
<1>3. Trust(q)[At(2, l)] = e + v /\ Trust(q)'[At(2, l)] = e + w
  BY <1>2, TrustAt, TrustAtNext
<1>4. c = e + d /\ e + w <= c + g /\ (e + w <= e + v \/ c <= e + v)
  BY <1>2
<1>5. /\ Trust(q)'[At(2, l)] <= c + g
      /\ Trust(q)'[At(2, l)] <= Trust(q)[At(2, l)] \/ c <= Trust(q)[At(2, l)]
  BY <1>3, <1>4
<1> QED BY <1>1, <1>5 DEF Writing

\* A step of the draft loop feeds its lane one token more.
LEMMA DraftGains ==
  ASSUME IInv, NEW l \in Lanes, DraftStep(l), NEW m \in batch
  PROVE  /\ Cloned(m) /\ Cloned(m)' /\ Gained("target", m) = 0 /\ Gained("target", m)' = 0
         /\ m # l => Gained("proposer", m)' = Gained("proposer", m)
         /\ Gained("proposer", l) = Smaller(page[l], step)
         /\ Gained("proposer", l)' = Smaller(page[l], step + 1)
<1>1. /\ UNCHANGED <<kind, batch, draft, page>> /\ pc = "draft" /\ kind = "exact"
      /\ l \in todo /\ l \in Drafting(step) /\ todo \subseteq Drafting(step)
      /\ \/ pc' = "draft" /\ todo' = todo \ {l} /\ step' = step /\ todo # {l}
         \/ pc' = "verify" /\ todo' = batch /\ step' = step + 1 /\ todo = {l}
            /\ Drafting(step + 1) = {}
         \/ pc' = "draft" /\ todo' = Drafting(step + 1) /\ step' = step + 1 /\ todo = {l}
  BY DEF DraftStep, Done, Turn, IInv, Control
<1>2. /\ draft[m] \in Nat /\ page[m] \in Nat /\ draft[l] \in Nat /\ page[l] \in Nat
      /\ step \in Nat /\ step < draft[l] /\ l \in batch
  BY <1>1, CallIs DEF Drafting
<1>3. ~ Verified(m) /\ ~ Verified(m)'
  BY <1>1 DEF Verified
<1>4. Fed(l) = step
  BY <1>1 DEF Fed
<1>5. Fed(l)' = step + 1
  <2>1. CASE pc' = "draft" /\ todo' = todo \ {l} /\ step' = step
    BY <1>1, <1>2, <2>1 DEF Fed, Smaller
  <2>2. CASE pc' = "verify" /\ Drafting(step + 1) = {}
    <3>1. draft[l] <= step + 1
      BY <1>2, <2>2 DEF Drafting
    <3>2. Fed(l)' = draft[l]
      BY <1>1, <2>2 DEF Fed
    <3> QED BY <1>2, <3>1, <3>2
  <2>3. CASE pc' = "draft" /\ todo' = Drafting(step + 1) /\ step' = step + 1
    <3>1. CASE l \in todo'
      BY <2>3, <3>1 DEF Fed
    <3>2. CASE l \notin todo'
      <4>1. draft[l] <= step + 1
        BY <1>2, <2>3, <3>2 DEF Drafting
      <4>2. Fed(l)' = Smaller(draft[l], step + 1 + 1)
        BY <1>1, <2>3, <3>2 DEF Fed
      <4> QED BY <1>2, <4>1, <4>2 DEF Smaller
    <3> QED BY <3>1, <3>2
  <2> QED BY <1>1, <2>1, <2>2, <2>3
<1>6. m # l => Fed(m)' = Fed(m)
  <2> SUFFICES ASSUME m # l PROVE Fed(m)' = Fed(m)
    OBVIOUS
  <2>1. CASE pc' = "draft" /\ todo' = todo \ {l} /\ step' = step
    BY <1>1, <2>1 DEF Fed
  <2>2. CASE todo = {l}
    <3>1. Fed(m) = Smaller(draft[m], step + 1)
      BY <1>1, <2>2 DEF Fed
    <3>2. CASE pc' = "verify" /\ Drafting(step + 1) = {}
      <4>1. draft[m] <= step + 1
        BY <1>2, <3>2 DEF Drafting
      <4>2. Fed(m)' = draft[m]
        BY <1>1, <3>2 DEF Fed
      <4> QED BY <1>2, <3>1, <4>1, <4>2 DEF Smaller
    <3>3. CASE pc' = "draft" /\ todo' = Drafting(step + 1) /\ step' = step + 1
      <4>1. CASE m \in todo'
        <5>1. step + 1 < draft[m]
          BY <3>3, <4>1 DEF Drafting
        <5>2. Fed(m)' = step + 1
          BY <3>3, <4>1 DEF Fed
        <5> QED BY <1>2, <3>1, <5>1, <5>2 DEF Smaller
      <4>2. CASE m \notin todo'
        <5>1. draft[m] <= step + 1
          BY <1>2, <3>3, <4>2 DEF Drafting
        <5>2. Fed(m)' = Smaller(draft[m], step + 1 + 1)
          BY <1>1, <3>3, <4>2 DEF Fed
        <5> QED BY <1>2, <3>1, <5>1, <5>2 DEF Smaller
      <4> QED BY <4>1, <4>2
    <3> QED BY <1>1, <2>2, <3>2, <3>3
  <2> QED BY <1>1, <2>1, <2>2
<1>7. Cloned(m) /\ Cloned(m)'
  BY <1>1 DEF Cloned
<1>8. Gained("target", m) = 0 /\ Gained("target", m)' = 0
  BY <1>3 DEF Gained
<1>9. ASSUME NEW k \in Lanes
      PROVE  /\ Gained("proposer", k) = Smaller(page[k], Fed(k))
             /\ Gained("proposer", k)' = Smaller(page[k], Fed(k)')
  BY <1>1 DEF Gained, Smaller
<1>10. m \in Lanes
  BY CallIs
<1> QED BY <1>4, <1>5, <1>6, <1>7, <1>8, <1>9, <1>10

LEMMA RowsDraftStep ==
  ASSUME Unwindowed, IInv, IInv', RefInv, RefInv', RowInv, NEW l \in Lanes, DraftStep(l)
  PROVE  RowInv'
<1>1. /\ UNCHANGED <<canonical, drafted, old, kind, batch, draft, page, noted>>
      /\ pc = "draft" /\ kind = "exact" /\ l \in batch /\ pc' \in {"draft", "verify"}
      /\ l \in Drafting(step)
  BY DEF DraftStep, Done, Turn, IInv, Control
<1>2. PICK q, tables, after, lanes, good :
        /\ q = "proposer" /\ tables = shadow[q] /\ after = Executed(q, tables, l, lanes, One, One)
        /\ good = [m \in Lanes |-> IF step < page[m] THEN 1 ELSE 0]
        /\ Execution(q, tables, after, l, One, good)
        /\ shadow' = [shadow EXCEPT ![q] = after]
  BY DEF DraftStep
<1>3. q \in Pools /\ q \in PoolsOf(kind) /\ One \in [Lanes -> Nat] /\ One[l] = 1
  BY <1>1, <1>2 DEF Pools, PoolsOf, One
<1>4. good[l] = (IF step < page[l] THEN 1 ELSE 0) /\ good[l] \in Nat /\ good[l] <= One[l]
  BY <1>2, <1>3
<1>5. /\ step \in Nat /\ page[l] \in Nat /\ draft[l] \in Nat /\ step < draft[l] /\ Base(l) \in Nat
      /\ canonical[q][l].cursor = Base(l)
  BY <1>1, <1>2, CallIs DEF Drafting
<1>6. tables[l].cursor = Base(l) + step
  <2>1. ExactStage(l)
    BY <1>1 DEF IInv, Stages
  <2>2. shadow["proposer"][l].cursor = Base(l) + Smaller(step, draft[l])
    BY <1>1, <2>1 DEF ExactStage
  <2> QED BY <1>2, <1>5, <2>2 DEF Smaller
<1>7. GainsKept(q, l)
  <2> SUFFICES ASSUME NEW p \in Pools, NEW m \in Lanes, p # q \/ m # l, Cloned(m)'
               PROVE  Cloned(m) /\ Gained(p, m)' = Gained(p, m)
    BY DEF GainsKept
  <2>1. m \in batch
    BY <1>1 DEF Cloned
  <2> QED BY <1>2, <2>1, DraftGains DEF Pools
<1>8. Writing(q, l, tables[l].cursor, good[l])
  <2>1. Gained(q, l) = Smaller(page[l], step) /\ Gained(q, l)' = Smaller(page[l], step + 1)
        /\ Cloned(l) /\ Cloned(l)'
    BY <1>1, <1>2, DraftGains
  <2>2. PICK g \in Nat, v \in Nat, w \in Nat :
          /\ g = good[l] /\ v = Gained(q, l) /\ w = Gained(q, l)'
          /\ w <= step + g /\ (w <= v \/ step <= v)
    BY <1>4, <1>5, <2>1 DEF Smaller
  <2> QED BY <1>1, <1>3, <1>5, <1>6, <1>7, <2>1, <2>2, GainsWriting
<1>9. canonical[q][l].cursor <= tables[l].cursor
  BY <1>5, <1>6
<1>10. (\A p \in Pools : PoolRows(p)') /\ rows' = [p \in Pools |-> rows'[p]]
  BY <1>1, <1>2, <1>3, <1>4, <1>8, <1>9, ShadowRows
<1>11. \A p \in Pools : Noted(p)'
  BY <1>1 DEF Noted, RowInv
<1>12. DraftStart'
  BY <1>1 DEF DraftStart, Drafts
<1> QED BY <1>10, <1>11, <1>12 DEF RowInv

\* The verification gains its lane the page's tokens.
LEMMA VerifyGains ==
  ASSUME IInv, NEW l \in Lanes, Verify(l), NEW m \in batch
  PROVE  /\ Cloned(m) /\ Cloned(m)'
         /\ \A p \in PoolsOf(kind) : p # "target" \/ m # l => Gained(p, m)' = Gained(p, m)
         /\ Gained("target", l) = 0 /\ Gained("target", l)' = page[l]
<1>1. /\ UNCHANGED <<kind, batch, draft, page>> /\ pc = "verify" /\ l \in todo
      /\ \/ pc' = "verify" /\ todo' = todo \ {l} /\ todo # {l}
         \/ pc' = "catchup" /\ todo' = Behind /\ kind = "exact" /\ todo = {l}
         \/ pc' = "truncate" /\ (kind # "exact" \/ Behind = {}) /\ todo = {l}
  BY DEF Verify, Done, Turn, AfterVerify, callVars
<1>2. draft[m] \in Nat /\ page[m] \in Nat /\ page[m] <= draft[m] + 1
  BY CallIs
<1>3. Cloned(m) /\ Cloned(m)'
  BY <1>1 DEF Cloned
<1>4. Gained("target", l) = 0 /\ Gained("target", l)' = page[l]
  <2>1. ~ Verified(l) /\ Verified(l)'
    BY <1>1 DEF Verified
  <2> QED BY <1>1, <2>1 DEF Gained
<1>5. m # l => Gained("target", m)' = Gained("target", m)
  <2> SUFFICES ASSUME m # l PROVE Gained("target", m)' = Gained("target", m)
    OBVIOUS
  <2>1. Verified(m)' <=> Verified(m)
    BY <1>1 DEF Verified
  <2> QED BY <1>1, <2>1 DEF Gained
<1>6. kind = "exact" => Gained("proposer", m)' = Gained("proposer", m)
  <2> SUFFICES ASSUME kind = "exact" PROVE Gained("proposer", m)' = Gained("proposer", m)
    OBVIOUS
  <2>1. /\ Gained("proposer", m) = Smaller(page[m], Fed(m))
        /\ Gained("proposer", m)' = Smaller(page[m], Fed(m)')
    BY <1>1 DEF Gained, Smaller
  <2>2. Fed(m) = draft[m]
    BY <1>1 DEF Fed
  <2>3. \/ Fed(m)' = draft[m]
        \/ Fed(m)' = draft[m] + 1 /\ m \notin Behind
    BY <1>1 DEF Fed
  <2>4. m \notin Behind => page[m] <= draft[m]
    BY <1>2 DEF Behind
  <2> QED BY <1>2, <2>1, <2>2, <2>3, <2>4 DEF Smaller
<1>7. kind # "exact" => Gained("proposer", m)' = Gained("proposer", m)
  <2> SUFFICES ASSUME kind # "exact" PROVE Gained("proposer", m)' = Gained("proposer", m)
    OBVIOUS
  <2>1. ~ Replayed(m) /\ ~ Replayed(m)'
    BY <1>1 DEF Replayed
  <2> QED BY <1>1, <2>1 DEF Gained
<1>8. PoolsOf(kind) \subseteq {"target", "proposer"}
  BY DEF PoolsOf, Pools
<1>9. \A p \in PoolsOf(kind) : p # "target" \/ m # l => Gained(p, m)' = Gained(p, m)
  <2> TAKE p \in PoolsOf(kind)
  <2>1. CASE p = "target"
    BY <1>5, <2>1
  <2>2. CASE p = "proposer"
    BY <1>6, <1>7, <2>2
  <2> QED BY <1>8, <2>1, <2>2
<1> QED BY <1>3, <1>4, <1>9

LEMMA RowsVerify ==
  ASSUME Unwindowed, IInv, IInv', RefInv, RefInv', RowInv, NEW l \in Lanes, Verify(l)
  PROVE  RowInv'
<1>1. /\ UNCHANGED <<canonical, drafted, old, kind, batch, draft, page, noted>>
      /\ pc = "verify" /\ l \in batch
      /\ \/ pc' \in {"verify", "catchup"}
         \/ pc' = "truncate"
  BY DEF Verify, Done, Turn, AfterVerify, IInv, Control, callVars
<1>2. PICK q, tables, after, advance, moves :
        /\ q = "target" /\ tables = shadow[q] /\ after = Executed(q, tables, l, batch, advance, moves)
        /\ advance = [m \in Lanes |-> draft[m] + 1]
        /\ moves = (IF kind = "parallel" THEN advance ELSE Still)
        /\ Execution(q, tables, after, l, advance, page)
        /\ shadow' = [shadow EXCEPT ![q] = after]
  BY DEF Verify
<1>3. q \in Pools /\ q \in PoolsOf(kind)
  BY <1>2 DEF Pools, PoolsOf
<1>4. /\ advance \in [Lanes -> Nat] /\ moves \in [Lanes -> Nat] /\ advance[l] = draft[l] + 1
      /\ page[l] \in Nat /\ page[l] <= draft[l] + 1
  <2>1. draft \in [Lanes -> 0 .. MaxDraft]
    BY DEF IInv, Typed
  <2>2. \A m \in Lanes : draft[m] + 1 \in Nat
    BY <2>1, Constants
  <2>3. advance \in [Lanes -> Nat] /\ advance[l] = draft[l] + 1 /\ Still \in [Lanes -> Nat]
    BY <1>2, <2>2 DEF Still
  <2>4. page[l] \in Nat /\ page[l] <= draft[l] + 1
    BY <1>1, CallIs
  <2> QED BY <1>2, <2>3, <2>4
<1>5. Base(l) \in Nat /\ canonical[q][l].cursor = Base(l) /\ tables[l].cursor = Base(l)
  <2>1. TargetStage(l)
    BY <1>1 DEF IInv, Stages
  <2>2. shadow["target"][l].cursor = Base(l)
    BY <1>1, <2>1 DEF TargetStage
  <2> QED BY <1>1, <1>2, <2>2, CallIs
<1>6. GainsKept(q, l)
  <2> SUFFICES ASSUME NEW p \in Pools, NEW m \in Lanes, p # q \/ m # l, Cloned(m)', p \in PoolsOf(kind)
               PROVE  Cloned(m) /\ Gained(p, m)' = Gained(p, m)
    BY DEF GainsKept
  <2>1. m \in batch
    BY <1>1 DEF Cloned
  <2> QED BY <1>2, <2>1, VerifyGains
<1>7. Writing(q, l, tables[l].cursor, page[l])
  <2>1. Gained(q, l) = 0 /\ Gained(q, l)' = page[l] /\ Cloned(l) /\ Cloned(l)'
    BY <1>1, <1>2, VerifyGains
  <2>2. PICK g \in Nat, v \in Nat, w \in Nat, d \in Nat :
          /\ g = page[l] /\ v = Gained(q, l) /\ w = Gained(q, l)' /\ d = 0
          /\ w <= d + g /\ d <= v
    BY <1>4, <2>1
  <2>3. tables[l].cursor = Base(l) + d
    BY <1>5, <2>2
  <2> QED BY <1>1, <1>3, <1>6, <2>1, <2>2, <2>3, GainsWriting
<1>8. canonical[q][l].cursor <= tables[l].cursor /\ page[l] <= advance[l]
  BY <1>4, <1>5
<1>9. (\A p \in Pools : PoolRows(p)') /\ rows' = [p \in Pools |-> rows'[p]]
  BY <1>1, <1>2, <1>3, <1>4, <1>7, <1>8, ShadowRows
<1>10. \A p \in Pools : Noted(p)'
  BY <1>1 DEF Noted, RowInv
<1>11. DraftStart'
  BY <1>1 DEF DraftStart
<1> QED BY <1>9, <1>10, <1>11 DEF RowInv

\* The catch-up feeds its lane the last candidate.
LEMMA CatchupGains ==
  ASSUME IInv, NEW l \in Lanes, Catchup(l), NEW m \in batch
  PROVE  /\ Cloned(m) /\ Cloned(m)'
         /\ \A p \in Pools : p # "proposer" \/ m # l => Gained(p, m)' = Gained(p, m)
         /\ Gained("proposer", l) = draft[l] /\ Gained("proposer", l)' = draft[l] + 1
<1>1. /\ UNCHANGED <<kind, batch, draft, page>> /\ pc = "catchup" /\ l \in todo /\ l \in Behind
      /\ kind = "exact"
      /\ \/ pc' = "catchup" /\ todo' = todo \ {l} /\ todo # {l}
         \/ pc' = "truncate" /\ todo = {l}
  BY DEF Catchup, Done, Turn, IInv, Control, callVars
<1>2. draft[l] \in Nat /\ page[l] = draft[l] + 1
  BY <1>1, CallIs DEF Behind
<1>3. Cloned(m) /\ Cloned(m)'
  BY <1>1 DEF Cloned
<1>4. Gained("target", m)' = Gained("target", m)
  <2>1. Verified(m) /\ Verified(m)'
    BY <1>1 DEF Verified
  <2> QED BY <1>1, <2>1 DEF Gained
<1>5. ASSUME NEW k \in Lanes
      PROVE  /\ Gained("proposer", k) = Smaller(page[k], Fed(k))
             /\ Gained("proposer", k)' = Smaller(page[k], Fed(k)')
  BY <1>1 DEF Gained, Smaller
<1>6. Fed(l) = draft[l] /\ Fed(l)' = draft[l] + 1 /\ (m # l => Fed(m)' = Fed(m))
  BY <1>1 DEF Fed
<1>7. Gained("proposer", l) = draft[l] /\ Gained("proposer", l)' = draft[l] + 1
  BY <1>2, <1>5, <1>6 DEF Smaller
<1>8. m # l => Gained("proposer", m)' = Gained("proposer", m)
  BY <1>5, <1>6, CallIs
<1> QED BY <1>3, <1>4, <1>7, <1>8 DEF Pools

LEMMA RowsCatchup ==
  ASSUME Unwindowed, IInv, IInv', RefInv, RefInv', RowInv, NEW l \in Lanes, Catchup(l)
  PROVE  RowInv'
<1>1. /\ UNCHANGED <<canonical, drafted, old, kind, batch, draft, page, noted>>
      /\ pc = "catchup" /\ kind = "exact" /\ l \in batch /\ pc' \in {"catchup", "truncate"}
  BY DEF Catchup, Done, Turn, IInv, Control, callVars
<1>2. PICK q, tables, after, lanes :
        /\ q = "proposer" /\ tables = shadow[q] /\ after = Executed(q, tables, l, lanes, One, Still)
        /\ Execution(q, tables, after, l, One, One)
        /\ shadow' = [shadow EXCEPT ![q] = after]
  BY DEF Catchup
<1>3. /\ q \in Pools /\ q \in PoolsOf(kind) /\ One \in [Lanes -> Nat] /\ One[l] = 1
      /\ Still \in [Lanes -> Nat] /\ One[l] \in Nat /\ One[l] <= One[l]
  BY <1>1, <1>2 DEF Pools, PoolsOf, One, Still
<1>4. /\ draft[l] \in Nat /\ Base(l) \in Nat /\ canonical[q][l].cursor = Base(l)
      /\ tables[l].cursor = Base(l) + draft[l]
  <2>1. ExactStage(l)
    BY <1>1 DEF IInv, Stages
  <2>2. shadow["proposer"][l].cursor = Base(l) + draft[l]
    BY <1>1, <2>1 DEF ExactStage
  <2> QED BY <1>1, <1>2, <2>2, CallIs
<1>5. GainsKept(q, l)
  <2> SUFFICES ASSUME NEW p \in Pools, NEW m \in Lanes, p # q \/ m # l, Cloned(m)'
               PROVE  Cloned(m) /\ Gained(p, m)' = Gained(p, m)
    BY DEF GainsKept
  <2>1. m \in batch
    BY <1>1 DEF Cloned
  <2> QED BY <1>2, <2>1, CatchupGains
<1>6. Writing(q, l, tables[l].cursor, One[l])
  <2>1. Gained(q, l) = draft[l] /\ Gained(q, l)' = draft[l] + 1 /\ Cloned(l) /\ Cloned(l)'
    BY <1>1, <1>2, CatchupGains
  <2>2. PICK g \in Nat, v \in Nat, w \in Nat, d \in Nat :
          /\ g = One[l] /\ v = Gained(q, l) /\ w = Gained(q, l)' /\ d = draft[l]
          /\ w <= d + g /\ d <= v
    BY <1>3, <1>4, <2>1
  <2>3. tables[l].cursor = Base(l) + d
    BY <1>4, <2>2
  <2> QED BY <1>1, <1>3, <1>5, <2>1, <2>2, <2>3, GainsWriting
<1>7. canonical[q][l].cursor <= tables[l].cursor
  BY <1>4
<1>8. (\A p \in Pools : PoolRows(p)') /\ rows' = [p \in Pools |-> rows'[p]]
  BY <1>1, <1>2, <1>3, <1>6, <1>7, ShadowRows
<1>9. \A p \in Pools : Noted(p)'
  BY <1>1 DEF Noted, RowInv
<1>10. DraftStart'
  BY <1>1 DEF DraftStart
<1> QED BY <1>8, <1>9, <1>10 DEF RowInv

\* The replay gains its lane the page's tokens.
LEMMA ReplayGains ==
  ASSUME IInv, NEW l \in Lanes, Replay(l), NEW m \in batch
  PROVE  /\ Cloned(m) /\ Cloned(m)'
         /\ \A p \in Pools : p # "proposer" \/ m # l => Gained(p, m)' = Gained(p, m)
         /\ Gained("proposer", l) = 0 /\ Gained("proposer", l)' = page[l]
<1>1. /\ UNCHANGED <<kind, batch, draft, page>> /\ pc = "replay" /\ l \in todo
      /\ kind = "parallel"
      /\ \/ pc' = "replay" /\ todo' = todo \ {l} /\ todo # {l}
         \/ pc' = "arbitrate" /\ todo = {l}
  BY DEF Replay, Done, Turn, IInv, Control, callVars
<1>2. Cloned(m) /\ Cloned(m)'
  BY <1>1 DEF Cloned
<1>3. Gained("target", m)' = Gained("target", m)
  <2>1. Verified(m) /\ Verified(m)'
    BY <1>1 DEF Verified
  <2> QED BY <1>1, <2>1 DEF Gained
<1>4. Gained("proposer", l) = 0 /\ Gained("proposer", l)' = page[l]
  <2>1. ~ Replayed(l) /\ Replayed(l)'
    BY <1>1 DEF Replayed
  <2> QED BY <1>1, <2>1 DEF Gained
<1>5. m # l => Gained("proposer", m)' = Gained("proposer", m)
  <2> SUFFICES ASSUME m # l PROVE Gained("proposer", m)' = Gained("proposer", m)
    OBVIOUS
  <2>1. Replayed(m)' <=> Replayed(m)
    BY <1>1 DEF Replayed
  <2> QED BY <1>1, <2>1 DEF Gained
<1> QED BY <1>2, <1>3, <1>4, <1>5 DEF Pools

LEMMA RowsReplay ==
  ASSUME Unwindowed, IInv, IInv', RefInv, RefInv', RowInv, NEW l \in Lanes, Replay(l)
  PROVE  RowInv'
<1>1. /\ UNCHANGED <<canonical, drafted, old, kind, batch, draft, page>>
      /\ pc = "replay" /\ kind = "parallel" /\ l \in batch /\ pc' \in {"replay", "arbitrate"}
      /\ batch \subseteq Lanes
  BY DEF Replay, Done, Turn, IInv, Control, callVars, Live
<1>2. PICK q, tables, after, lanes :
        /\ q = "proposer" /\ tables = shadow[q] /\ after = Executed(q, tables, l, lanes, page, page)
        /\ Execution(q, tables, after, l, page, page)
        /\ shadow' = [shadow EXCEPT ![q] = after]
        /\ noted' = [noted EXCEPT ![q] = @ \cup Completed(q, l, after[l], page[l])]
  BY DEF Replay
<1>3. q \in Pools /\ q \in PoolsOf(kind)
  BY <1>1, <1>2 DEF Pools, PoolsOf
<1>4. page \in [Lanes -> Nat] /\ page[l] \in Nat /\ page[l] <= page[l]
  <2>1. page \in [Lanes -> 0 .. MaxDraft + 1] /\ MaxDraft \in Nat
    BY Constants DEF IInv, Typed
  <2>2. page \in [Lanes -> Nat]
    BY <2>1
  <2>3. page[l] \in Nat
    BY <2>2
  <2> QED BY <2>2, <2>3
<1>5. Base(l) \in Nat /\ canonical[q][l].cursor = Base(l) /\ tables[l].cursor = Base(l)
  <2>1. ParallelStage(l)
    BY <1>1 DEF IInv, Stages
  <2>2. shadow["proposer"][l].cursor = Base(l)
    BY <1>1, <2>1 DEF ParallelStage
  <2> QED BY <1>1, <1>2, <2>2, CallIs
<1>6. GainsKept(q, l)
  <2> SUFFICES ASSUME NEW p \in Pools, NEW m \in Lanes, p # q \/ m # l, Cloned(m)'
               PROVE  Cloned(m) /\ Gained(p, m)' = Gained(p, m)
    BY DEF GainsKept
  <2>1. m \in batch
    BY <1>1 DEF Cloned
  <2> QED BY <1>2, <2>1, ReplayGains
<1>7. Gained(q, l) = 0 /\ Gained(q, l)' = page[l] /\ Cloned(l) /\ Cloned(l)'
  BY <1>1, <1>2, ReplayGains
<1>8. Writing(q, l, tables[l].cursor, page[l])
  <2>1. PICK g \in Nat, v \in Nat, w \in Nat, d \in Nat :
          /\ g = page[l] /\ v = Gained(q, l) /\ w = Gained(q, l)' /\ d = 0
          /\ w <= d + g /\ d <= v
    BY <1>4, <1>7
  <2>2. tables[l].cursor = Base(l) + d
    BY <1>5, <2>1
  <2> QED BY <1>1, <1>3, <1>6, <1>7, <2>1, <2>2, GainsWriting
<1>9. canonical[q][l].cursor <= tables[l].cursor
  BY <1>5
<1>10. /\ \A p \in Pools : PoolRows(p)'
       /\ rows' = [p \in Pools |-> rows'[p]]
       /\ \E F : Extends(tables[l].blocks, after[l].blocks, F)
       /\ Len(tables[l].blocks) <= Len(after[l].blocks)
       /\ \A p \in Pools, m \in Lanes : p # q \/ m # l => Held(p)'[At(2, m)] = Held(p)[At(2, m)]
  BY <1>1, <1>2, <1>3, <1>4, <1>8, <1>9, ShadowRows
<1>11. /\ Held(q)[At(2, l)] = tables[l].blocks /\ Held(q)'[At(2, l)] = after[l].blocks
       /\ tables[l] \in Table /\ after[l] \in Table
  <2>1. shadow \in Tables /\ shadow' \in Tables
    BY DEF IInv, Typed
  <2>2. shadow'[q] = after
    BY <1>2, <1>3, <2>1 DEF Tables
  <2>3. tables[l] \in Table /\ after[l] \in Table
    BY <1>2, <1>3, <2>1, <2>2 DEF Tables
  <2> QED BY <1>2, <1>3, <2>2, <2>3, HeldOf
<1>12. ASSUME NEW p \in Pools, NEW m \in batch, p # q \/ m # l
       PROVE  Trust(p)'[At(2, m)] = Trust(p)[At(2, m)]
  <2>1. Cloned(m) /\ Cloned(m)' /\ Gained(p, m)' = Gained(p, m)
    BY <1>2, <1>12, ReplayGains
  <2>2. Base(m)' = Base(m) /\ m \in Lanes
    BY <1>1 DEF Base
  <2> QED BY <1>1, <2>1, <2>2, TrustAt, TrustAtNext
<1>13. Trust(q)[At(2, l)] = Base(l) + 0 /\ Trust(q)'[At(2, l)] = Base(l) + page[l]
  <2>1. Base(l)' = Base(l)
    BY <1>1 DEF Base
  <2> QED BY <1>1, <1>3, <1>7, <2>1, TrustAt, TrustAtNext
<1>14. ASSUME NEW p \in Pools, NEW m \in batch, NEW b,
              Full(b, Held(p)[At(2, m)], Trust(p)[At(2, m)])
       PROVE  Full(b, Held(p)'[At(2, m)], Trust(p)'[At(2, m)])
  <2>1. CASE p # q \/ m # l
    <3>1. Held(p)'[At(2, m)] = Held(p)[At(2, m)] /\ Trust(p)'[At(2, m)] = Trust(p)[At(2, m)]
      BY <1>1, <1>10, <1>12, <2>1
    <3> QED BY <1>14, <3>1
  <2>2. CASE p = q /\ m = l
    <3>1. PICK c \in Seq(Blocks), d \in Seq(Blocks), n \in Nat, v \in Nat :
            /\ c = tables[l].blocks /\ d = after[l].blocks /\ n = Base(l) + 0
            /\ v = Base(l) + page[l] /\ n <= v
      BY <1>4, <1>5, <1>11 DEF Table
    <3>2. ASSUME NEW k \in DOMAIN c PROVE k \in DOMAIN d /\ d[k] = c[k]
      <4>1. k \in DOMAIN d
        BY <1>10, <3>1
      <4> QED BY <1>10, <3>1, <4>1 DEF Extends
    <3>3. Full(b, c, n)
      BY <1>11, <1>13, <1>14, <2>2, <3>1
    <3>4. Full(b, d, v)
      BY <3>1, <3>2, <3>3, FullKept
    <3> QED BY <1>11, <1>13, <2>2, <3>1, <3>4
  <2> QED BY <2>1, <2>2
<1>15. ASSUME NEW p \in Pools PROVE Noted(p)'
  <2>1. ASSUME NEW b \in noted'[p]
        PROVE  \E m \in batch : Full(b, Held(p)'[At(2, m)], Trust(p)'[At(2, m)])
    <3>1. CASE b \in noted[p]
      <4>1. PICK m \in batch : Full(b, Held(p)[At(2, m)], Trust(p)[At(2, m)])
        BY <1>1, <3>1 DEF RowInv, Noted
      <4> QED BY <1>14, <4>1
    <3>2. CASE b \notin noted[p]
      <4>1. p = q /\ b \in Completed(q, l, after[l], page[l])
        BY <1>2, <2>1, <3>2 DEF IInv, Typed
      <4>2. PICK t \in Table, n \in Nat, c \in Nat :
              t = after[l] /\ n = page[l] /\ c = canonical[q][l].cursor /\ c = Base(l)
        BY <1>4, <1>5, <1>11
      <4>3. c + n <= Len(t.blocks) * BlockSize
        <5>1. Right(rows'[q], At(2, l)[2], Held(q)'[At(2, l)], Trust(q)'[At(2, l)])
          BY <1>3, <1>10, HeldOf DEF PoolRows, Sound
        <5> QED BY <1>11, <1>13, <4>2, <5>1 DEF Right
      <4>4. Full(b, t.blocks, c + n)
        BY <1>3, <4>1, <4>2, <4>3, CompletedFull
      <4>5. Full(b, Held(p)'[At(2, l)], Trust(p)'[At(2, l)])
        BY <1>11, <1>13, <4>1, <4>2, <4>4
      <4> QED BY <1>1, <4>5
    <3> QED BY <3>1, <3>2
  <2>2. \A b \in noted'[p] : \E m \in batch' : Full(b, Held(p)'[At(2, m)], Trust(p)'[At(2, m)])
    BY <1>1, <2>1
  <2> QED BY <1>1, <2>2 DEF Noted
<1>16. DraftStart'
  BY <1>1 DEF DraftStart
<1> QED BY <1>10, <1>15, <1>16 DEF RowInv

LEMMA RowsDraftBlock ==
  ASSUME Unwindowed, IInv, IInv', RefInv, RefInv', RowInv, NEW l \in Lanes, DraftBlock(l)
  PROVE  RowInv'
<1>1. /\ UNCHANGED <<canonical, shadow, old, kind, batch, draft, page, step, noted>>
      /\ pc = "draft" /\ kind = "parallel" /\ l \in todo /\ l \in batch /\ l \in Drafting(0)
      /\ \/ pc' = "draft" /\ todo # {l}
         \/ pc' = "undraft"
  BY DEF DraftBlock, Done, Turn, IInv, Control, callVars
<1>2. PICK q, tables, after, lanes, advance :
        /\ q = "proposer" /\ advance = [m \in Lanes |-> TrainedRows + 1] /\ tables = drafted
        /\ after = Executed(q, tables, l, lanes, advance, advance)
        /\ Execution(q, tables, after, l, advance, Still) /\ drafted' = after
  BY DEF DraftBlock
<1>3. /\ q \in Pools /\ tables \in [Lanes -> Table] /\ after \in [Lanes -> Table]
      /\ advance \in [Lanes -> Nat] /\ Still[l] = 0 /\ Still[l] \in Nat /\ Still[l] <= advance[l]
  <2>1. q \in Pools /\ tables \in [Lanes -> Table] /\ after \in [Lanes -> Table]
    BY <1>2 DEF IInv, Typed, Pools
  <2>2. advance \in [Lanes -> Nat] /\ advance[l] \in Nat /\ Still[l] = 0
    BY <1>2, Constants DEF Still
  <2> QED BY <2>1, <2>2
<1>4. Advanced(q, tables, after, l, lanes, advance, advance)
  <2>1. Fits(q, tables[l], advance[l]) /\ Typed
    BY <1>2 DEF Execution, IInv
  <2> QED BY <1>2, <1>3, <2>1, ExecutedIs
<1>5. Base(l) \in Nat /\ canonical[q][l].cursor = Base(l) /\ tables[l].cursor = Base(l)
  <2>1. Drafts(l)
    BY <1>1 DEF Drafts
  <2>2. drafted[l].cursor = Base(l)
    BY <1>1, <2>1 DEF RowInv, DraftStart
  <2>3. tables[l].cursor = Base(l) /\ q = "proposer"
    BY <1>2, <2>2
  <2>4. Base(l) \in Nat /\ canonical["proposer"][l].cursor = Base(l)
    BY <1>1, CallIs
  <2> QED BY <2>3, <2>4
<1>6. PICK s \in Slots : s = At(4, l) /\ s[2] = l
  BY <1>3, HeldOf
<1>7. Held(q)[s] = tables[l].blocks /\ Held(q)'[s] = after[l].blocks
  BY <1>2, <1>3, <1>6, HeldOf
<1>8. ASSUME NEW p \in Pools, NEW m \in Lanes
      PROVE  /\ Held(p)'[At(1, m)] = Held(p)[At(1, m)] /\ Held(p)'[At(2, m)] = Held(p)[At(2, m)]
             /\ Held(p)'[At(3, m)] = Held(p)[At(3, m)]
             /\ p # q \/ m # l => Held(p)'[At(4, m)] = Held(p)[At(4, m)]
  <2>1. p # q \/ m # l => Held(p)'[At(4, m)] = Held(p)[At(4, m)]
    <3> SUFFICES ASSUME p # q \/ m # l PROVE Held(p)'[At(4, m)] = Held(p)[At(4, m)]
      OBVIOUS
    <3>1. CASE p = "proposer"
      <4>1. drafted'[m].blocks = drafted[m].blocks
        BY <1>2, <1>4, <3>1 DEF Advanced
      <4> QED BY <3>1, <4>1, HeldOf
    <3>2. CASE p # "proposer"
      <4>1. Held(p)'[At(4, m)] = <<>> /\ Held(p)[At(4, m)] = <<>>
        BY <3>2, HeldOf
      <4> QED BY <4>1
    <3> QED BY <3>1, <3>2
  <2> QED BY <1>1, <2>1, HeldOf
<1>9. ASSUME NEW p \in Pools, NEW m \in Lanes
      PROVE  /\ Trust(p)'[At(1, m)] = Trust(p)[At(1, m)] /\ Trust(p)[At(1, m)] \in Nat
             /\ Trust(p)'[At(2, m)] = Trust(p)[At(2, m)] /\ Trust(p)[At(2, m)] \in Nat
             /\ Trust(p)'[At(3, m)] = 0 /\ Trust(p)[At(3, m)] = 0
             /\ Trust(p)'[At(4, m)] = 0 /\ Trust(p)[At(4, m)] = 0
             /\ p = q => Trust(p)[At(1, l)] <= Base(l) /\ Trust(p)[At(2, l)] <= Base(l)
  <2>1. Cloned(m)' = Cloned(m)
    BY <1>1 DEF Cloned
  <2>2. \A k \in Lanes : Gained(p, k) = 0 /\ Gained(p, k)' = 0
    <3> TAKE k \in Lanes
    <3>1. ~ Verified(k) /\ ~ Verified(k)' /\ ~ Replayed(k) /\ ~ Replayed(k)'
      BY <1>1 DEF Verified, Replayed
    <3> QED BY <1>1, <3>1 DEF Gained
  <2>3. Base(m)' = Base(m)
    BY <1>1 DEF Base
  <2>4. Trust(p)[At(1, m)] \in Nat /\ Trust(p)[At(2, m)] \in Nat
    BY HeldOf, TrustNat DEF TrustsNat
  <2>5. p = q => Trust(p)[At(1, l)] <= Base(l) /\ Trust(p)[At(2, l)] <= Base(l)
    <3>1. p = q => Trust(p)[At(1, l)] = Base(l)
      BY <1>5, TrustAt
    <3>2. Trust(p)[At(2, l)] \in {0, Base(l) + 0}
      BY <2>2, TrustAt
    <3> QED BY <1>5, <3>1, <3>2
  <2> QED BY <1>1, <2>1, <2>2, <2>3, <2>4, <2>5, TrustAt, TrustAtNext
<1>10. ASSUME NEW r \in Slots, NEW p \in Pools
       PROVE  /\ r # s \/ p # q => Held(p)'[r] = Held(p)[r]
              /\ Trust(p)'[r] <= Trust(p)[r]
              /\ r[2] = l /\ p = q => Trust(p)'[r] <= Base(l)
  <2>1. PICK m \in Lanes : r = At(1, m) \/ r = At(2, m) \/ r = At(3, m) \/ r = At(4, m)
    BY SlotIs
  <2>2. r[2] = m
    BY <2>1, HeldOf
  <2>3. r # s \/ p # q => Held(p)'[r] = Held(p)[r]
    BY <1>6, <1>8, <2>1
  <2>4. Trust(p)'[r] = Trust(p)[r] /\ Trust(p)[r] \in Nat
    BY <1>9, <2>1
  <2>5. r[2] = l /\ p = q => Trust(p)'[r] <= Base(l)
    BY <1>5, <1>9, <2>1, <2>2
  <2> QED BY <2>3, <2>4, <2>5
<1>11. OnlySlot(q, s) /\ OtherPools(q)
  BY <1>3, <1>10 DEF OnlySlot, OtherPools
<1>12. Within(q, s, tables[l].cursor, Still[l])
  <2>1. \A r \in Slots : r # s => /\ Trust(q)'[r] <= Trust(q)[r]
                                  /\ r[2] = s[2] => Trust(q)'[r] <= tables[l].cursor
    BY <1>3, <1>5, <1>6, <1>10
  <2>2. Trust(q)'[s] <= Trust(q)[s] /\ Trust(q)'[s] = 0
    BY <1>3, <1>6, <1>9, <1>10
  <2> QED BY <1>3, <1>5, <2>1, <2>2 DEF Within
<1>13. canonical[q][l].cursor <= tables[l].cursor
  BY <1>5
<1>14. (\A p \in Pools : PoolRows(p)') /\ rows' = [p \in Pools |-> rows'[p]]
  BY <1>1, <1>2, <1>3, <1>6, <1>7, <1>11, <1>12, <1>13, ExecutionRows
<1>15. \A p \in Pools : Noted(p)'
  BY <1>1 DEF Noted, RowInv
<1>16. DraftStart'
  <2> SUFFICES ASSUME NEW m \in Lanes, Drafts(m)', pc' = "draft" PROVE drafted'[m].cursor = Base(m)'
    BY <1>1 DEF DraftStart
  <2>1. Drafts(m) /\ Base(m)' = Base(m)
    BY <1>1 DEF Drafts, Drafting, Base
  <2>2. drafted[m].cursor = Base(m)
    BY <1>1, <2>1 DEF RowInv, DraftStart
  <2>3. todo # {l}
    BY <1>1
  <2>4. after[m].cursor = tables[m].cursor + 0
    BY <1>4, <2>3 DEF Advanced
  <2>5. tables[m].cursor \in Nat
    BY <1>3 DEF Table
  <2> QED BY <1>2, <2>1, <2>2, <2>4, <2>5
<1> QED BY <1>14, <1>15, <1>16 DEF RowInv

\* The rows a prefill leaves.
LEMMA AdmitRows ==
  ASSUME NEW l \in Lanes, NEW n \in Prompts, Admit(l, n), NEW p \in Pools,
         NEW z, z = SizeOf(n)[p], NEW a, a = SubSeq(Allocatable(p), 1, BlocksFor(z))
  PROVE  /\ rows' = [q \in Pools |-> rows'[q]]
         /\ \E t : t.blocks = a /\ t.cursor = 0 /\ rows'[p] = Written(p, t, l, z, z)
<1> DEFINE fresh == [q \in Pools |-> SubSeq(Allocatable(q), 1, BlocksFor(SizeOf(n)[q]))]
           table == [q \in Pools |-> [blocks |-> fresh[q], head |-> 0, cursor |-> SizeOf(n)[q]]]
<1>1. rows' = [q \in Pools |-> Written(q, [table[q] EXCEPT !.cursor = 0], l,
                                       SizeOf(n)[q], SizeOf(n)[q])]
  BY DEF Admit, SizeOf
<1>2. table[p] = [blocks |-> a, head |-> 0, cursor |-> z]
  OBVIOUS
<1> HIDE DEF table, fresh
<1>3. PICK t : t = [table[p] EXCEPT !.cursor = 0]
  OBVIOUS
<1>4. t.blocks = a /\ t.cursor = 0
  <2>1. PICK r : r = [blocks |-> a, head |-> 0, cursor |-> z]
    OBVIOUS
  <2>2. r.blocks = a /\ [r EXCEPT !.cursor = 0].blocks = r.blocks /\ [r EXCEPT !.cursor = 0].cursor = 0
    BY <2>1
  <2>3. t = [r EXCEPT !.cursor = 0]
    BY <1>2, <1>3, <2>1
  <2> QED BY <2>2, <2>3
<1>5. rows'[p] = Written(p, t, l, z, z) /\ rows' = [q \in Pools |-> rows'[q]]
  BY <1>1, <1>3
<1> QED BY <1>4, <1>5

\* Fresh blocks behind the empty table of slot s, with the rows of z emitted tokens.
Prefill(p, l, s, a, F, z) ==
  /\ a \in Seq(Blocks) /\ F = ToSet(a) /\ z <= Len(a) * BlockSize /\ z <= MaxTokens
  /\ \A i, j \in DOMAIN a : a[i] = a[j] => i = j
  /\ Untouched(p, F) /\ Held(p)[s] = <<>> /\ Held(p)'[s] = a
  /\ RowsWritten(rows[p], rows'[p], l, a, 0, z, z, Blocks)
  /\ free'[p] = free[p] \ F
  /\ hashed'[p] = (hashed[p] \ F) \cup {a[i] : i \in 1 .. z \div BlockSize}
  /\ Trust(p)'[s] = z /\ canonical[p][l].cursor = 0 /\ canonical'[p][l].cursor = z
  /\ \A r \in Slots : r # s => Held(p)'[r] = Held(p)[r] /\ Trust(p)'[r] = Trust(p)[r]
  /\ \A m \in Lanes : m # l => canonical'[p][m].cursor = canonical[p][m].cursor

LEMMA PrefillRows ==
  ASSUME Unwindowed, IInv, IInv', RefInv', RowInv, NEW p \in Pools, NEW l \in Lanes,
         NEW s \in Slots, s[2] = l, NEW a, NEW F, NEW z \in Nat, Prefill(p, l, s, a, F, z)
  PROVE  PoolRows(p)'
<1>1. PICK T, U : T = Held(p) /\ U = Held(p)'
  OBVIOUS
<1>2. T \in Holdings /\ U \in Holdings /\ TrustsNat /\ TrustsNat'
  BY <1>1, HeldTypes, HeldTypesNext, TrustNat, TrustNatNext
<1>3. Placed(T) /\ Sound(p) /\ Frozen(p) /\ Sealed(p)
  BY <1>1 DEF RowInv, PoolRows
<1>4. /\ a \in Seq(Blocks) /\ F = ToSet(a) /\ z <= Len(a) * BlockSize /\ z <= MaxTokens
      /\ \A i, j \in DOMAIN a : a[i] = a[j] => i = j
      /\ T[s] = <<>> /\ U[s] = a
      /\ \A r \in Slots : r # s => U[r] = T[r] /\ Trust(p)'[r] = Trust(p)[r]
  BY <1>1 DEF Prefill
<1>5. /\ \A r \in Slots : \A i \in DOMAIN T[r] : T[r][i] \notin F
      /\ \A i \in DOMAIN a : a[i] \in F
  <2>1. \A i \in DOMAIN a : a[i] \in F
    BY <1>4, ToSetIs
  <2> QED BY <1>1, <2>1 DEF Untouched, Prefill
<1>6. PICK f : f = [r \in Slots |-> r]
  OBVIOUS
<1>7. Derives(T, U, f, F)
  <2> SUFFICES ASSUME NEW r \in Slots, NEW i \in DOMAIN U[r]
               PROVE  IF i \in DOMAIN T[r] THEN U[r][i] = T[r][i] ELSE U[r][i] \in F
    BY <1>6 DEF Derives
  <2>1. CASE r = s
    BY <1>4, <1>5, <2>1
  <2>2. CASE r # s
    BY <1>4, <2>2
  <2> QED BY <2>1, <2>2
<1>8. Unheld(T, U, F)
  <2> SUFFICES ASSUME NEW r \in Slots, NEW v \in Slots, NEW i \in DOMAIN U[r], NEW j \in DOMAIN U[v],
                      U[r][i] \in F, U[r][i] = U[v][j]
               PROVE  r[2] = v[2] /\ i = j
    BY <1>5 DEF Unheld
  <2>1. r = s /\ v = s
    BY <1>4, <1>5
  <2> QED BY <1>4, <2>1
<1>9. Placed(U)
  BY <1>3, <1>7, <1>8, PlacedNext
<1>10. PICK k \in Nat : k = Len(a) /\ z <= k * BlockSize /\ k * BlockSize \in Nat
  BY <1>4, Constants
<1>11. ASSUME NEW y \in 0 .. z - 1
       PROVE  /\ y \in Nat /\ y \div BlockSize + 1 \in DOMAIN a
              /\ a[y \div BlockSize + 1] \in Blocks /\ a[y \div BlockSize + 1] \in F
  <2>1. y \in Nat /\ y < k * BlockSize
    BY <1>10
  <2>2. y \div BlockSize + 1 \in DOMAIN a
    BY <1>4, <1>10, <2>1, PlaceOf
  <2> QED BY <1>4, <1>5, <2>1, <2>2
<1>12. /\ \A y \in 0 .. 0 + z - 1 : a[y \div BlockSize + 1] \in Blocks =>
            rows'[p][a[y \div BlockSize + 1]][y % BlockSize] = Row(l, y, y - 0 < z)
       /\ \A b \in Blocks, o \in 0 .. BlockSize - 1 :
            (\A y \in 0 .. 0 + z - 1 : ~ Hits(a, y, b, o)) => rows'[p][b][o] = rows[p][b][o]
  BY DEF Prefill, RowsWritten
<1>13. ASSUME NEW b \in Blocks, b \notin F, NEW o \in 0 .. BlockSize - 1
       PROVE  rows'[p][b][o] = rows[p][b][o]
  <2>1. \A y \in 0 .. 0 + z - 1 : ~ Hits(a, y, b, o)
    BY <1>11, <1>13 DEF Hits
  <2> QED BY <1>12, <2>1
<1>14. Right(rows'[p], l, a, z)
  <2>1. ASSUME NEW y \in 0 .. z - 1
        PROVE  rows'[p][a[y \div BlockSize + 1]][y % BlockSize] = Row(l, y, TRUE)
    <3>1. rows'[p][a[y \div BlockSize + 1]][y % BlockSize] = Row(l, y, y - 0 < z)
      <4>1. y \in 0 .. 0 + z - 1
        OBVIOUS
      <4> QED BY <1>11, <1>12, <4>1
    <3>2. (y - 0 < z) = TRUE
      OBVIOUS
    <3> QED BY <3>1, <3>2
  <2> QED BY <1>4, <2>1 DEF Right
<1>15. ASSUME NEW r \in Slots, r # s PROVE Right(rows'[p], r[2], U[r], Trust(p)'[r])
  <2>1. PICK d \in Seq(Blocks), m \in Nat :
          d = U[r] /\ d = T[r] /\ m = Trust(p)'[r] /\ m = Trust(p)[r]
    BY <1>2, <1>4, <1>15 DEF TrustsNat, Holdings
  <2>2. Right(rows[p], r[2], d, m)
    BY <1>1, <1>3, <2>1 DEF Sound
  <2>3. PICK h \in Nat : h = Len(d) /\ m <= h * BlockSize /\ h * BlockSize \in Nat
    BY <2>2, Constants DEF Right
  <2>4. ASSUME NEW x \in 0 .. m - 1
        PROVE  rows'[p][d[x \div BlockSize + 1]][x % BlockSize] =
                 rows[p][d[x \div BlockSize + 1]][x % BlockSize]
    <3>1. PICK w \in Nat : w = h * BlockSize
      BY <2>3
    <3>2. x \in Nat /\ x < h * BlockSize
      BY <2>3, <3>1
    <3>3. x \div BlockSize + 1 \in DOMAIN d /\ x % BlockSize \in 0 .. BlockSize - 1
      BY <2>3, <3>2, PlaceOf
    <3>4. d[x \div BlockSize + 1] \in Blocks /\ d[x \div BlockSize + 1] \notin F
      BY <1>5, <2>1, <3>3
    <3> QED BY <1>13, <3>3, <3>4
  <2>5. m <= m /\ m <= Len(d) * BlockSize /\ \A i \in DOMAIN d : i \in DOMAIN d => d[i] = d[i]
    BY <2>3
  <2>6. Right(rows'[p], r[2], d, m)
    BY <2>2, <2>4, <2>5, RightKept
  <2> QED BY <2>1, <2>6
<1>16. Sound(p)'
  <2>1. Right(rows'[p], s[2], U[s], Trust(p)'[s])
    BY <1>4, <1>14 DEF Prefill
  <2> QED BY <1>1, <1>15, <2>1 DEF Sound
<1>17. PICK N : N = {a[i] : i \in 1 .. z \div BlockSize}
  OBVIOUS
<1>18. hashed'[p] = (hashed[p] \ F) \cup N /\ free'[p] = free[p] \ F
  BY <1>17 DEF Prefill
<1>19. ASSUME NEW b \in N
       PROVE  \E i \in DOMAIN a : a[i] = b /\ i * BlockSize <= z
  <2>1. PICK q \in Nat : q = z \div BlockSize /\ q <= k
    BY <1>10, WholeBlocks
  <2>2. PICK i \in 1 .. q : a[i] = b
    BY <1>17, <2>1
  <2>3. i \in DOMAIN a
    BY <1>4, <1>10, <2>1
  <2>4. i * BlockSize <= z
    <3>1. PICK d \in Nat \ {0}, j \in Nat : d = BlockSize /\ j = i /\ j <= q
      BY Constants
    <3>2. d * (z \div d) <= z
      OBVIOUS
    <3>3. d * q <= z
      BY <2>1, <3>1, <3>2
    <3>4. d * j <= d * q /\ d * j = j * d /\ d * j \in Nat /\ d * q \in Nat
      BY <3>1
    <3> QED BY <3>1, <3>3, <3>4
  <2> QED BY <2>2, <2>3, <2>4
<1>20. Frozen(p)'
  <2>1. \A r \in Slots : DOMAIN U[r] \subseteq Nat
    BY <1>2 DEF Holdings
  <2>2. Onward(p, U)
    <3> SUFFICES ASSUME NEW r \in Slots
                 PROVE  /\ canonical[p][r[2]].cursor \in Nat /\ canonical'[p][r[2]].cursor \in Nat
                        /\ canonical[p][r[2]].cursor <= canonical'[p][r[2]].cursor
      BY DEF Onward
    <3>1. PICK m \in Lanes : m = r[2]
      BY DEF Slots
    <3>2. PICK c \in Nat : c = canonical[p][m].cursor
      BY CursorNat
    <3>3. CASE m = l
      <4>1. canonical[p][m].cursor = 0 /\ canonical'[p][m].cursor = z
        BY <3>3 DEF Prefill
      <4> QED BY <3>1, <4>1
    <3>4. CASE m # l
      <4>1. canonical'[p][m].cursor = c /\ c <= c
        BY <3>2, <3>4 DEF Prefill
      <4> QED BY <3>1, <3>2, <4>1
    <3> QED BY <3>3, <3>4
  <2>3. Published(p, U, N)
    <3> SUFFICES ASSUME NEW b \in N
                 PROVE  \E r \in Slots : \E i \in DOMAIN U[r] :
                          /\ U[r][i] = b /\ i * BlockSize <= Trust(p)'[r]
                          /\ i * BlockSize <= canonical'[p][r[2]].cursor
      BY DEF Published
    <3>1. PICK i \in DOMAIN a : a[i] = b /\ i * BlockSize <= z
      BY <1>19
    <3>2. U[s] = a /\ Trust(p)'[s] = z /\ canonical'[p][s[2]].cursor = z
      BY <1>4 DEF Prefill
    <3>3. i \in DOMAIN U[s] /\ U[s][i] = b /\ i * BlockSize <= Trust(p)'[s]
          /\ i * BlockSize <= canonical'[p][s[2]].cursor
      BY <3>1, <3>2
    <3> QED BY <3>3
  <2>4. hashed'[p] \subseteq (hashed[p] \ F) \cup N
    BY <1>18
  <2> QED BY <1>1, <1>3, <1>7, <1>9, <2>1, <2>2, <2>3, <2>4, FrozenNext
<1>21. ASSUME NEW b \in hashed'[p]
       PROVE  /\ b \notin free'[p]
              /\ \E m \in Lanes, e \in 0 .. Cardinality(Blocks) - 1 : RowsOf(rows'[p][b], m, e)
  <2>1. CASE b \in N
    <3>1. PICK i \in DOMAIN a : a[i] = b /\ i * BlockSize <= z
      BY <1>19, <2>1
    <3>2. b \notin free'[p]
      BY <1>5, <1>18, <3>1
    <3>3. i * BlockSize <= MaxTokens
      <4>1. PICK w \in Nat : w = i * BlockSize
        BY <1>4, Constants
      <4> QED BY <1>4, <3>1, <4>1, Constants
    <3>4. i - 1 \in 0 .. Cardinality(Blocks) - 1 /\ RowsOf(rows'[p][a[i]], l, i - 1)
      BY <1>4, <1>14, <3>1, <3>3, RowsOfBlock
    <3> QED BY <3>1, <3>2, <3>4
  <2>2. CASE b \notin N
    <3>1. b \in hashed[p] /\ b \notin F /\ b \in Blocks
      BY <1>18, <2>2 DEF IInv, Typed, Stores
    <3>2. b \notin free'[p]
      BY <1>3, <1>18, <3>1 DEF Sealed
    <3>3. PICK m \in Lanes, e \in 0 .. Cardinality(Blocks) - 1 : RowsOf(rows[p][b], m, e)
      BY <1>3, <3>1 DEF Sealed
    <3>4. RowsOf(rows'[p][b], m, e)
      BY <1>13, <3>1, <3>3 DEF RowsOf
    <3> QED BY <3>2, <3>4
  <2> QED BY <2>1, <2>2
<1>22. Sealed(p)'
  BY <1>21 DEF Sealed, RowsOf
<1> QED BY <1>1, <1>9, <1>16, <1>20, <1>22 DEF PoolRows

LEMMA RowsAdmit ==
  ASSUME Unwindowed, IInv, IInv', RefInv, RefInv', RowInv,
         NEW l \in Lanes, NEW n \in Prompts, Admit(l, n)
  PROVE  RowInv'
<1>1. /\ UNCHANGED <<shadow, drafted, old, kind, pc, todo, batch, draft, page, step, noted>>
      /\ l \notin Live /\ l \notin batch
  BY DEF Admit, callVars, IInv, Control
<1>2. PICK size, tables : size = SizeOf(n) /\ Admitted(l, size, tables)
  BY AdmitIs
<1>3. ASSUME NEW p \in Pools
      PROVE  /\ size[p] \in Nat /\ size[p] <= MaxTokens /\ BlocksFor(size[p]) <= Len(Allocatable(p))
             /\ tables[p].cursor = size[p]
             /\ tables[p].blocks = SubSeq(Allocatable(p), 1, BlocksFor(size[p]))
             /\ free'[p] = free[p] \ ToSet(tables[p].blocks)
             /\ hashed'[p] = (hashed[p] \ ToSet(tables[p].blocks)) \cup
                  {tables[p].blocks[i] : i \in 1 .. size[p] \div BlockSize}
             /\ canonical'[p][l] = tables[p]
             /\ \A m \in Lanes : m # l => canonical'[p][m] = canonical[p][m]
  BY <1>2 DEF Admitted, IInv, Typed, Tables
<1>4. Outside(l)
  BY <1>1, <1>3 DEF Outside
<1>5. \A p \in Pools : canonical[p][l] = NoTable
  <2>1. canonical["target"][l] = NoTable
    BY <1>1 DEF Live
  <2>2. canonical["proposer"][l] = NoTable
    BY <1>1 DEF RefInv, Gone
  <2> QED BY <2>1, <2>2 DEF Pools
<1>6. ASSUME NEW p \in Pools PROVE PoolRows(p)'
  <2>1. PICK z \in Nat : z = size[p]
    BY <1>3
  <2>2. PICK k \in Nat : k = BlocksFor(z) /\ z <= k * BlockSize
    BY BlocksReach
  <2>3. PICK a : a = tables[p].blocks
    OBVIOUS
  <2>4. a = SubSeq(Allocatable(p), 1, k) /\ k <= Len(Allocatable(p))
    BY <1>3, <2>1, <2>2, <2>3
  <2>5. /\ a \in Seq(Blocks) /\ Len(a) = k
        /\ \A i \in 1 .. k : a[i] = Allocatable(p)[i] /\ i \in DOMAIN Allocatable(p)
    BY <2>4, FirstAllocatable DEF IInv
  <2>6. DOMAIN a = 1 .. k
    BY <2>5
  <2>7. /\ \A i \in DOMAIN Allocatable(p) : Allocatable(p)[i] \in free[p] \cup Cached(p)
        /\ \A i, j \in DOMAIN Allocatable(p) : Allocatable(p)[i] = Allocatable(p)[j] => i = j
    BY AllocatableIs DEF IInv
  <2>8. \A i, j \in DOMAIN a : a[i] = a[j] => i = j
    BY <2>5, <2>6, <2>7
  <2>9. PICK F : F = ToSet(a)
    OBVIOUS
  <2>10. \A b \in F : b \in free[p] \cup Cached(p)
    BY <2>5, <2>6, <2>7, <2>9, ToSetIs
  <2>11. Untouched(p, F)
    BY <2>10, SpareUntouched
  <2>12. PICK s \in Slots : s = At(1, l) /\ s[2] = l
    BY HeldOf
  <2>13. canonical'[p][l] = tables[p] /\ canonical[p][l] = NoTable /\ tables[p].cursor = z
    BY <1>3, <1>5, <2>1
  <2>14. /\ Held(p)[s] = <<>> /\ Held(p)'[s] = a /\ Trust(p)'[s] = z
         /\ canonical[p][l].cursor = 0 /\ canonical'[p][l].cursor = z
    BY <2>3, <2>12, <2>13, HeldOf, TrustAtNext, NoTableIs
  <2>15. RowsWritten(rows[p], rows'[p], l, a, 0, z, z, Blocks)
    <3>1. PICK t : t.blocks = a /\ t.cursor = 0 /\ rows'[p] = Written(p, t, l, z, z)
      BY <1>2, <2>1, <2>2, <2>4, AdmitRows
    <3>2. 0 \in Nat /\ 0 + z <= Len(a) * BlockSize
      BY <2>2, <2>5
    <3> QED BY <2>5, <2>8, <3>1, <3>2, WrittenIs
  <2>16. ASSUME NEW r \in Slots, r # s
         PROVE  Held(p)'[r] = Held(p)[r] /\ Trust(p)'[r] = Trust(p)[r]
    <3>1. PICK m \in Lanes : r = At(1, m) \/ r = At(2, m) \/ r = At(3, m) \/ r = At(4, m)
      BY SlotIs
    <3>2. PICK j \in {1, 2, 3, 4} : r = At(j, m)
      BY <3>1
    <3>3. CASE m # l
      BY <1>4, <3>2, <3>3, OutsideSame
    <3>4. CASE m = l
      <4>1. j \in {2, 3, 4}
        BY <2>12, <2>16, <3>2, <3>4
      <4>2. /\ Held(p)[At(j, l)] = <<>> /\ Held(p)'[At(j, l)] = <<>>
            /\ Trust(p)[At(j, l)] = 0 /\ Trust(p)'[At(j, l)] = 0
        BY <1>4, <4>1, OutsideEmpty
      <4> QED BY <3>2, <3>4, <4>2
    <3> QED BY <3>3, <3>4
  <2>17. /\ free'[p] = free[p] \ F
         /\ hashed'[p] = (hashed[p] \ F) \cup {a[i] : i \in 1 .. z \div BlockSize}
    BY <1>3, <2>1, <2>3, <2>9
  <2>18. /\ z <= Len(a) * BlockSize /\ z <= MaxTokens
         /\ \A m \in Lanes : m # l => canonical'[p][m].cursor = canonical[p][m].cursor
    BY <1>3, <2>1, <2>2, <2>5
  <2>19. Prefill(p, l, s, a, F, z)
    BY <2>5, <2>8, <2>9, <2>11, <2>14, <2>15, <2>16, <2>17, <2>18 DEF Prefill
  <2> QED BY <2>12, <2>19, PrefillRows
<1>7. DraftStart' /\ \A p \in Pools : Noted(p)'
  BY <1>4, OutsideNoted
<1>8. rows' = [p \in Pools |-> rows'[p]]
  <2>1. PICK p : p \in Pools
    BY DEF Pools
  <2> QED BY <2>1, AdmitRows
<1> QED BY <1>6, <1>7, <1>8 DEF RowInv

LEMMA RowInit == Init => RowInv
<1> SUFFICES ASSUME Init PROVE RowInv
  OBVIOUS
<1>1. ASSUME NEW p \in Pools, NEW s \in Slots PROVE Held(p)[s] = <<>> /\ Trust(p)[s] = 0
  <2>1. PICK l \in Lanes : s = At(1, l) \/ s = At(2, l) \/ s = At(3, l) \/ s = At(4, l)
    BY SlotIs
  <2>2. /\ canonical[p][l] = NoTable /\ shadow[p][l] = NoTable /\ old[p][l] = NoTable
        /\ drafted[l] = NoTable
    BY DEF Init, NoTables
  <2>3. ~ Cloned(l)
    BY DEF Init, Cloned
  <2>4. canonical[p][l].cursor = 0 /\ canonical[p][l].blocks = <<>> /\ shadow[p][l].blocks = <<>>
        /\ old[p][l].blocks = <<>> /\ drafted[l].blocks = <<>>
    BY <2>2, NoTableIs
  <2> QED BY <2>1, <2>3, <2>4, HeldOf, TrustAt
<1>2. ASSUME NEW p \in Pools PROVE PoolRows(p) /\ Noted(p)
  <2>1. Placed(Held(p)) /\ Frozen(p)
    BY <1>1 DEF Placed, Frozen
  <2>2. Sound(p)
    <3>1. ASSUME NEW l \in Lanes PROVE Right(rows[p], l, <<>>, 0)
      <4>1. Len(<<>>) * BlockSize = 0
        BY Constants
      <4> QED BY <4>1 DEF Right
    <3>2. ASSUME NEW s \in Slots PROVE Right(rows[p], s[2], Held(p)[s], Trust(p)[s])
      <4>1. s[2] \in Lanes
        BY SlotIs DEF At
      <4>2. Held(p)[s] = <<>> /\ Trust(p)[s] = 0
        BY <1>1
      <4> QED BY <3>1, <4>1, <4>2
    <3> QED BY <3>2 DEF Sound
  <2>3. Sealed(p)
    BY DEF Init, Sealed
  <2>4. Noted(p)
    BY DEF Init, Noted
  <2> QED BY <2>1, <2>2, <2>3, <2>4 DEF PoolRows
<1>3. rows = [p \in Pools |-> rows[p]] /\ DraftStart
  BY DEF Init, DraftStart
<1> QED BY <1>2, <1>3 DEF RowInv

LEMMA RowNext ==
  ASSUME Unwindowed, IInv, RefInv, RowInv, Next
  PROVE  RowInv'
<1>1. IInv' /\ RefInv'
  BY StepNext, RefNext
<1>2. CASE Arbitrate \/ Fail \/ Cancel \/ \E l \in Lanes : Release(l)
  BY <1>1, <1>2, RowsPlain
<1>3. CASE Publish \/ Commit
  BY <1>1, <1>3, RowsPublish, RowsCommit
<1>4. ASSUME NEW lanes \in SUBSET Lanes, Begin(lanes) PROVE RowInv'
  BY <1>1, <1>4, RowsBegin
<1>5. ASSUME NEW l \in Lanes, Clone(l) \/ Copy(l) \/ Truncate(l) PROVE RowInv'
  BY <1>1, <1>5, RowsClone, RowsCopy, RowsTruncate
<1>6. ASSUME NEW l \in Lanes, DraftStep(l) \/ DraftBlock(l) \/ Verify(l) PROVE RowInv'
  BY <1>1, <1>6, RowsDraftStep, RowsDraftBlock, RowsVerify
<1>7. ASSUME NEW l \in Lanes, Catchup(l) \/ Replay(l) PROVE RowInv'
  BY <1>1, <1>7, RowsCatchup, RowsReplay
<1>8. ASSUME NEW l \in Lanes, DropDraft(l) \/ DropOld(l) \/ Discard(l) \/ ReturnBlocks(l)
      PROVE  RowInv'
  BY <1>1, <1>8, RowsDropDraft, RowsDropOld, RowsDiscard, RowsReturnBlocks
<1>9. ASSUME NEW l \in Lanes, NEW n \in Prompts, Admit(l, n) PROVE RowInv'
  BY <1>1, <1>9, RowsAdmit
<1> QED BY <1>2, <1>3, <1>4, <1>5, <1>6, <1>7, <1>8, <1>9 DEF Next, RoundStep

LEMMA RowStutter ==
  ASSUME RowInv, UNCHANGED vars
  PROVE  RowInv'
<1>1. UNCHANGED <<free, hashed, rows, canonical, shadow, drafted, old, kind, pc, todo,
                  batch, draft, page, step, noted>>
  BY DEF vars, storeVars, tableVars, callVars
<1>2. DraftStart'
  BY <1>1 DEF RowInv, DraftStart, Drafts, Drafting, Base
<1>3. ASSUME NEW p \in Pools PROVE Held(p)' = Held(p)
  BY <1>1 DEF Held
<1>4. ASSUME NEW p \in Pools PROVE Trust(p)' = Trust(p)
  <2>1. ASSUME NEW l \in Lanes
        PROVE  Cloned(l)' = Cloned(l) /\ Base(l)' = Base(l) /\ Gained(p, l)' = Gained(p, l)
    BY <1>1 DEF Cloned, Base, Gained, Verified, Replayed, Fed
  <2>2. \A s \in Slots : s[2] \in Lanes
    BY SlotIs DEF At
  <2> HIDE DEF Cloned, Base, Gained
  <2> QED BY <1>1, <2>1, <2>2 DEF Trust, PoolsOf
<1>5. ASSUME NEW p \in Pools PROVE PoolRows(p)' /\ Noted(p)'
  <2>1. PoolRows(p) /\ Noted(p)
    BY DEF RowInv
  <2>2. Held(p)' = Held(p) /\ Trust(p)' = Trust(p)
    BY <1>3, <1>4
  <2>3. Placed(Held(p))'
    BY <2>1, <2>2 DEF PoolRows, Placed
  <2>4. Sound(p)' /\ Frozen(p)' /\ Sealed(p)'
    BY <1>1, <2>1, <2>2 DEF PoolRows, Sound, Frozen, Sealed
  <2>5. Noted(p)'
    BY <1>1, <2>1, <2>2 DEF Noted
  <2> QED BY <2>3, <2>4, <2>5 DEF PoolRows
<1> QED BY <1>1, <1>2, <1>5 DEF RowInv

LEMMA RowsKept == Unwindowed /\ Spec => [](Unwindowed /\ IInv /\ RefInv /\ RowInv)
<1>1. Init => RowInv
  BY RowInit
<1>2. (Unwindowed /\ IInv /\ RefInv) /\ RowInv /\ [Next]_vars => RowInv'
  BY RowNext, RowStutter
<1> QED BY <1>1, <1>2, RefsKept, PTL DEF Spec

\* Whatever a round drafts, rejects, replays or gives up, every row a sequence reads
\* back behind its cursor is the row of the token it emitted at that place: no rejected
\* candidate survives a truncation, a commit or a discard, a fully accepted page
\* is not left a row short, and no lane writes a row of another one.
THEOREM RowsCorrect == Unwindowed /\ Spec => []RowsIntact
<1>1. ASSUME Unwindowed, IInv, RowInv PROVE RowsIntact
  <2> SUFFICES ASSUME NEW p \in PoolsOf(kind), NEW l \in Lanes,
                      NEW i \in canonical[p][l].head * BlockSize .. canonical[p][l].cursor - 1
               PROVE  rows[p][canonical[p][l].blocks[i \div BlockSize + 1]][i % BlockSize]
                        = Row(l, i, TRUE)
    BY DEF RowsIntact
  <2>1. p \in Pools
    BY DEF PoolsOf, Pools
  <2>2. At(1, l) \in Slots /\ At(1, l)[2] = l /\ Held(p)[At(1, l)] = canonical[p][l].blocks
    BY <2>1, HeldOf
  <2>3. Trust(p)[At(1, l)] = canonical[p][l].cursor
    BY <2>1, TrustAt
  <2>4. Right(rows[p], l, canonical[p][l].blocks, canonical[p][l].cursor)
    <3>1. Sound(p)
      BY <1>1, <2>1 DEF RowInv, PoolRows
    <3>2. Right(rows[p], At(1, l)[2], Held(p)[At(1, l)], Trust(p)[At(1, l)])
      BY <2>2, <3>1 DEF Sound
    <3> QED BY <2>2, <2>3, <3>2
  <2>5. i \in 0 .. canonical[p][l].cursor - 1
    <3>1. canonical[p][l].head = 0
      BY <1>1, <2>1 DEF IInv, AllBacked, Backed
    <3>2. canonical[p][l].head * BlockSize = 0
      BY <3>1, Constants
    <3> QED BY <3>2
  <2> QED BY <2>4, <2>5 DEF Right
<1>2. Unwindowed /\ IInv /\ RefInv /\ RowInv => RowsIntact
  BY <1>1
<1> QED BY <1>2, RowsKept, PTL

\* ... and a block that is found by its hash holds, in every row, consecutive tokens
\* one sequence emitted: commit and publication install hashes of full blocks of
\* accepted tokens only, and no later stage of any lane writes such a block again.
THEOREM HashesCorrect == Unwindowed /\ Spec => []HashedRight
<1>1. ASSUME RowInv PROVE HashedRight
  <2>1. ASSUME NEW p \in Pools, NEW b \in hashed[p]
        PROVE  \E l \in Lanes, k \in 0 .. Cardinality(Blocks) - 1 : RowsOf(rows[p][b], l, k)
    BY <1>1 DEF RowInv, PoolRows, Sealed
  <2> QED BY <2>1 DEF HashedRight, RowsOf
<1>2. Unwindowed /\ IInv /\ RefInv /\ RowInv => HashedRight
  BY <1>1
<1> QED BY <1>2, RowsKept, PTL
=============================================================================
