------------------------------ MODULE MCKvPool ------------------------------
(***************************************************************************)
(* Small instances of KvPool for TLC.                                      *)
(***************************************************************************)
EXTENDS KvPool, TLC

CONSTANTS b1, b2, b3, s1, s2, p1, ta, tb

TwoBlocks == {b1, b2}
NoSeqs == {}
OneSeq == {s1}
TwoSeqs == {s1, s2}
NoHandles == {}
OneHandle == {p1}
OneToken == {ta}
TwoTokens == {ta, tb}

\* Blocks and tokens are interchangeable; so are sequences of one kind.
BlockSymmetry == Permutations(Blocks) \cup Permutations(Token)
FullSymmetry == BlockSymmetry \cup Permutations(Seqs)
=============================================================================
