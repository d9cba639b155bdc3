CONSTANTS
  b1 = b1  b2 = b2  b3 = b3  s1 = s1  s2 = s2  p1 = p1
  ta = ta  tb = tb
  NoBlock = NoBlock
  Blocks <- TwoBlocks
  Seqs <- TwoSeqs
  SessionSeqs <- NoSeqs
  Handles <- OneHandle
  Token <- TwoTokens
  BlockSize = 2
  MaxTokens = 4
  Windowed = FALSE
  Window = 1
  MaxLen = 2
  MaxChunk = 1
  MaxLru = 0
SPECIFICATION Spec
SYMMETRY FullSymmetry
INVARIANT RefcountExact
INVARIANT OwnHistory
PROPERTY RollbackExact
