CONSTANTS
  b1 = b1  b2 = b2  b3 = b3  s1 = s1  s2 = s2  p1 = p1
  ta = ta  tb = tb
  NoBlock = NoBlock
  Blocks <- TwoBlocks
  Seqs <- TwoSeqs
  SessionSeqs <- OneSeq
  Handles <- NoHandles
  Token <- TwoTokens
  BlockSize = 1
  MaxTokens = 2
  Windowed = FALSE
  Window = 1
  MaxLen = 2
  MaxChunk = 2
  MaxLru = 2
SPECIFICATION Spec
SYMMETRY BlockSymmetry
INVARIANT Conserved
INVARIANT Reclaimable
INVARIANT CacheContent
