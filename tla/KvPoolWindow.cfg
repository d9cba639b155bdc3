CONSTANTS
  b1 = b1  b2 = b2  b3 = b3  s1 = s1  s2 = s2  p1 = p1
  ta = ta  tb = tb
  NoBlock = NoBlock
  Blocks <- TwoBlocks
  Seqs <- TwoSeqs
  SessionSeqs <- NoSeqs
  Handles <- NoHandles
  Token <- OneToken
  BlockSize = 1
  MaxTokens = 2
  Windowed = TRUE
  Window = 1
  MaxLen = 3
  MaxChunk = 1
  MaxLru = 1
SPECIFICATION FairSpec
INVARIANT TypeOK
INVARIANT RefcountExact
INVARIANT WindowRetained
PROPERTY Returned
