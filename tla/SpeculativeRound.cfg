SPECIFICATION Spec
CONSTANTS
  Lanes = {1, 2}
  Blocks <- BlocksOf
  BlockSize = 2
  MaxTokens = 6
  Window <- NoWindow
  MaxDraft = 2
  TrainedRows = 2
  Kinds = {"exact", "history", "parallel"}
  Prompts = {1}
  MaxCursor = 2
INVARIANT TypeOK
INVARIANT RefcountExact
INVARIANT Conserved
INVARIANT RowsIntact
INVARIANT HashedRight
INVARIANT Covered
INVARIANT Paired
PROPERTY CancelWins
CHECK_DEADLOCK FALSE
