SPECIFICATION Spec
CONSTANTS
  Lanes = {1}
  Blocks <- BlocksOf
  BlockSize = 2
  MaxTokens = 8
  Window <- ProposerWindow
  MaxDraft = 1
  TrainedRows = 1
  Kinds = {"parallel"}
  Prompts = {1, 2}
  MaxCursor = 6
INVARIANT Conserved
CHECK_DEADLOCK FALSE
