CONSTANTS
  c1 = c1  c2 = c2  c3 = c3  p = p  q = q  x = x  y = y
  NoCall = NoCall  NoLane = NoLane
  Calls <- ThreeCalls
  Prompt <- TwoPrompts
  Lanes <- TwoLanes
  Budget = 3
  MaxPage = 2
  PrefillStages = 1
  DraftStages = 1
  MaxSequences = 2
  MaxRounds = 4
SPECIFICATION Spec
SYMMETRY FullSymmetry
CHECK_DEADLOCK FALSE
INVARIANT TypeOK
INVARIANT ReceiptWaits
INVARIANT Durable
INVARIANT SessionsAgree
INVARIANT LanesDistinct
INVARIANT SelectedLive
INVARIANT CursorMatches
PROPERTY StreamSpec
