CONSTANTS
  c1 = c1  c2 = c2  c3 = c3  p = p  q = q  x = x  y = y
  NoCall = NoCall  NoLane = NoLane
  Calls <- TwoCalls
  Prompt <- OnePrompt
  Lanes <- OneLane
  Budget = 3
  MaxPage = 2
  PrefillStages = 1
  DraftStages = 1
  MaxSequences = 1
  MaxRounds = 3
SPECIFICATION FairSpec
CHECK_DEADLOCK FALSE
PROPERTY Settles
