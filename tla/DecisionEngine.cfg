CONSTANTS
  q1 = q1  q2 = q2  q3 = q3  a = a  b = b  c = c
  NoKey = NoKey  Closer = Closer  Free = Free
  Questions <- ThreeQuestions
  Keys <- ThreeKeys
  MaxActive = 2
  MaxCached = 2
SPECIFICATION FairSpec
CHECK_DEADLOCK FALSE
INVARIANT TypeOK
INVARIANT LeasesExact
INVARIANT InUse
INVARIANT IdleFound
INVARIANT IdleTimed
INVARIANT Resident
PROPERTY Closes
