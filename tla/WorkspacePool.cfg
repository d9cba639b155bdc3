CONSTANTS
  l1 = l1  l2 = l2  k1 = k1  k2 = k2
  NoLease = NoLease
  Lease <- TwoLeases
  Key <- TwoKeys
  Bytes <- TwoSizes
  IdleLimit <- Limits
  Memory = 3
  MaxUsize = 3
  MaxU64 = 3
  MaxRequests = 2
SPECIFICATION FairSpec
INVARIANT TypeOK
INVARIANT Accounted
INVARIANT IdleCapped
PROPERTY LruStable
PROPERTY LeaseSpec
PROPERTY Completes
