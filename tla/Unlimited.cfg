SPECIFICATION FairSpec
CONSTANTS
  t1 = t1
  t2 = t2
  Transactors = {t1, t2}
  Rate = 2
  Count <- Unlimited
  MaxSent = 2
  MaxFaults = 1
INVARIANTS NeverOverclaims FinalCountsExact ErrorsSurface
PROPERTY WaitEnds
