SPECIFICATION Spec
CONSTANTS
  t1 = t1
  t2 = t2
  Transactors = {t1}
  Rate = 2
  Count = 3
  MaxSent = 3
  MaxFaults = 1
INVARIANTS SentWithinLimit
