SPECIFICATION Spec
CONSTANTS
  t1 = t1
  t2 = t2
  Transactors = {t1, t2}
  Rate = 2
  Count = 3
  MaxSent = 3
  MaxFaults = 2
SYMMETRY TransactorSymmetry
INVARIANTS TypeOK NeverOverclaims CountWithinLimit FinalCountsExact ErrorsSurface
PROPERTY ProgressMonotone
