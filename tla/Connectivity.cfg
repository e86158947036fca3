SPECIFICATION Spec
CONSTANTS
  n1 = n1
  n2 = n2
  n3 = n3
  Nodes = {n1, n2, n3}
  Word = 65536
  kvstoreMaxTxsByKeySuffixLen <- ShortTable
  Configs <- MinimumTwo
  InitialLinks <- Networks
  MaxFaults = 0
  MaxGrowth = 0
INVARIANT ConnectivityHolds
