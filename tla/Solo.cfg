SPECIFICATION FairSpec
CONSTANTS
  w1 = w1
  w2 = w2
  w3 = w3
  i1 = i1
  i2 = i2
  NoConn = NoConn
  NoId = NoId
  Conns = {w1}
  Ids = {w1}
  IdOf <- OwnId
  ExpectWorkers = 1
  ExpectPeers = 1
  MaxTx = 1
  MaxInFlight = 1
  MaxFaults = 2
INVARIANTS TypeOK CtrlNeverBlocks GaugeTellsResult StatsExact
PROPERTIES ImplementsFairLoadTest InterruptEndsRun FailureEndsTest NoOrphans
