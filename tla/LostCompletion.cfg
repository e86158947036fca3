SPECIFICATION FairSpec
CONSTANTS
  w1 = w1
  w2 = w2
  w3 = w3
  i1 = i1
  i2 = i2
  NoConn = NoConn
  NoId = NoId
  Conns = {w1}
  Ids = {w1}
  IdOf <- OwnId
  ExpectWorkers = 1
  ExpectPeers = 0
  MaxTx = 1
  MaxInFlight = 1
  MaxFaults = 0
PROPERTIES CompletionEndsTest
