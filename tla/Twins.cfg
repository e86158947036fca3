SPECIFICATION Spec
CONSTANTS
  w1 = w1
  w2 = w2
  w3 = w3
  i1 = i1
  i2 = i2
  NoConn = NoConn
  NoId = NoId
  Conns = {w1, w2, w3}
  Ids = {i1, i2}
  IdOf <- TwinIds
  ExpectWorkers = 2
  ExpectPeers = 0
  MaxTx = 0
  MaxInFlight = 1
  MaxFaults = 0
SYMMETRY TwinSymmetry
VIEW LiveState
INVARIANT SuccessIsUnanimous
PROPERTY ImplementsLoadTest
