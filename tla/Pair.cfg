SPECIFICATION Spec
CONSTANTS
  w1 = w1
  w2 = w2
  w3 = w3
  i1 = i1
  i2 = i2
  NoConn = NoConn
  NoId = NoId
  Conns = {w1, w2}
  Ids = {w1, w2}
  IdOf <- OwnId
  ExpectWorkers = 2
  ExpectPeers = 0
  MaxTx = 0
  MaxInFlight = 1
  MaxFaults = 1
SYMMETRY ConnSymmetry
VIEW LiveState
INVARIANTS SuccessIsUnanimous StartBarrier
PROPERTY ImplementsLoadTest
