SPECIFICATION FairSpec
CONSTANTS
  n1 = n1
  n2 = n2
  n3 = n3
  Nodes = {n1, n2, n3}
  Word = 65536
  kvstoreMaxTxsByKeySuffixLen <- ShortTable
  Configs <- AllConfigs
  InitialLinks <- Networks
  MaxFaults = 1
  MaxGrowth = 1
INVARIANTS TypeOK LoadedAsSelected PeersAreReal
PROPERTIES CrawlEnds InterruptEndsCrawl ReadyNetworkFound
