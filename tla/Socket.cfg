SPECIFICATION FairSpec
CONSTANTS
  Owner = owner
  Reporter = reporter
  Cap = 2
  OwnerWrites = 2
  ReporterWrites = 1
  MaxReads = 2
  MaxIncoming = 2
INVARIANTS TypeOK OneReader ReadsAccounted NothingLeftBehind
PROPERTIES ImplementsLink StopReturns
