SPECIFICATION FairSpec
CONSTANTS
  x1 = x1
  x2 = x2
  x3 = x3
  Txns = {x1, x2}
  NoTxn = NoTxn
  MaxLsn = 6
  SegSize = 2
  MaxCrashes = 2
  MaxFaults = 0
  PowerLoss = FALSE
  TornWrites = FALSE
INVARIANTS
  LogDense
PROPERTIES
  CommitReturns
  ImplementsAbstractLog
CHECK_DEADLOCK FALSE
