SPECIFICATION Spec
CONSTANTS
  x1 = x1
  x2 = x2
  x3 = x3
  Txns = {x1, x2, x3}
  NoTxn = NoTxn
  MaxLsn = 5
  SegSize = 2
  MaxCrashes = 2
  MaxFaults = 1
  PowerLoss = TRUE
  TornWrites = TRUE
SYMMETRY TxnSymmetry
INVARIANTS
  TypeOK
  LsnUnique
  AckedDurable
  PrevChain
  FlushHoldsDbMutex
CHECK_DEADLOCK FALSE
