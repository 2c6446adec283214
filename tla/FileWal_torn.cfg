SPECIFICATION Spec
CONSTANTS
  x1 = x1
  x2 = x2
  x3 = x3
  Txns = {x1, x2, x3}
  NoTxn = NoTxn
  MaxLsn = 5
  SegSize = 2
  MaxCrashes = 1
  MaxFaults = 0
  PowerLoss = FALSE
  TornWrites = TRUE
SYMMETRY TxnSymmetry
CHECK_DEADLOCK FALSE
INVARIANT CommitLsnDurable
