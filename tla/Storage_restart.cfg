SPECIFICATION FairSpec
CONSTANTS
  x1 = x1
  x2 = x2
  x3 = x3
  x4 = x4
  p1 = p1
  p2 = p2
  p3 = p3
  a = a
  b = b
  Txns = {x1, x2}
  NoTxn = NoTxn
  Pages = {p1, p2}
  NoPage = NoPage
  Vals = {a}
  PageCap = 1
  Statements = {"insert", "update", "delete"}
  Evictions = "clean"
  MaxLsn = 8
  Counter = 8
  MaxTargets = 2
  MaxCrashes = 2
  MaxThrows = 1
  MaxEvicts = 1
PROPERTY RecoveryEnds
CHECK_DEADLOCK FALSE
