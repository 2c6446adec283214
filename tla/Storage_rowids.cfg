SPECIFICATION Spec
CONSTANTS
  x1 = x1
  x2 = x2
  x3 = x3
  x4 = x4
  p1 = p1
  p2 = p2
  p3 = p3
  a = a
  b = b
  Txns = {x1, x2, x3}
  NoTxn = NoTxn
  Pages = {p1, p2}
  NoPage = NoPage
  Vals = {a, b}
  PageCap = 1
  Statements = {"insert", "update", "delete"}
  Evictions = "clean"
  MaxLsn = 12
  Counter = 8
  MaxTargets = 2
  MaxCrashes = 1
  MaxThrows = 0
  MaxEvicts = 0
SYMMETRY Symmetry
CHECK_DEADLOCK FALSE
INVARIANT CommittedRecovered
