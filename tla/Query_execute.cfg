SPECIFICATION Spec
CONSTANTS
  Literals <- MCLiterals
  Strays = {"?"}
  Broken = {"'"}
  MaxInt = 5
  StreamThreshold = 3
  Statements <- MCStatements
  Words <- MCWords
  Careless <- MCCareless
  MaxLeafKeys = 2
  Counter = 16
  MaxRows = 4
CHECK_DEADLOCK FALSE
INVARIANTS
  TypeOK
  SelectExact
  DmlExact
  RefusedCleanly
  RoundTrip
  AcceptedMeansWritten
