SPECIFICATION FairSpec
CONSTANTS
  Conns = {c1}
  NoConn = NoConn
  MaxAsked = 5
  MaxUnread = 2
  MaxChunks = 2
CHECK_DEADLOCK FALSE
INVARIANTS
  TypeOK
  AnswersInOrder
  FramesWhole
  CancelBound
  DatabaseKept
PROPERTIES
  Served
  SessionEnds
