SPECIFICATION Spec
CONSTANTS
  max_leaf_keys = 1
  max_internal_keys = 2
  Keys = {1, 2}
  NullKey = NullKey
  MaxRows = 7
  MaxEvents = 2
CHECK_DEADLOCK FALSE
INVARIANTS
  TypeOK
  TreeSound
  FindMatchesScan
  IndexCoversRows
  UniqueHolds
