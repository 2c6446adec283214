SPECIFICATION Spec
CONSTANTS
  Names = {"t", "u"}
  MaxIds = 6
  MaxLog = 14
  MaxCrashes = 2
CHECK_DEADLOCK FALSE
INVARIANTS
  TypeOK
  CatalogRecovered
  IndexFilesPresent
  RecoverySucceeds
  StoredReadsBack
PROPERTIES
  RecoveryEnds
