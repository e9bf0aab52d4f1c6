CONSTANTS
  NFiles = 3
  NRows = 2
  NPipes = 2
  Bulk = {2}
  PoolSize = 2
  Faults = {"setup", "read", "row", "write", "slow"}
  None = None
SPECIFICATION FairSpec
INVARIANTS TypeOK NothingLost RowCarriesItsFile CompleteWhenInTime
PROPERTIES EveryImportEnds
CHECK_DEADLOCK FALSE
