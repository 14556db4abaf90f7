\* One slot, two tasks, two crashes, and writes that may lag behind.
SPECIFICATION LiveSpec
CONSTANTS
  MaxTasks = 2
  Limit = 1
  MaxCrashes = 2
  MaxWrites = 2
INVARIANTS
  FilesAreConsistent
PROPERTIES
  NothingIsLost
  DeadTurnsSettle
CHECK_DEADLOCK FALSE
