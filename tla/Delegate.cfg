\* Up to three tasks, or two and a re-attached process (MaxWork): the queue and
\* the slots, the life of sessions and processes, the abstract promise.
SPECIFICATION LiveSpec
CONSTANTS
  MaxTasks = 3
  MaxReattach = 2
  MaxWork = 3
  MaxLimit = 2
  MaxOverlap = 1
INVARIANTS
  SlotAccounting
  NoLostWakeup
  SessionsMatchTheirProcesses
PROPERTIES
  CancelIsTerminal
  ImplementsAdmission
  StartsSettle
CHECK_DEADLOCK FALSE
