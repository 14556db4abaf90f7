SPECIFICATION HooksSpec
CONSTANTS
    Notifiers = {n1}
    Numbers = {1, 2}
    Chunk = 2
    WatchMax = 2
    MinInterval = 1
    MaxTime = 4
    MaxChanges = 2
INVARIANTS
    WatchIsBounded
    TheAgentIsUpToDate
CHECK_DEADLOCK FALSE
