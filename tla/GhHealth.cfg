\* Two callers with hooks, one watcher, and intervals long enough for a timer
\* to fire early and for the slow tier to differ from the fast one.
SPECIFICATION HealthLiveSpec
CONSTANTS
  Callers = {poll, sync, watch}
  Hooked = {poll, sync}
  Watchers = {watch}
  Fast = 2
  Slow = 3
  FastRetries = 1
  MaxStray = 2
INVARIANTS
  RefusedAreDrivenOnce
PROPERTIES
  RefusedAreWoken
CHECK_DEADLOCK FALSE
