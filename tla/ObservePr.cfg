\* One run on two commits, two entries, two calls of gh at once; two pull
\* requests, one of which the agent asks to observe.
SPECIFICATION MCSpec
CONSTANTS
  Runs = {r1}
  MaxHead = 2
  MaxEntries = 2
  MaxCalls = 2
  None = None
  PullRequests = {p1, p2}
  Requested = {p1}
INVARIANTS
  ActiveRunsAreDriven
  NoticesArrive
PROPERTIES
  PassIsNews
  StopsStick
CHECK_DEADLOCK FALSE
