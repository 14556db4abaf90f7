\* Two identities of processes show whether a second one is ever alive; a third
\* turn lets a cancel be older than the previous turn.
SPECIFICATION LiveSpec
CONSTANTS
  Children = {c1, c2}
  Hooks = {h}
  Selections = {s1, s2}
  MaxTurns = 3
  None = None
INVARIANTS
  OneOwnedChild
PROPERTIES
  TextReachesAFitChild
  NothingAllowedAfterCancel
  EndsAreReached
CHECK_DEADLOCK FALSE
