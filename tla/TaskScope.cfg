\* Two keys, and three runs alive at once: a round of each key
\* and one more, or a round and two that belong to sessions that are over.
SPECIFICATION LiveSpec
CONSTANTS
  Keys = {k1, k2}
  Plain = Plain
  Run = {r1, r2, r3}
  NoRun = NoRun
PROPERTIES
  ImplementsCoalescing
  RequestsAreAnswered
CHECK_DEADLOCK FALSE
