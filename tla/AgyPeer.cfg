\* Three frames, of one byte, of the greatest length and beyond it, in any chunks.
SPECIFICATION PeerLiveSpec
CONSTANTS
  MaxMessages = 3
  MaxPerChunk = 2
  MaxFrame = 2
  HasDeadline = TRUE
INVARIANTS
  EveryRequestIsAnswered
  CleanExitLeavesNothing
PROPERTIES
  HandledInOrder
  ShutdownEnds
CHECK_DEADLOCK FALSE
