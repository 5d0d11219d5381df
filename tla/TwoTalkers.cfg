\* Two connections send, as clients of the source do.
SPECIFICATION Spec
CONSTANTS
  Client = {1, 2}
  Talkers = {1, 2}
  MaxPerFrame = 1
  ErrorsSeen = FALSE
  MaxPackets = 1
INVARIANT NothingLost
CHECK_DEADLOCK FALSE
