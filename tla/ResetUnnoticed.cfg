\* One connection, and Receive reports no errors, as in the source.
SPECIFICATION FairSpec
CONSTANTS
  Client = {1}
  Talkers = {1}
  MaxPerFrame = 1
  ErrorsSeen = FALSE
  MaxPackets = 1
PROPERTY ResetIsNoticed
CHECK_DEADLOCK FALSE
