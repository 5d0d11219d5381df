\* Two connections, both sending; Receive may report errors; the server may stop.
SPECIFICATION FairSpec
CONSTANTS
  Client = {1, 2}
  Talkers = {1, 2}
  MaxPerFrame = 1
  ErrorsSeen = TRUE
  MaxPackets = 2
INVARIANTS LostOnlyInRaces NoThreadOutlives ReportedGoneOnce
PROPERTIES FrameEnds
CHECK_DEADLOCK FALSE
