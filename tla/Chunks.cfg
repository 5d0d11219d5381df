\* Messages in chunks of every size up to more than one message, and clients that leave the
\* header out of the length they state, or state too much.
SPECIFICATION FairSpec
CONSTANTS
  LengthSize = 4
  HeaderSize = 6
  ChunkSize = 8
  Sizes = {6, 7}
  WrongLengths = {0, 1, 8}
  Strays = {0, 5, 6, 7, 30}
  MaxMessages = 3
PROPERTIES ChannelSpec AllCut
CHECK_DEADLOCK FALSE
