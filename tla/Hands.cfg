\* Hands of five cards out of six: all that the generator can give.
SPECIFICATION FairSpec
CONSTANTS
  CardNum = 6
  Drawn = 5
  Rands = {0, 1, 2, 3, 4, 5}
  ConfigFile <- SmallFile
  AssertsCompiled = TRUE
INVARIANTS NoTwoAlike
PROPERTIES HandIsDealt
