\* The clock as Application::Run drives it: every update passes ts = 0.
SPECIFICATION LoopSpec
CONSTANTS
  MaxPlayerNumber = 3
  ChipMod = 32
  SmallBet = 1
  GreatBet = 2
  BuyIn = 4
  ActionTimeout = 2
  TickLength = 0
  RaiseAmounts = {3}
  Rankings <- FewRankings
  MaxHands = 1
  MaxActs = 2
  MaxRaises = 1
PROPERTIES TurnResolved
CHECK_DEADLOCK FALSE
