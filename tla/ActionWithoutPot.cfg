\* An action that arrives when a hand is over, or not yet started.
SPECIFICATION Spec
CONSTANTS
  MaxPlayerNumber = 3
  ChipMod = 32
  SmallBet = 1
  GreatBet = 2
  BuyIn = 4
  ActionTimeout = 2
  TickLength = 1
  RaiseAmounts = {1, 3}
  Rankings <- AllRankings
  MaxHands = 2
  MaxActs = 4
  MaxRaises = 1
INVARIANTS BettorHasPot
\* The system stops when the process dies, and the exploration at its bounds.
CHECK_DEADLOCK FALSE
