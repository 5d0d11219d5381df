\* Three seats under the main loop, a whole hand through all four betting rounds.
SPECIFICATION LoopSpec
CONSTANTS
  MaxPlayerNumber = 4
  ChipMod = 32
  SmallBet = 1
  GreatBet = 2
  BuyIn = 8
  ActionTimeout = 2
  TickLength = 1
  RaiseAmounts = {4}
  Rankings <- FewRankings
  MaxHands = 1
  MaxActs = 10
  MaxRaises = 1
INVARIANTS IInv PotIsSumOfStakes
PROPERTIES OutStaysOut NobodyElsesMoney RoundEndsAnswered RoundEndsEven TurnPasses FlowSpec TurnResolved SilentHandEnds
\* The system stops when the process dies, and the exploration at its bounds.
CHECK_DEADLOCK FALSE
