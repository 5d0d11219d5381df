\* Two seats, several hands with uneven stacks: blinds that put a player all in.
SPECIFICATION Spec
CONSTANTS
  MaxPlayerNumber = 3
  ChipMod = 32
  SmallBet = 1
  GreatBet = 2
  BuyIn = 4
  ActionTimeout = 2
  TickLength = 1
  RaiseAmounts = {1, 3}
  Rankings <- AllRankings
  MaxHands = 2
  MaxActs = 8
  MaxRaises = 1
INVARIANTS TypeOK NoStall Custody ShowdownOnFullBoard
PROPERTIES ChipsConserved
\* The system stops when the process dies, and the exploration at its bounds.
CHECK_DEADLOCK FALSE
