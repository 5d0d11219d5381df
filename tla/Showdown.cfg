\* Every showdown of five players with stakes 0, 3, 4 and 5, and every deal of SmallDeals.
SPECIFICATION ShowdownSpec
CONSTANTS
  MaxPlayerNumber = 5
  ChipMod = 64
  MaxStake = 5
  Stakes <- SomeStakes
  Rankings <- SomeRankings
  Deals <- SmallDeals
INVARIANTS WholePotDivided OutplayedGetNothing BestHandIsPaid OnlyTheLastIsCut FiveByTheRules BestByTheRules
\* One computation per behaviour.
CHECK_DEADLOCK FALSE
