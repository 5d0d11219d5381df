\* One room for three clients whose account ids are no client ids, as accounts are, under
\* the main loop and with clients that answer.
SPECIFICATION FairSpec
CONSTANTS
  Client = {1, 2, 3}
  AccountOf <- OtherAccounts
  RoomIdMod = 4
  MaxPlayers = {0, 2, 4}
  Late = {1, 2, 3}
  MaxRooms = 1
INVARIANTS OnePlayerPerClient EverybodySeated
PROPERTIES HeldUpByLeavingOnly FreshReadiness BarrierOpens
CHECK_DEADLOCK FALSE
