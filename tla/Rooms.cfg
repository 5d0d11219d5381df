\* Two rooms and two clients that may be in both; account ids are client ids, so that
\* those who leave are removed and empty rooms erased.
SPECIFICATION Spec
CONSTANTS
  Client = {1, 2}
  AccountOf <- SameAccounts
  RoomIdMod = 4
  MaxPlayers = {3}
  Late = {}
  MaxRooms = 2
INVARIANTS Custody DirectoryIsLive
PROPERTIES BarrierSpec
CHECK_DEADLOCK FALSE
