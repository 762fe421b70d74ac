SPECIFICATION FairSpec
CONSTANTS
  Clients = {c1, c2}
  r1 = r1
  Rooms <- MCRooms
  RoomOf <- MCRoomOf
  Designs = {"single", "naive"}
  SendBuffer = 1
  MaxMessages = 3
INVARIANTS
  NoSendOnClosed
  NeverDropped
PROPERTIES
  DeadWritersRemoved
CHECK_DEADLOCK FALSE
