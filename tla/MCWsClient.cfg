SPECIFICATION FairClientSpec
CONSTANTS
  Workers = {w1, w2, w3, w4}
  Clients = {c1, c2}
  r1 = r1
  Rooms <- MCRooms
  Keys <- MCKeys
  RoomOf <- MCRoomOf
  Payloads = {p1}
  NoRequest = NoRequest
  NoConn = NoConn
  MaxFaults = 2
INVARIANTS
  ToldIsStored
PROPERTIES
  EveryClientAnswered
CHECK_DEADLOCK FALSE
