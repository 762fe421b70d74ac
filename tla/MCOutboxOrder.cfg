SPECIFICATION Spec
CONSTANTS
  Writers = {w1, w2}
  Rooms = {r1}
  Users = {u1}
  Relays = {k1}
  Designs = {"single"}
  BatchSize = 2
  MaxInserts = 2
  MaxFaults = 0
INVARIANTS
  RoomOrder
CHECK_DEADLOCK FALSE
