SPECIFICATION HistorySpec
CONSTANTS
  Writers = {w1, w2}
  Rooms = {r1}
  Users = {u1}
  Relays = {k1, k2}
  Designs = {"single", "naive"}
  BatchSize = 2
  MaxInserts = 2
  MaxFaults = 2
  PageSize = 1
INVARIANTS
  DeliveredIsStored
  StampedIsDelivered
  SenderOrder
  RepeatsNeedFailures
  NothingMissed
PROPERTIES
  NeverStranded
CHECK_DEADLOCK FALSE
