SPECIFICATION FairDelivery
CONSTANTS
  Rooms = {r1}
  Partitions = {p1}
  PartitionOf <- OnePartition
  Members = {m1, m2}
  Instances = {i1, i2}
  MaxSeq = 3
  MaxRecords = 3
  MaxFailures = 1
INVARIANTS
  CommittedIsHandled
  SteadyMissNothing
  RoomsInOrder
PROPERTIES
  EventuallyCommitted
CHECK_DEADLOCK FALSE
