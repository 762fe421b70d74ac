SPECIFICATION FairSpec
CONSTANTS
  Relays = {k1, k2}
  Rooms = {r1, r2}
  Partitions = {1}
  PartitionOf <- OnePartition
  BatchSize = 2
  MaxRetries = 2
  Stamps = {1}
  Sizes = {"fits", "large"}
  MaxSeq = 2
  MaxFaults = 1
INVARIANTS
  PublishedInKafka
PROPERTIES
  ImplementsRoomTopic
  EventuallyPublished
CHECK_DEADLOCK FALSE
