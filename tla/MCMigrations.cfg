SPECIFICATION FairSpec
CONSTANTS
  Servers = {s1, s2, s3}
  Migrations = 3
  MaxFaults = 3
INVARIANTS
  AppliedOnce
  NoCollision
  InOrder
PROPERTIES
  AllServe
