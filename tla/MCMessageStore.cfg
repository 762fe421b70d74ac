SPECIFICATION FairSpec
CONSTANTS
  Workers = {w1, w2}
  Rooms = {r1, r2}
  Keys = {k1, k2}
  Payloads = {p1, p2}
  NoRequest = NoRequest
INVARIANTS
  Gapless
  AcceptedOnce
  OutboxMatchesHistory
  AckedIsCommitted
  ConflictFindsMessage
PROPERTY
  ImplementsRoomLog
  AcceptReturns
