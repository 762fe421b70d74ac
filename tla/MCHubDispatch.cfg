SPECIFICATION FairSpec
CONSTANTS
  Blank = Blank
  Conns = {c1, c2}
  Senders = {c1}
  ChanSize = 1
  SendBuffer = 1
  MaxEvents = 2
  MaxRequests = 2
INVARIANTS
  EventsInOrder
  RequestsAnswered
PROPERTIES
  LeavesUnlessStuck
CHECK_DEADLOCK FALSE
