SPECIFICATION Spec
CONSTANTS
  c1 = c1
  c2 = c2
  alice = alice
  i1 = i1
  r1 = r1
  r2 = r2
  Conns = {c1, c2}
  ClientOf <- OneClient
  InstanceOf <- OneInstance
  RoomsOf <- Subscriptions
  Instances = {i1}
  NoInstance = none
  Keys <- AllKeys
  Rooms = {r1, r2}
  connTTL = 4
  pingPeriod = 2
  writeTimeout = 1
  pingTimeout = 1
  MaxFaults = 0
INVARIANTS
  ReconnectedIsRegistered
