SPECIFICATION FairSpec
CONSTANTS
  r1 = r1
  c1 = c1
  c2 = c2
  loopback = loopback
  Rooms = {r1}
  Clients = {c1, c2, loopback}
  Loopback = loopback
  Timeout = 2
  MaxQueued = 2
  MaxSent = 3
INVARIANTS
  TypeOK
  Capacity
  TimeoutIffUnregistered
  OneInitiator
  QueuedWhileAlone
  InOrderOnce
PROPERTY ReturnsOrGoes
