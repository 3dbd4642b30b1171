SPECIFICATION Spec
CONSTANTS
  k1 = k1
  k2 = k2
  Conns = {k1, k2}
  RoomsV1 = {r1}
  ClientsV1 = {1, 2}
  Loopback = 2
  Timeout = 1
  MaxQueued = 1
  MaxSent = 1
  RoomsV2 = {r2}
  ClientsV2 = {1, 2, 3}
  MaxEpoch = 2
SYMMETRY ConnSymmetry
CONSTRAINT OneTableBusy
INVARIANTS
  TypeOK
  V1Exact
  V2Reachable
  LiveSessionsRegistered
  SocketsAccounted
