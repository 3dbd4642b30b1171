SPECIFICATION Spec
CONSTANTS
  Rooms = {r1}
  Clients = {1, 2, 3}
  Browsers = {1, 2}
  Workers = {1}
  Streams = {1}
  Capacities <- SmallWorker
  Grace = 1
  Dwell = 1
  MaxQueued = 1
  MaxSignals = 1
  Failable = {}
  MaxLifecycles = 6
INVARIANT TypeOK
INVARIANT SoleInitiator
INVARIANT QueuedForAbsentPeer
PROPERTY AdmissionInCommittedMode
