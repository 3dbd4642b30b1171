SPECIFICATION Spec
CONSTANTS
  Rooms = {r1}
  Clients = {1, 2, 3}
  Browsers = {1, 2, 3}
  Workers = {1}
  Streams = {1}
  Capacities <- SmallWorker
  Grace = 1
  Dwell = 1
  MaxQueued = 0
  MaxSignals = 0
  Failable = {}
  MaxLifecycles = 6
INVARIANT DwellStable
