SPECIFICATION FairSpec
CONSTANTS
  Rooms = {r1}
  Clients = {1, 2, 3}
  Browsers = {1}
  Workers = {1}
  Streams = {1, 2}
  Capacities <- SmallWorker
  Grace = 1
  Dwell = 1
  MaxQueued = 0
  MaxSignals = 0
  Failable = {}
  MaxLifecycles = 5
PROPERTY UpgradeResolves
PROPERTY GraceEnds
INVARIANT GateInFlight
PROPERTY CurrentStreamKept
