SPECIFICATION Spec
CONSTANTS
  Rooms = {r1}
  Clients = {1, 2, 3}
  Browsers = {}
  Workers = {1, 2}
  Streams = {1}
  Capacities <- SmallWorker
  Grace = 1
  Dwell = 1
  MaxQueued = 0
  MaxSignals = 0
  Failable = {}
  MaxLifecycles = 8
INVARIANT LifecycleFresh
INVARIANT SfuMembersJoined
INVARIANT RequestsAwaited
INVARIANT BarrierCommand
INVARIANT WorkerBooks
INVARIANT LoadNotOvercounted
CONSTRAINT ReassignBound
VIEW OpenOnly
