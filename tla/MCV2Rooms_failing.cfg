SPECIFICATION Spec
CONSTANTS
  Rooms = {r1}
  Clients = {1, 2, 3}
  Browsers = {1}
  Workers = {1, 2}
  Streams = {1}
  Capacities <- SmallWorker
  Grace = 1
  Dwell = 1
  MaxQueued = 0
  MaxSignals = 0
  Failable = {r1}
  MaxLifecycles = 10
INVARIANT P2pCapacity
INVARIANT BarrierRevocable
INVARIANT UpgradeOnBooks
INVARIANT DwellOnlyWhileSmall
INVARIANT PollExact
PROPERTY EpochPerCommit
PROPERTY Implements
CONSTRAINT FailingBound
VIEW TableOnly
