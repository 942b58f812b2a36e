\* Backpressure, spool, replay and failed deliveries; no crash, no shutdown.
CONSTANTS
  Shards = {s1, s2}
  Metrics = mx
  NoMsg = none
  MaxEvents = 2
  MaxMetrics = 0
  QueueCap = 1
  SpoolCap = 2
  ClientCap = 1
  Modes = {"strict", "drop-oldest", "drop-newest"}
  SpoolOptions = {TRUE}
  BreakerOptions = {TRUE}
  MaxFaults = 1
  MaxDiskFaults = 0
  MaxCrashes = 0
  MayStop = FALSE
  FlushMayTimeout = FALSE
SYMMETRY ShardSymmetry
SPECIFICATION Spec
INVARIANTS TypeOK NoSilentLoss OneCopy UnspooledInOrder
\* once every event is delivered or dropped the agent has nothing to do
CHECK_DEADLOCK FALSE
