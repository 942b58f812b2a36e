\* A crash, also in the middle of a spool write, and the restart; spool writes may fail; metrics.
CONSTANTS
  Shards = {s1}
  Metrics = mx
  NoMsg = none
  MaxEvents = 2
  MaxMetrics = 1
  QueueCap = 1
  SpoolCap = 2
  ClientCap = 2
  Modes = {"drop-oldest", "best-effort"}
  SpoolOptions = {TRUE, FALSE}
  BreakerOptions = {TRUE, FALSE}
  MaxFaults = 1
  MaxDiskFaults = 1
  MaxCrashes = 1
  MayStop = FALSE
  FlushMayTimeout = FALSE
SPECIFICATION Spec
INVARIANTS OneCopy
PROPERTIES ProducerKeepsPromise
CHECK_DEADLOCK FALSE
