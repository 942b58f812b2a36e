\* An outage that may end or not, a failing spool write, and SIGTERM at any time.
CONSTANTS
  Shards = {s1, s2}
  Metrics = mx
  NoMsg = none
  MaxEvents = 1
  MaxMetrics = 0
  QueueCap = 1
  SpoolCap = 4
  ClientCap = 1
  Modes = {"strict", "drop-oldest", "drop-newest"}
  SpoolOptions = {TRUE}
  BreakerOptions = {TRUE}
  MaxFaults = 1
  MaxDiskFaults = 1
  MaxCrashes = 0
  MayStop = TRUE
  FlushMayTimeout = TRUE
SPECIFICATION AgentSpec
INVARIANTS ClosedQueueIsEmpty
PROPERTIES EventuallyDelivered ReadinessReturns ShutdownCompletes
\* the process ends
CHECK_DEADLOCK FALSE
