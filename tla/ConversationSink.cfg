\* Every output configuration; both goroutines emit; the backend, the brokers and the disk may fail; SIGTERM.
CONSTANTS
  Conv = {c1, c2, c3}
  NoConv = none
  MaxRetries = 1
  MaxFaults = 2
  Configs <- Lines
SPECIFICATION Spec
INVARIANTS SinkInv EndpointIsConfigured
PROPERTIES SinkKeepsPromise SinkNeverHangs
\* the process ends
CHECK_DEADLOCK FALSE
