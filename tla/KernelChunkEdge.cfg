\* A write longer than a chunk.
CONSTANTS
  Cpus = {c1}
  Listener = 4
  NoPort = NoPort
  ListenPort = 5000
  MAX_PAYLOAD_SIZE = 2
  MAX_PAYLOAD_CHUNKS = 2
  MAX_IOVEC_SEGMENTS = 2
  Workloads <- OneLongWrite
SPECIFICATION Spec
INVARIANTS ReconstructsCompletely
\* the application may stop calling
CHECK_DEADLOCK FALSE
