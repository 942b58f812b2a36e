\* TLS on reused descriptors; a close under a blocked read; buffers, filters and rings at their limits.
CONSTANTS
  Cpus = {c1}
  Listener = 4
  NoPort = NoPort
  ListenPort = 5000
  MAX_PAYLOAD_SIZE = 2
  MAX_PAYLOAD_CHUNKS = 2
  MAX_IOVEC_SEGMENTS = 2
  Workloads <- Applications
SPECIFICATION Spec
INVARIANTS KernelInv GenerationIsOneConnection MetadataIsOwn LossIsExplicit NothingCapturedTwice
\* the application may stop calling
CHECK_DEADLOCK FALSE
