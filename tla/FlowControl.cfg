\* Two goroutines, two connections on one descriptor, configurations that change.
CONSTANTS
  Shards = {s1, s2}
  NoConn = none
  Conns <- TwoConnections
  Configs <- TwoConfigs
  MaxEvents = 1
  MaxFaults = 2
SYMMETRY ShardSymmetry
SPECIFICATION Spec
INVARIANTS TypeOK MetadataIsOwn KernelTupleIsOwn FlowIsWhole DecisionsAreCurrent ConfigIsWhole
\* the descriptor's connections end
CHECK_DEADLOCK FALSE
