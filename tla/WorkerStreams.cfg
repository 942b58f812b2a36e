\* Every way to cut connections into events; lost, late, duplicated and truncated events.
CONSTANTS
  Profiles <- Connections
  Roles = {"server"}
  MaxChunk = 4
  MaxWire = 2
  MaxStreamTokens = 4
  MaxSessions = 3
  MayExpire = FALSE
  Budget <- EachOnce
SPECIFICATION Spec
INVARIANTS TypeOK PairingExact AllEmitted DamageIsFlagged
\* the connection ends
CHECK_DEADLOCK FALSE
