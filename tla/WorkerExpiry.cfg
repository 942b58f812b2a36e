\* Sessions expire under the consumer; a close event may be lost.
CONSTANTS
  Profiles <- ShortConnections
  Roles = {"server"}
  MaxChunk = 2
  MaxWire = 2
  MaxStreamTokens = 4
  MaxSessions = 3
  MayExpire = TRUE
  Budget <- OneLost
SPECIFICATION LiveSpec
INVARIANTS EmittedOnce
PROPERTIES SessionsReclaimed
CHECK_DEADLOCK FALSE
