\* Responses longer than an event: read by a client, or naming a method.
CONSTANTS
  Profiles <- LongResponses
  Roles = {"server", "client"}
  MaxChunk = 2
  MaxWire = 2
  MaxStreamTokens = 8
  MaxSessions = 2
  MayExpire = FALSE
  Budget <- NoFaults
SPECIFICATION Spec
INVARIANTS AllEmitted
\* the connection ends
CHECK_DEADLOCK FALSE
