\* HTTP/1, HTTP/2 and TLS connections through the combined binary.
CONSTANTS
  Scenarios <- Instances
  Shards = {1, 2}
  MaxChunk = 2
  MaxRing = 2
  ChannelSize = 1
  MaxStreamTokens = 5
  MaxSessions = 3
SPECIFICATION Spec
INVARIANTS CaptureInv PairingExact AllEmitted DamageIsFlagged EmittedOnce UnwantedStaysOut
\* the connection ends, and the binary
CHECK_DEADLOCK FALSE
