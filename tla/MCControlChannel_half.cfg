SPECIFICATION Spec
CONSTANTS
  Peers <- MCPeers
  Calls <- TwoCalls
  First <- Middle
  Wrap = 16
  MaxRetries = 2
  MaxSends <- NoSend
INVARIANT NoHalfOpenCall
CHECK_DEADLOCK FALSE
