SPECIFICATION Spec
CONSTANTS
  Peers <- MCPeers
  Calls <- NoCalls
  First <- Middle
  Wrap = 16
  MaxRetries = 2
  MaxSends <- SendEach
PROPERTY StopAcked
CHECK_DEADLOCK FALSE
