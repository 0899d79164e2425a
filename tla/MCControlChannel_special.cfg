SPECIFICATION Spec
CONSTANTS
  Peers <- MCPeers
  Calls <- OneCall
  First <- Middle
  Wrap = 16
  MaxRetries = 2
  MaxSends <- SendEach
INVARIANT NothingLost
CHECK_DEADLOCK FALSE
