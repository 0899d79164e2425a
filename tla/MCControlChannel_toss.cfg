SPECIFICATION Spec
CONSTANTS
  Peers <- MCPeers
  Calls <- NoCalls
  First <- AtWrap
  Wrap = 8
  MaxRetries = 2
  MaxSends <- SendTwo
INVARIANT NothingLost
CHECK_DEADLOCK FALSE
