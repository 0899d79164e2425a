SPECIFICATION Spec
CONSTANTS
  Peers <- MCPeers
  Calls <- OneCall
  First <- AtWrap
  Wrap = 8
  MaxRetries = 1
  MaxSends <- OneSend
INVARIANT InOrderOnce
INVARIANT NoHalfOpenCall
CHECK_DEADLOCK FALSE
