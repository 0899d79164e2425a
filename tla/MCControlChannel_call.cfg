SPECIFICATION FairSpec
CONSTANTS
  Peers <- MCPeers
  Calls <- OneCall
  First <- Middle
  Wrap = 16
  MaxRetries = 2
  MaxSends <- NoSend
PROPERTY ClosingCallEnds
CHECK_DEADLOCK FALSE
