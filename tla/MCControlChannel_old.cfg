SPECIFICATION Spec
CONSTANTS
  Peers <- MCPeers
  Calls <- NoCalls
  First <- AtWrap
  Wrap = 8
  MaxRetries = 2
  MaxSends <- OneSend
INVARIANT OldRecognised
CHECK_DEADLOCK FALSE
