SPECIFICATION FairSpec
CONSTANTS
  Peers <- MCPeers
  Calls <- NoCalls
  First <- Middle
  Wrap = 16
  MaxRetries = 2
  MaxSends <- SendTwoOne
INVARIANT TypeOK
INVARIANT NothingLost
INVARIANT OldRecognised
PROPERTY ImplementsReliableChannel
PROPERTY DeliveredOrClosed
PROPERTY ClosingEnds
PROPERTY DeadPeerNoticed
CHECK_DEADLOCK FALSE
