SPECIFICATION FairSpec
CONSTANTS
  Vpns = {1}
  Games = {1, 2}
  RegionsOf <- MCSingle
  Data <- MCData
  Readers = {}
  ClientRtts = {45}
  None = None
  LiveInit = TRUE
  MaxPosts = 2
  MaxFaults = 2
INVARIANTS
  TornOnlyByInit
PROPERTIES
  ReportsSettled
  ServesLastPosted
