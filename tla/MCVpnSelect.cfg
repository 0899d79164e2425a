SPECIFICATION SelectSpec
CONSTANTS
  Vpns = {1, 2}
  Games = {1}
  RegionsOf <- MCRegionsOf
  Data <- MCData
  Readers = {}
  ClientRtts = {45}
  None = None
  LiveInit = FALSE
  MaxPosts = 2
  MaxFaults = 2
  VpnOf <- MCVpnOf
  Asks <- MCAsks
INVARIANTS
  AnswersBest
  ChoiceMatchesServed
  RaisesOnlyIfUpset
