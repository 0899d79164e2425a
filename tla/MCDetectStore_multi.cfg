CONSTANTS
  Vpns = {1}
  Games = {2}
  RegionsOf <- MCRegionsOf
  Data <- MCData
  Readers = {}
  ClientRtts = {45}
  None = None
  LiveInit = FALSE
  MaxPosts = 1
  MaxFaults = 0
SPECIFICATION Spec
PROPERTIES
  DealEndsInPublish
