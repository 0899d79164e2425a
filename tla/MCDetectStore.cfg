CONSTANTS
  Vpns = {1}
  Games = {1, 2}
  RegionsOf <- MCRegionsOf
  Data <- MCData
  Readers = {r1}
  ClientRtts = {45}
  None = None
  LiveInit = FALSE
  MaxPosts = 3
  MaxFaults = 2
SPECIFICATION Spec
INVARIANTS
  TypeOK
  ReadIsConsistent
  AverageMatchesServed
PROPERTIES
  ImplementsReportStore
