SPECIFICATION FairSpec
CONSTANTS
  Nodes = {n1, n2}
  Slots = {1, 2}
  AddrsOf <- MCAddrsOf
  Rtts = {20, 45}
  None = None
  MaxFaults = 1
  Backlog = 1
INVARIANTS
  RoundsConsistent
PROPERTIES
  ServedNeverOlder
  KeepsUp
