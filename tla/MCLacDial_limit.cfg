SPECIFICATION Spec
CONSTANTS
  Redial = TRUE
  RMax = 3
  CallIds = {k1, k2, k3, k4}
  None = None
  MaxConnects = 3
SYMMETRY CallSymmetry
INVARIANTS
  GivesUpAfterMaxRedials
