SPECIFICATION FairSpec
CONSTANTS
  Redial = TRUE
  RMax = 3
  CallIds = {k1, k2, k3, k4}
  None = None
  MaxConnects = 3
INVARIANTS
  TypeOK
  PointersLive
  OneDialAtATime
  RedialsUntilLimit
PROPERTIES
  QuietWhenDisconnected
  KeepsDialling
