SPECIFICATION FairSpec
CONSTANTS
  Redial = TRUE
  RMax = 0
  CallIds = {k1, k2}
  None = None
  MaxConnects = 1
PROPERTIES
  RedialsWhenDisconnected
