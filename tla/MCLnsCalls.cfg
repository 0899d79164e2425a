SPECIFICATION FairSpec
CONSTANTS
  Tunnels = {t1, t2}
  Calls = {k1, k2, k3}
  Ends = {e1}
  Allowed = {e1}
  Cids = {c1, c2, c3}
  Range = {r1, r2}
  LocalRange = {l1}
  None = None
INVARIANTS
  TypeOK
  AddressesExact
  SessionsSound
PROPERTIES
  ImplementsAddressPool
  TunnelEnds
