SPECIFICATION Spec
CONSTANTS
  Tunnels = {t1}
  Calls = {k1, k2, k3}
  Ends = {e1, e2}
  Allowed = {e1, e2}
  Cids = {c1, c2, c3}
  Range = {r1, r2, r3}
  LocalRange = {l1, l2}
  None = None
SYMMETRY LnsSymmetry
INVARIANTS
  LocalAddressesUnique
