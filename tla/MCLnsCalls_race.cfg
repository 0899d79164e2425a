SPECIFICATION Spec
CONSTANTS
  Tunnels = {t1, t2}
  Calls = {k1, k2}
  Ends = {e1, e2}
  Allowed = {e1, e2}
  Cids = {c1, c2}
  Range = {r1}
  LocalRange = {l1}
  None = None
SYMMETRY LnsSymmetry
INVARIANTS
  WaitsOnlyForItsOwnCdn
