SPECIFICATION Spec
CONSTANTS
  None = None
  Clusters = {c1}
  Configs = {g1, g2}
  Procs = {p1, p2}
  Handlers = {h1, h2}
  Reload = 1
  MaxRead = 1
  MaxTime = 2
SYMMETRY Symmetry
INVARIANTS
  TypeOK
  TrustIsBounded
  RemoverForgets
