SPECIFICATION VaultSpec
CONSTANTS
  Null = Null
  Procs = {p1, p2}
  Edits = {e1, e2}
  Tokens = {t1, t2}
  Places = {v1}
  EnvToken = t1
  EnvPlace = v1
  Interval = 1
  MaxHold = 1
  MaxTime = 2
SYMMETRY Symmetry
INVARIANTS
  VaultTypeOK
  Converges
