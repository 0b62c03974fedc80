SPECIFICATION Spec
CONSTANTS
  None = None
  Default = default
  Names = {bob, ann}
  Namespaces = {default}
  Clusters = {local}
  Accounts = {}
  Workers = {w1, w2}
  Extending <- Unrelated
  Grantees = {}
  VaultEnabled = TRUE
  PrivateKeys = {k1}
  MayAbort = FALSE
SYMMETRY Symmetry
INVARIANT
  RegisteredKeyStored
PROPERTY
  RowsSurviveOthers
