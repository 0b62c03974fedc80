SPECIFICATION Spec
CONSTANTS
  None = None
  Default = default
  Names = {bob}
  Namespaces = {default, apps}
  Clusters = {local}
  Accounts = {alice}
  Workers = {w1}
  Extending <- Unrelated
  Grantees = {bob}
  VaultEnabled = TRUE
  PrivateKeys = {k1, k2, k3, k4}
  MayAbort = TRUE
SYMMETRY Symmetry
INVARIANTS
  TypeOK
  KeyMatchesCertificate
PROPERTY
  ForgottenOnlyWhenGone
