SPECIFICATION Spec
CONSTANTS
  None = None
  MaxChanges = 2
  Clusters = {local, remote}
  Local = local
  Writable = {remote}
  Tokens = {t1}
INVARIANTS
  ActiveIsListed
  RemoteStaysRemote
  FreshKnows
