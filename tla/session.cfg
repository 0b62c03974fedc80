SPECIFICATION FairSpec
CONSTANTS
  None = None
  Accounts = {a1, a2}
  Requests = {r1, r2}
INVARIANTS
  WaitersHaveRefresh
  OwnDataOnly
PROPERTIES
  RequestsSettle
  ShellSettles
