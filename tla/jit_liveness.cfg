SPECIFICATION FairSpec
CONSTANTS
  None = None
  Requests = {r1}
  Users = {alice, bob}
  Approvers = {bob}
  Workers = {w1}
  Clusters = {local, remote}
  Local = local
  Roles = {view}
  NamespacedRoles = {view}
  MinTtl = 1
  MaxTtl = 2
  MaxTime = 1
  MaxFailures = 1
  MaxRemovals = 0
PROPERTY
  ExpiredGrantsEnd
  TightenedPolicyHolds
