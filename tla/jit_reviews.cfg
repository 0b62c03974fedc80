SPECIFICATION Spec
CONSTANTS
  None = None
  Requests = {r1, r2}
  Users = {alice, bob}
  Approvers = {alice, bob}
  Workers = {w1, w2}
  Clusters = {local}
  Local = local
  Roles = {view}
  NamespacedRoles = {view}
  MinTtl = 1
  MaxTtl = 1
  MaxTime = 1
  MaxFailures = 1
  MaxRemovals = 1
SYMMETRY Symmetry
INVARIANTS
  TypeOK
  ReviewedStatusStable
  TimeBoxed
  FourEyes
  ApprovedGrantIsLive
  RevokedMeansUnbound
PROPERTY
  CleanupSparesLiveGrants
  ImplementsTimeBoxedAccess
