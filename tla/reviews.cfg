SPECIFICATION FairSpec
CONSTANTS
  None = None
  Requests = {mine, other}
  Own = {mine}
  Namespaces = {x, y}
  ClusterRole = ClusterRole
INVARIANTS
  SaidIsSeen
  AskedWhereItIs
PROPERTIES
  ClosedIsDone
  QueueCatchesUp
