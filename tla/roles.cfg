SPECIFICATION Spec
CONSTANTS
  None = None
  ClusterWide = ClusterWide
  Namespaces = {x, y}
  Names = {r}
SYMMETRY Symmetry
INVARIANTS
  FreshKnows
PROPERTY
  OnlyOpenedIsReplaced
