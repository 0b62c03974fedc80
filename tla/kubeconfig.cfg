SPECIFICATION FairSpec
CONSTANTS
  None = None
  sa = sa
  default = default
  apps = apps
  Users = {alice, bob, sa}
  Certs = {alice, bob}
  NsOf <- Home
  Namespaces = {default, apps}
  Clusters = {c1, c2}
  Writable = {c1}
  Named = {alice, sa}
  NamedNs = default
INVARIANTS
  TimerIsCurrent
  PreviewIsOfSelected
PROPERTY
  AutoGenerates
