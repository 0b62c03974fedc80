SPECIFICATION WizardSpec
CONSTANTS
  None = None
  Namespaces = {x, y}
  Role = view
  New = new
  Doomed = {y}
INVARIANT
  OrderedIsDone
PROPERTIES
  OnlyRenamingHidesTicks
  KeyKept
