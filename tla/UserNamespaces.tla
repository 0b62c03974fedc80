--------------------------- MODULE UserNamespaces ---------------------------
(***************************************************************************)
(* What the backend's record of the managed users (ManagedUsers) and the   *)
(* wizard that creates them (UserWizard) have in common.                   *)
(***************************************************************************)
CONSTANTS
  Namespaces,  \* names of Kubernetes namespaces
  None         \* nothing: an absent row, an empty field
=============================================================================
