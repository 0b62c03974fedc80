---------------------------- MODULE MCUserWizard ----------------------------
(* UserWizard with two namespaces, one of which may go from the list.      *)
EXTENDS UserWizard, TLC
=============================================================================
