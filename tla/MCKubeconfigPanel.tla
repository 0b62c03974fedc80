-------------------------- MODULE MCKubeconfigPanel --------------------------
(* KubeconfigPanel with two certificate users and a ServiceAccount.        *)
EXTENDS KubeconfigPanel, TLC

CONSTANTS sa, default, apps

\* The namespace of every certificate user is "default".
Home == [u \in Users |-> IF u = sa THEN apps ELSE default]
=============================================================================
