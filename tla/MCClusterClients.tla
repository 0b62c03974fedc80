-------------------------- MODULE MCClusterClients --------------------------
(* ClusterClients with one or two clusters and processes.                  *)
EXTENDS ClusterClients, TLC

Symmetry == Permutations(Configs) \cup Permutations(Procs) \cup Permutations(Handlers)
=============================================================================
