--------------------------- MODULE MCClusterPages ---------------------------
(* ClusterPages with the local and a remote cluster.                       *)
EXTENDS ClusterPages, TLC
=============================================================================
