--------------------------- MODULE MCManagedUsers ---------------------------
(* ManagedUsers with small sets of names, namespaces and workers.          *)
EXTENDS ManagedUsers, TLC

Symmetry == Permutations(Workers) \cup Permutations(PrivateKeys) \cup Permutations(Names)

\* No name extends another one.
Unrelated == [n \in Names |-> {n}]
=============================================================================
