---------------------------- MODULE MCVaultConfig ----------------------------
(* VaultConfig with two processes and two edits at once.                   *)
EXTENDS VaultConfig, TLC

Symmetry == Permutations(Procs) \cup Permutations(Edits)
=============================================================================
