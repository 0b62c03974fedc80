----------------------------- MODULE MCJitAccess -----------------------------
(* Small instances of JitAccess for TLC. *)
EXTENDS JitAccess, TLC

\* Nothing tells two requests, or two workers, apart.
Symmetry == Permutations(Requests) \cup Permutations(Workers)
=============================================================================
