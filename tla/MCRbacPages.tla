------------------------------ MODULE MCRbacPages ------------------------------
(* RbacPages with two namespaces and few names. *)
EXTENDS RbacPages, TLC

Symmetry == Permutations(Namespaces)
=============================================================================
