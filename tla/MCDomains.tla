----------------------------- MODULE MCDomains ------------------------------
(* Small instances of Domains.                                             *)
EXTENDS Domains, TLC
Symmetry == Permutations(Workspace) \cup Permutations(Host)
=============================================================================
