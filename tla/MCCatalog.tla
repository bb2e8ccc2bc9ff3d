------------------------------ MODULE MCCatalog ------------------------------
(* Catalog on small sets, for TLC.                                         *)
EXTENDS Catalog, TLC

Symmetry == Permutations(Request) \cup Permutations(ServiceID) \cup Permutations(Team)
=============================================================================
