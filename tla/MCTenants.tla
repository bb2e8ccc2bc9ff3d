------------------------------ MODULE MCTenants ------------------------------
(* Tenants on small sets, for TLC.                                         *)
EXTENDS Tenants, TLC

Symmetry == Permutations(Request) \cup Permutations(TenantID)
=============================================================================
