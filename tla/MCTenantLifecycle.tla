------------------------- MODULE MCTenantLifecycle -------------------------
(* Instances of TenantLifecycle for TLC: model values and their symmetry.  *)
EXTENDS TenantLifecycle, TLC

Symmetry ==
    Permutations(Tenants) \cup Permutations(Names) \cup Permutations(Requests)
=============================================================================
