----------------------------- MODULE MCTenants -----------------------------
(***************************************************************************)
(* Tenants for TLC: the requests may be exchanged.                         *)
(***************************************************************************)
EXTENDS Tenants, TLC

Symmetry == Permutations(Req)

=============================================================================
