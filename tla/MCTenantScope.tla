---------------------------- MODULE MCTenantScope ----------------------------
(* TenantScope on a small instance. *)
EXTENDS TenantScope, TLC

MCSymmetry == Permutations(Tenants) \cup Permutations(Docs) \cup Permutations(Values)
              \cup Permutations(Requests)

\* States that differ in the history of the last operation alone are one: no
\* action reads it, and a step is judged by the operation it writes.
MCView == <<store, ctx, held, overwritten>>
=============================================================================
