--------------------------- MODULE MCTenantQueue ---------------------------
(* Instances of TenantQueue for TLC. *)
EXTENDS TenantQueue, TLC

CONSTANTS a1, a2, b1, b2, A, B, s1

\* Two builds of each tenant.
MCTenantOf == (a1 :> A) @@ (a2 :> A) @@ (b1 :> B) @@ (b2 :> B)
============================================================================
