--------------------------- MODULE MCIndexLimiter ---------------------------
(***************************************************************************)
(* IndexLimiter with a call for one tenant that adds three objects, and    *)
(* later a second; and a call for another tenant.                          *)
(***************************************************************************)
EXTENDS IndexLimiter

CONSTANTS k1, k2, k3, o1, o2, o3, t1, t2

MCTenantOf == [k \in Calls |-> IF k = k3 THEN t2 ELSE t1]

MCDiff ==
    [k \in Calls |-> CASE k = k1 -> {o1, o2, o3}
                       [] k = k2 -> {o1}
                       [] k = k3 -> {o1}]
=============================================================================
