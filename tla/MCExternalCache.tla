--------------------------- MODULE MCExternalCache ---------------------------
(* One replica: a request, a refresh and the listener share nothing but    *)
(* the tenant's slices and Redis, as those of several replicas share Redis *)
(* alone.                                                                  *)
EXTENDS ExternalCache

CONSTANTS r1, p1, t1, l1

MCHome == [p \in Procs |-> r1]
=============================================================================
