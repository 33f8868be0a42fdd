--------------------------- MODULE MCChartEntries ---------------------------
EXTENDS ChartEntries

CONSTANTS v1, v2, v3

(* v2 and v3 differ in build metadata only.                                *)
MCRank == [v \in Versions |-> IF v = v1 THEN 1 ELSE 2]
=============================================================================
