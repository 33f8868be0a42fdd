---------------------------- MODULE MCIndexCache ----------------------------
(***************************************************************************)
(* IndexCache on small instances.                                          *)
(***************************************************************************)
EXTENDS IndexCache, TLC

(* As many structs as IndexIdsAssumption asks for.                         *)
MCIndexIds == 1..(Cardinality(Clients) + 3)
(* Clients are alike; for safety runs only.                                *)
MCClientSymmetry == Permutations(Clients)
=============================================================================
