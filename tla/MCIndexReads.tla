---------------------------- MODULE MCIndexReads ----------------------------
(***************************************************************************)
(* IndexReads on small instances.                                          *)
(***************************************************************************)
EXTENDS IndexReads, TLC

(* As many structs as IndexIdsAssumption asks for.                         *)
MCIndexIds == 1..(Cardinality(Clients) + 3)

(* Clients are alike.                                                      *)
MCClientSymmetry == Permutations(Clients)
=============================================================================
