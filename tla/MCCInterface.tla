---------------------------- MODULE MCCInterface ----------------------------
(* Two threads and a store of at most two triples. *)
EXTENDS CInterface, TLC

Symmetry == Permutations(Clients) \cup Permutations(Triples) \cup Permutations(Texts)

(* Bound: no store in memory while there is something in the file. *)
OneStore == store = "in_memory" => named = {}
=============================================================================
