---------------------------- MODULE MCTripleStore ----------------------------
(***************************************************************************)
(* TripleStore on a small instance: two triples, and one update of each of *)
(* the shapes the code distinguishes.                                      *)
(***************************************************************************)
EXTENDS TripleStore, TLC

CONSTANTS a, b   \* triples

NoInstances == [t \in {a, b} |-> {}]
Itself == [t \in {a, b} |-> {t}]
Other == [t \in {a, b} |-> {a, b} \ {t}]

(* DELETE DATA, INSERT DATA, and DELETE ... INSERT ... WHERE, which         *)
(* replaces a by b or each triple by the other one.                        *)
DeleteData == [pattern |-> FALSE, where |-> {a}, remove |-> Itself, insert |-> NoInstances]
InsertData == [pattern |-> FALSE, where |-> {b}, remove |-> NoInstances, insert |-> Itself]
Replace == [pattern |-> TRUE, where |-> {a}, remove |-> Itself, insert |-> Other]
Swap == [pattern |-> TRUE, where |-> {a, b}, remove |-> Itself, insert |-> Other]

MCTriple == {a, b}
MCUpdate == {DeleteData, InsertData, Replace, Swap}
OneUpdate == {Swap}
Threads == Permutations(Thread)
=============================================================================
