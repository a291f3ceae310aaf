----------------------------- MODULE BlankNodeIds -----------------------------
(***************************************************************************)
(* How CONSTRUCT queries and INSERT templates label blank nodes.  For each *)
(* solution, each anonymous variable of the template gets a new number     *)
(* from bnode_id_ where it is met first.  A thread instantiates templates  *)
(* between two resumptions of a generator, which holds the store's lock    *)
(* shared, so several threads do it at the same time; bnode_id_++ is a     *)
(* plain read and a plain write of a uint64_t.                             *)
(***************************************************************************)
EXTENDS Integers, FiniteSets, Functions

CONSTANTS Thread,        \* threads that evaluate a CONSTRUCT or an INSERT
          Label,         \* the anonymous variables of the template
          Solutions,     \* bound: solutions of each evaluation
          None           \* no number

VARIABLES bnode_id,      \* bnode_id_
          bnode_to_id,   \* per thread, the labels of the current solution that have a number
          loaded,        \* per thread, what it has read of bnode_id_ and not written back
          solution,      \* per thread, how many solutions it has instantiated
          nodes          \* the blank nodes handed out: by whom, for what, with which number

vars == <<bnode_id, bnode_to_id, loaded, solution, nodes>>

Init ==
    /\ bnode_id = 0
    /\ bnode_to_id = [th \in Thread |-> <<>>]
    /\ loaded = [th \in Thread |-> None]
    /\ solution = [th \in Thread |-> 0]
    /\ nodes = {}

(* A label that is met for the first time in this solution: read ... *)
Load(th) ==
    /\ loaded[th] = None /\ solution[th] < Solutions
    /\ DOMAIN bnode_to_id[th] # Label
    /\ loaded' = [loaded EXCEPT ![th] = bnode_id]
    /\ UNCHANGED <<bnode_id, bnode_to_id, solution, nodes>>

(* ... and write back, and label the node. *)
Store(th) ==
    /\ loaded[th] # None
    /\ bnode_id' = loaded[th] + 1
    /\ \E l \in Label \ DOMAIN bnode_to_id[th] :
          /\ bnode_to_id' = [bnode_to_id EXCEPT ![th] = [x \in DOMAIN @ \cup {l} |-> IF x = l THEN loaded[th] ELSE @[x]]]
          /\ nodes' = nodes \cup {[by |-> th, solution |-> solution[th], label |-> l, id |-> loaded[th]]}
    /\ loaded' = [loaded EXCEPT ![th] = None]
    /\ UNCHANGED solution

(* The next solution starts with an empty map. *)
NextSolution(th) ==
    /\ DOMAIN bnode_to_id[th] = Label /\ solution[th] < Solutions
    /\ bnode_to_id' = [bnode_to_id EXCEPT ![th] = <<>>]
    /\ solution' = [solution EXCEPT ![th] = @ + 1]
    /\ UNCHANGED <<bnode_id, loaded, nodes>>

Stop == (\A th \in Thread : solution[th] = Solutions) /\ UNCHANGED vars

Next == Stop \/ \E th \in Thread : Load(th) \/ Store(th) \/ NextSolution(th)

Spec == Init /\ [][Next]_vars

-----------------------------------------------------------------------------
(* "used to provide a unique bnode identifier to blank nodes that are to   *)
(* be inserted in the graph": no number is handed out for two different    *)
(* blank nodes.                                                            *)
UniqueIdentifier == \A m, n \in nodes : m.id = n.id => m = n
=============================================================================
