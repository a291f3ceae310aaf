------------------------------- MODULE RdfList -------------------------------
(***************************************************************************)
(* TripleStore::is_rdf_list and TripleStore::get_rdf_list.  Both hold the  *)
(* shared lock throughout, so the graph stands still under them; TripleStore *)
(* models their locking.                                                   *)
(*                                                                         *)
(* A graph is what it says about lists: for each node the sets of its      *)
(* rdf:first and of its rdf:rest objects.                                  *)
(***************************************************************************)
EXTENDS Integers, Sequences, FiniteSets

CONSTANTS Resource,      \* the nodes of the graph
          Nil,           \* rdf:nil
          MaxLength      \* bound: elements of the vector

VARIABLES first, rest,   \* the objects of rdf:first and of rdf:rest
          list,          \* the argument of get_rdf_list
          head,          \* its local
          node_vector,   \* its result so far
          status         \* is it "running", has it "returned", or has it "thrown"

vars == <<first, rest, list, head, node_vector, status>>

Only(s) == CHOOSE x \in s : TRUE

(* is_rdf_list: rdf:nil, or a node with one rdf:first and one rdf:rest. *)
IsRdfList(n) == n = Nil \/ (Cardinality(first[n]) = 1 /\ Cardinality(rest[n]) = 1)

-----------------------------------------------------------------------------
Init ==
    /\ first \in [Resource -> SUBSET Resource]
    /\ rest \in [Resource -> SUBSET Resource]
    /\ list \in Resource
    /\ head = list
    /\ node_vector = <<>>
    /\ status = "running"

ReachNil ==
    /\ status = "running" /\ head = Nil
    /\ status' = "returned"
    /\ UNCHANGED <<first, rest, list, head, node_vector>>

(* No element, several of them, or several rests. *)
Throw ==
    /\ status = "running" /\ head # Nil
    /\ Cardinality(first[list]) # 1 \/ Cardinality(rest[list]) > 1
    /\ status' = "thrown"
    /\ UNCHANGED <<first, rest, list, head, node_vector>>

(* Both look-ups are at list, and the next head is the element. *)
PushElement ==
    /\ status = "running" /\ head # Nil
    /\ Cardinality(first[list]) = 1 /\ Cardinality(rest[list]) <= 1
    /\ Len(node_vector) < MaxLength
    /\ node_vector' = Append(node_vector, Only(first[list]))
    /\ IF rest[list] = {} THEN status' = "returned" /\ head' = head
                          ELSE status' = status /\ head' = Only(first[list])
    /\ UNCHANGED <<first, rest, list>>

Stop == (status # "running" \/ Len(node_vector) = MaxLength) /\ UNCHANGED vars

Next == ReachNil \/ Throw \/ PushElement \/ Stop

Spec == Init /\ [][Next]_vars

-----------------------------------------------------------------------------
(* The node that is i steps along rdf:rest from the start of the list. *)
NodeAt[i \in 1 .. MaxLength] == IF i = 1 THEN list ELSE Only(rest[NodeAt[i - 1]])

(* "Returns the items of an rdf:List as vector": where every node up to    *)
(* the i-th is a list node as is_rdf_list asks, the i-th element of the    *)
(* result is the item of the i-th node.                                    *)
ReturnsTheItems ==
    \A i \in DOMAIN node_vector :
        (\A j \in 1 .. i : IsRdfList(NodeAt[j]) /\ NodeAt[j] # Nil) => node_vector[i] = Only(first[NodeAt[i]])
=============================================================================
