--------------------------------- MODULE Nodes ---------------------------------
(***************************************************************************)
(* What the solutions of a query bind: nodes of rdf4cpp, with the          *)
(* operations that expressions and ORDER BY need.                          *)
(*                                                                         *)
(* A node is a pair of its kind and a number; which number stands for      *)
(* which lexical form does not matter here.                                *)
(***************************************************************************)
EXTENDS Integers, Sequences

Null == <<"null", 0>>
Integer(n) == <<"integer", n>>
Boolean(b) == <<"boolean", IF b THEN 1 ELSE 0>>
Iri(n) == <<"iri", n>>
IsLiteral(v) == v[1] \in {"integer", "boolean", "quotient"}

(* ebv of a node as a boolean: an IRI or null has none and counts as false. *)
Truth(v) == v[1] \in {"integer", "boolean"} /\ v[2] # 0

(* Arithmetic on literals: null unless both are numbers. *)
Plus(v, w) == IF v[1] = "integer" /\ w[1] = "integer" THEN Integer(v[2] + w[2]) ELSE Null
Minus(v, w) == IF v[1] = "integer" /\ w[1] = "integer" THEN Integer(v[2] - w[2]) ELSE Null
Times(v, w) == IF v[1] = "integer" /\ w[1] = "integer" THEN Integer(v[2] * w[2]) ELSE Null
DividedBy(v, w) == IF v[1] = "integer" /\ w[1] = "integer" /\ w[2] # 0 THEN <<"quotient", v[2], w[2]>> ELSE Null

(* The order of nodes: null, then IRIs, then literals.  The queries that   *)
(* make quotients show them and do not order them.                         *)
KindOrder == <<"null", "iri", "boolean", "integer", "quotient">>
Kind(v) == CHOOSE i \in DOMAIN KindOrder : KindOrder[i] = v[1]
SortableNodes == {"null", "iri", "boolean", "integer"} \X Int
Before(v, w) == Kind(v) < Kind(w) \/ (Kind(v) = Kind(w) /\ v[2] < w[2])

(* compare_impl: literals of different kinds have no order. *)
Compare(v, w) ==
    CASE IsLiteral(v) /\ IsLiteral(w) /\ v[1] # w[1] -> "unordered"
      [] v = w -> "equivalent"
      [] OTHER -> IF Before(v, w) THEN "less" ELSE "greater"
Holding == [equals |-> {"equivalent"}, not_equals |-> {"less", "greater", "unordered"},
            less |-> {"less"}, greater |-> {"greater"},
            less_equals |-> {"less", "equivalent"}, greater_equals |-> {"greater", "equivalent"}]
================================================================================
