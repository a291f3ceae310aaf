----------------------------- MODULE SparqlAlgebra -----------------------------
(***************************************************************************)
(* What a query should answer: the SPARQL algebra over the group graph     *)
(* patterns of QueryUpdateVisitor.  Nothing here is translated from the    *)
(* code.                                                                   *)
(*                                                                         *)
(* A bag of solution mappings is a set of pairs <<mapping, derivation>>: a *)
(* mapping occurs once for every way to derive it.  Derivations are        *)
(* tuples of tuples.                                                       *)
(***************************************************************************)
EXTENDS QueryUpdateVisitor

CONSTANTS VarOrder,      \* the variables, in the order of their ids
          Nodes, Unbound
ASSUME UnboundAssumption == Unbound \notin Nodes

Vars == Range(VarOrder)
Mappings == [Vars -> Nodes \cup {Unbound}]
Nothing == [x \in Vars |-> Unbound]
Nowhere == {<<Nothing, <<>>>>}         \* the bag of the empty group

Compatible(m, n) == \A x \in Vars : m[x] = Unbound \/ n[x] = Unbound \/ m[x] = n[x]
Union(m, n) == [x \in Vars |-> IF m[x] = Unbound THEN n[x] ELSE m[x]]

Join(A, B) ==
    {<<Union(p[1][1], p[2][1]), <<p[1][2], p[2][2]>>>> : p \in {q \in A \X B : Compatible(q[1][1], q[2][1])}}
Alternatives(A, B) == {<<a[1], <<a[2]>>>> : a \in A} \cup {<<b[1], <<b[2], <<>>, <<>>>>>> : b \in B}

(* An expression over an unbound variable is an error, which is false. *)
Holds(filter, m) ==
    LET x == m[filter.vars[1]]
        y == m[filter.vars[Len(filter.vars)]]
    IN  CASE filter.test = "bound" -> x # Unbound
          [] filter.test = "unbound" -> x = Unbound
          [] filter.test = "is" -> x = filter.iri
          [] filter.test = "=" -> x # Unbound /\ y # Unbound /\ x = y
          [] filter.test = "!=" -> x # Unbound /\ y # Unbound /\ x # y
HoldAll(filters, m) == \A f \in Range(AllConjuncts(filters)) : Holds(f, m)

(* LeftJoin with the filters of the optional group, which also see the     *)
(* variables of the group around it.                                       *)
LeftJoin(A, B, filters) ==
    LET Matches(a) == {s \in Join({a}, B) : HoldAll(filters, s[1])}
    IN  UNION {IF Matches(a) = {} THEN {<<a[1], <<a[2]>>>>} ELSE Matches(a) : a \in A}

Extend(A, bind) == {<<[s[1] EXCEPT ![bind.result_var_id] = s[1][bind.vars[1]]], s[2]>> : s \in A}

(* The solutions of a triple pattern over the relation it selects. *)
Solutions(pattern, rows) ==
    {<<[x \in Vars |-> IF \E i \in DOMAIN pattern.vars : pattern.vars[i] = x
                       THEN row[CHOOSE i \in DOMAIN pattern.vars : pattern.vars[i] = x]
                       ELSE Unbound], <<>>>> :
        row \in {r \in rows : \A i, j \in DOMAIN pattern.vars :
                                  pattern.vars[i] = pattern.vars[j] => r[i] = r[j]}}

RECURSIVE Unfiltered(_, _)
Evaluated(group, data) == {s \in Unfiltered(group, data) : HoldAll(group.filters, s[1])}
Unfiltered(group, data) ==
    LET AddItem(A, item) ==
            IF item.kind = "assignment" THEN Extend(A, item) ELSE Join(A, Solutions(item, data[item.relation]))
        AddUnion(A, groups) ==
            Join(A, FoldLeft(LAMBDA B, g : Alternatives(B, Evaluated(g, data)), {}, groups))
        AddOptional(A, g) == LeftJoin(A, Unfiltered(g, data), g.filters)
    IN  FoldLeft(AddOptional, FoldLeft(AddUnion, FoldLeft(AddItem, Nowhere, group.items), group.unions), group.optionals)

(* How often the query answers with each solution. *)
Projected(m, vars) == [x \in vars |-> m[x]]
Answer(query, data) ==
    LET solutions == Evaluated(query.pattern, data)
    IN  [m \in {Projected(s[1], query.projected) : s \in solutions} |->
            Cardinality({s \in solutions : Projected(s[1], query.projected) = m})]
=============================================================================
