--------------------------- MODULE QueryUpdateVisitor ---------------------------
(***************************************************************************)
(* From the WHERE clause of a query to its operand dependency graph.       *)
(*                                                                         *)
(* A group graph pattern is a record, as in GroupGraphPatternSub:          *)
(*   items      triple patterns and BINDs, in the order of the text        *)
(*   unions     for each union, its alternatives, which are groups         *)
(*   optionals  the groups of its OPTIONALs                                *)
(*   filters    its FILTERs                                                *)
(* A triple pattern names the relation its constants select and the        *)
(* variables in the places that are left.  An IRI is the name of the       *)
(* relation that holds just it, as inline data do.  The terms of filters   *)
(* are IRIs, and a variable that is not in the scope of its filter is      *)
(* written as an anonymous one, as visitPrimaryExpression does.            *)
(***************************************************************************)
EXTENDS OperandDependencyGraph, SequencesExt

CONSTANT Anonymous       \* variables nothing binds

TriplePattern(relation, vars) == [kind |-> "operand", relation |-> relation, vars |-> vars]
Bind(var, result) == [kind |-> "assignment", vars |-> <<var>>, result_var_id |-> result]
Filter(test, vars) == [kind |-> "filter", test |-> test, vars |-> vars]
FilterIs(var, iri) == [kind |-> "filter", test |-> "is", vars |-> <<var>>, iri |-> iri]
And(filters) ==
    [kind |-> "filter", test |-> "and", vars |-> FlattenSeq([i \in DOMAIN filters |-> filters[i].vars]), parts |-> filters]
Never == [kind |-> "filter", test |-> "never", vars |-> <<>>]

(* visit_filter: the parts of a conjunction are operands of their own. *)
Conjuncts(filter) == IF filter.test = "and" THEN filter.parts ELSE <<filter>>
AllConjuncts(filters) == FlattenSeq([i \in DOMAIN filters |-> Conjuncts(filters[i])])

Group(items, unions, optionals, filters) ==
    [items |-> items, unions |-> unions, optionals |-> optionals, filters |-> filters]

(* create_operand_from_tp and visit_bind. *)
ItemGraph(item) ==
    IF item.kind = "assignment"
    THEN OneVertex(item.vars \o <<item.result_var_id>>, item)
    ELSE OneVertex(item.vars, item)

Merged(graphs) == FoldLeft(MergeGraphs, EmptyGraph, graphs)

AddAll(g, pairs, Add(_, _)) == FoldSet(LAMBDA p, m : Add(m, p), g, pairs)

(* create_operand_from_filter: `?x = iri` becomes inline data, `?x = ?y`   *)
(* an assignment of ?x to ?y; nothing equals an anonymous variable.        *)
EqualsNothing(filter) == filter.test \in {"is", "="} /\ Range(filter.vars) \cap Anonymous # {}
IsEquality(filter) == filter.test = "=" /\ ~EqualsNothing(filter)
OperandFromFilter(filter) ==
    CASE EqualsNothing(filter) -> OneVertex(<<>>, Never)
      [] IsEquality(filter) -> OneVertex(<<filter.vars[2], filter.vars[1]>>, Bind(filter.vars[1], filter.vars[2]))
      [] filter.test = "is" /\ ~EqualsNothing(filter) -> OneVertex(filter.vars, TriplePattern(filter.iri, filter.vars))
      [] OTHER -> OneVertex(filter.vars, filter)

(* create_dependencies_between_operands *)
Connected(g) ==
    AddAll(g, {p \in g.vertices \X g.vertices : p[1] < p[2]}, LAMBDA m, p : AddDependencies(m, p[1], p[2], TRUE))
FilterGraph(filter) ==
    Connected(Merged([i \in DOMAIN Conjuncts(filter) |-> OperandFromFilter(Conjuncts(filter)[i])]))

(* equality_filter_var_replacement_: the second variable of an equality    *)
(* filter is replaced in the operands of the group by the first one, or by *)
(* what replaces that.                                                     *)
Replacement(filters) ==
    FoldLeft(LAMBDA r, f :
                 IF ~IsEquality(f) THEN r
                 ELSE [x \in DOMAIN r \cup {f.vars[2]} |->
                          IF x # f.vars[2] THEN r[x]
                          ELSE IF f.vars[1] \in DOMAIN r THEN r[f.vars[1]] ELSE f.vars[1]],
             <<>>, AllConjuncts(filters))

-----------------------------------------------------------------------------
(* The numbers the vertices of the ISC of a component have in it. *)
IscPositions(component) == {Rank(component, v) : v \in IscOperands(component)}

(* combine_and_merge: the join of two graphs.  Every union component of    *)
(* one is combined with every union component of the other.                *)
CombineAndMerge(g, h) ==
    LET Combined(c, d) ==
            AddAll(MergeGraphs(c, d), IscPositions(c) \X IscPositions(d),
                   LAMBDA m, p : AddDependencies(m, p[1], p[2] + Cardinality(c.vertices), TRUE))
        Row(c) == [j \in DOMAIN UnionComponents(h) |-> Combined(c, UnionComponents(h)[j])]
    IN  IF g.vertices = {} THEN h
        ELSE IF h.vertices = {} THEN g
        ELSE Merged(FlattenSeq([i \in DOMAIN UnionComponents(g) |-> Row(UnionComponents(g)[i])]))

(* combine_optional: h is optional for every union component of g.  The    *)
(* position of a vertex in its union component is taken for its position   *)
(* in h.                                                                   *)
OptionalTarget(h, component, v) == Rank(component, v)
CombineOptional(g, h) ==
    LET targets == UNION {{OptionalTarget(h, d, v) : v \in IscOperands(d)} : d \in Range(UnionComponents(h))}
        Combined(c) ==
            AddAll(MergeGraphs(c, h), IscPositions(c) \X targets,
                   LAMBDA m, p : AddDependencies(m, p[1], p[2] + Cardinality(c.vertices), FALSE))
    IN  IF g.vertices = {} THEN h
        ELSE IF h.vertices = {} THEN g
        ELSE Merged([i \in DOMAIN UnionComponents(g) |-> Combined(UnionComponents(g)[i])])

(* optional_cartesian_connections: two OPTIONALs of a group are connected  *)
(* both ways, at the positions their vertices have in the union            *)
(* components; the offset is advanced after each component of h and never  *)
(* set back.                                                               *)
OptionalCartesianConnections(g, h) ==
    LET gs == UnionComponents(g)
        hs == UnionComponents(h)
        Offset(i, j) == Cardinality(g.vertices) + (i - 1) * Cardinality(h.vertices)
                            + SumFunction([k \in 1 .. j - 1 |-> Cardinality(hs[k].vertices)])
        pairs == UNION {{<<p, q + Offset(i, j)>> : p \in IscPositions(gs[i]), q \in IscPositions(hs[j])} :
                            i \in DOMAIN gs, j \in DOMAIN hs}
    IN  IF g.vertices = {} THEN h
        ELSE IF h.vertices = {} THEN g
        ELSE AddAll(MergeGraphs(g, h), pairs,
                    LAMBDA m, p : AddConnection(AddConnection(m, p[1], p[2]), p[2], p[1]))

-----------------------------------------------------------------------------
(* group_graph_pattern_sub_to_odg *)
RECURSIVE GroupGraph(_)
GroupGraph(group) ==
    LET Graphs(patterns) == [i \in DOMAIN patterns |-> GroupGraph(patterns[i])]
        parts == [i \in DOMAIN group.items |-> ItemGraph(group.items[i])]
                 \o [i \in DOMAIN group.unions |-> Merged(Graphs(group.unions[i]))]
                 \o [i \in DOMAIN group.filters |-> FilterGraph(group.filters[i])]
        required == FoldLeft(CombineAndMerge, EmptyGraph, parts)
        optional == FoldLeft(OptionalCartesianConnections, EmptyGraph, Graphs(group.optionals))
    IN  ReplaceVarIdsInOperands(CombineOptional(required, optional), Replacement(group.filters))

(* visitPrimaryExpression and visit_bind track the variables of filters    *)
(* and of BINDs.                                                           *)
RECURSIVE ExpressionVars(_)
ExpressionVars(group) ==
    UNION ({Range(f.vars) : f \in Range(group.filters)}
           \cup {Range(b.vars) \cup {b.result_var_id} : b \in {i \in Range(group.items) : i.kind = "assignment"}}
           \cup {ExpressionVars(o) : o \in Range(group.optionals)}
           \cup UNION {{ExpressionVars(a) : a \in Range(u)} : u \in Range(group.unions)})
=============================================================================
