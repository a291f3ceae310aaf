--------------------------- MODULE SelectQueryVisitor ---------------------------
(***************************************************************************)
(* QueryUpdateVisitor on the clauses of a SELECT query, in the order it    *)
(* visits them: what it makes a query of, and which queries it rejects.    *)
(***************************************************************************)
EXTENDS Expressions, TLC

(* check_for_alias in every variable of an expression. *)
RECURSIVE Resolved(_, _)
Resolved(aliases, e) ==
    IF e.op = "var" THEN IF e.var \in DOMAIN aliases THEN Clone(aliases[e.var]) ELSE e
    ELSE [e EXCEPT !.args = [i \in DOMAIN @ |-> Resolved(aliases, @[i])]]

(* visitExpression and visitAggregate: COUNT of everything tracks what is  *)
(* in scope.                                                               *)
Nested(e) == \E a \in Subexpressions(e) :
                 a.op \in Aggregates \ {"avg"} /\ OfOperands(a, AggregatedVariables) # {}
Stars(e) == \E a \in Subexpressions(e) : a.op \in {"count_star", "count_star_distinct"}
VisitExpression(v, e) ==
    [v EXCEPT !.tracked = @ \cup Variables(e) \cup (IF Stars(e) THEN v.in_scope ELSE {}),
              !.aggregates = @ \/ \E a \in Subexpressions(e) : a.op \in Aggregates,
              !.malformed = @ \/ Nested(e)]

VisitGroupCondition(v, condition) ==
    LET key == Resolved(v.aliases, condition.expr)
        named == {condition.as} \ {""}
        plain == IF condition.as = "" /\ condition.expr.op = "var" THEN {condition.expr.var} ELSE {}
    IN  [VisitExpression(v, key) EXCEPT
            !.grouping_key = Append(@, key),
            !.vars_in_group_by = @ \cup named \cup plain,
            !.aliases = @ @@ [x \in named |-> Clone(key)],
            !.malformed = @ \/ named \cap v.in_scope # {},
            !.in_scope = @ \cup named]

VisitHavingCondition(v, condition) ==
    LET e == Resolved(v.aliases, condition)
    IN  [VisitExpression(v, e) EXCEPT !.solution_filters = Append(@, e),
                                      !.non_aggregated = @ \cup NonAggregatedVariables(e)]

VisitSelectVariable(v, item) ==
    LET e == Resolved(v.aliases, IF item.as THEN item.expr ELSE Variable(item.var))
    IN  [VisitExpression(v, e) EXCEPT
            !.solution_mapping = Append(@, e),
            !.malformed = @ \/ item.var \in v.projected \/ (item.as /\ item.var \in v.in_scope),
            !.projected = @ \cup {item.var},
            !.non_aggregated = @ \cup (IF item.as THEN NonAggregatedVariables(e) ELSE {item.var}),
            !.aliases = IF item.as THEN @ @@ (item.var :> Clone(e)) ELSE @,
            !.in_scope = @ \cup {item.var}]

(* A variable that stands alone counts under its own name; under ASC and   *)
(* DESC it is an expression, and what it is an alias of counts.            *)
IsBareVariable(condition) == condition.direction = "" /\ condition.expr.op = "var"
VisitOrderCondition(v, condition) ==
    LET e == Resolved(v.aliases, condition.expr)
    IN  [VisitExpression(v, e) EXCEPT
            !.order_by = Append(@, e),
            !.ordering_type = Append(@, condition.direction = "DESC"),
            !.non_aggregated = @ \cup IF IsBareVariable(condition) THEN {condition.expr.var}
                                      ELSE NonAggregatedVariables(e)]

(* visitSelectQuery_impl: in a query with aggregates, other variables have *)
(* to be part of the group key.                                            *)
Visited(scope, q) ==
    LET start == [solution_mapping |-> <<>>, solution_filters |-> <<>>, grouping_key |-> <<>>,
                  order_by |-> <<>>, ordering_type |-> <<>>, aggregates |-> FALSE, tracked |-> {},
                  aliases |-> <<>>, in_scope |-> scope, projected |-> {}, vars_in_group_by |-> {},
                  non_aggregated |-> {}, malformed |-> FALSE]
        grouped == FoldLeft(VisitGroupCondition, start, q.group)
        filtered == FoldLeft(VisitHavingCondition, grouped, q.having)
        selected == FoldLeft(VisitSelectVariable, filtered, q.select)
        Checked(v) == [v EXCEPT !.malformed = @ \/ (v.aggregates /\ ~(v.non_aggregated \subseteq v.vars_in_group_by))]
    IN  Checked(FoldLeft(VisitOrderCondition, selected, q.order))
=============================================================================
