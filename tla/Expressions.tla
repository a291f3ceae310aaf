------------------------------ MODULE Expressions ------------------------------
(***************************************************************************)
(* Expressions are objects with a state: a variable keeps the value that   *)
(* update_value has put there, an aggregate what it has accumulated.       *)
(* evaluate reads that state, and clone copies the object.                 *)
(***************************************************************************)
EXTENDS Nodes, SequencesExt, FiniteSets

(* An expression: its operands, the variable it reads, and its state. *)
Expression(op, args) == [op |-> op, args |-> args, var |-> "", value |-> Null, count |-> 0, seen |-> {}]
Variable(x) == [Expression("var", <<>>) EXCEPT !.var = x]
Constant(v) == [Expression("constant", <<>>) EXCEPT !.value = v]

Summing == {"sum", "sum_distinct"}
Aggregates == Summing \cup {"count_star", "count_star_distinct", "count", "count_distinct", "avg", "min", "max", "sample"}
Aggregate(op, args) == IF op \in Summing THEN [Expression(op, args) EXCEPT !.value = Integer(0)] ELSE Expression(op, args)
(* Avg works with a sum and a count of its own. *)
Average(e) == Expression("avg", <<Aggregate("sum", <<e>>), Aggregate("count", <<e>>)>>)

RECURSIVE Variables(_), AggregatedVariables(_), NonAggregatedVariables(_), Subexpressions(_)
OfOperands(e, Of(_)) == UNION {Of(e.args[i]) : i \in DOMAIN e.args}
Variables(e) == IF e.op = "var" THEN {e.var} ELSE OfOperands(e, Variables)
AggregatedVariables(e) ==
    IF e.op \in Aggregates THEN Variables(e) ELSE OfOperands(e, AggregatedVariables)
NonAggregatedVariables(e) ==
    IF e.op = "var" THEN {e.var}
    ELSE IF e.op \in Aggregates THEN {}
    ELSE OfOperands(e, NonAggregatedVariables)

Subexpressions(e) == {e} \cup OfOperands(e, Subexpressions)

(* evaluate *)
RECURSIVE Value(_)
And(values) == IF \E v \in values : v # Null /\ ~Truth(v) THEN Boolean(FALSE)
               ELSE IF Null \in values THEN Null ELSE Boolean(TRUE)
Or(values) == IF \E v \in values : Truth(v) THEN Boolean(TRUE)
              ELSE IF Null \in values THEN Null ELSE Boolean(FALSE)
Not(v) == IF v = Null THEN Null ELSE Boolean(~Truth(v))
In(v, list, not_in) == Boolean((v \in list) # not_in)
Coalesce(vs) == IF \E i \in DOMAIN vs : vs[i] # Null
                THEN vs[CHOOSE i \in DOMAIN vs : vs[i] # Null /\ \A j \in 1 .. i - 1 : vs[j] = Null]
                ELSE Null
If(condition, args) == IF condition = Null THEN Null ELSE IF Truth(condition) THEN Value(args[2]) ELSE Value(args[3])
Avg(sum, count) == IF count = Integer(0) THEN Integer(0) ELSE DividedBy(sum, count)

Arithmetic(op, v, w) ==
    CASE op = "plus" -> Plus(v, w)
      [] op = "minus" -> Minus(v, w)
      [] op = "times" -> Times(v, w)
      [] op = "divided_by" -> DividedBy(v, w)
Unary(op, v) == IF op = "negative" THEN Minus(Integer(0), v) ELSE Plus(Integer(0), v)

Operation(e, vs) ==
    CASE e.op = "and" -> And(Range(vs))
      [] e.op = "or" -> Or(Range(vs))
      [] e.op = "not" -> Not(vs[1])
      [] e.op \in DOMAIN Holding -> Boolean(Compare(vs[1], vs[2]) \in Holding[e.op])
      [] e.op \in {"in", "not_in"} -> In(vs[1], Range(Tail(vs)), e.op = "not_in")
      [] e.op = "same_term" -> Boolean(vs[1] = vs[2])
      [] e.op = "is_iri" -> Boolean(vs[1][1] = "iri")
      [] e.op = "is_literal" -> Boolean(IsLiteral(vs[1]))
      [] e.op = "is_numeric" -> Boolean(vs[1][1] = "integer")
      [] e.op = "bound" -> Boolean(vs[1] # Null)
      [] e.op = "coalesce" -> Coalesce(vs)
      [] e.op \in {"plus", "minus", "times", "divided_by"} -> Arithmetic(e.op, vs[1], vs[2])
      [] e.op \in {"positive", "negative"} -> Unary(e.op, vs[1])
      [] e.op = "avg" -> Avg(vs[1], vs[2])
      [] e.op = "sample" -> vs[1]
Value(e) ==
    CASE e.op \in {"var", "constant", "min", "max"} \cup Summing -> e.value
      [] e.op \in {"count_star", "count"} -> Integer(e.count)
      [] e.op \in {"count_star_distinct", "count_distinct"} -> Integer(Cardinality(e.seen))
      [] e.op = "if" -> If(Value(e.args[1]), e.args)
      [] OTHER -> Operation(e, [i \in DOMAIN e.args |-> Value(e.args[i])])

(* update_value: what an aggregate adds to what it has.  SumDistinct looks *)
(* up the literals it has seen, but remembers none.                        *)
CountUp(e, key, v) ==
    CASE e.op = "count_star" -> [e EXCEPT !.count = @ + 1]
      [] e.op = "count_star_distinct" -> [e EXCEPT !.seen = @ \cup {key}]
      [] e.op = "count" /\ v # Null -> [e EXCEPT !.count = @ + 1]
      [] e.op = "count_distinct" /\ v # Null -> [e EXCEPT !.seen = @ \cup {v}]
      [] OTHER -> e
AddTo(e, v) == IF e.op = "sum_distinct" /\ v \in e.seen THEN e ELSE [e EXCEPT !.value = Plus(@, v)]
Extreme(e, v) ==
    IF v # Null /\ (IF e.op = "min" THEN e.value = Null \/ Before(v, e.value) ELSE Before(e.value, v))
    THEN [e EXCEPT !.value = v] ELSE e
Accumulate(e, key, v) ==
    CASE e.op \in Summing -> AddTo(e, v)
      [] e.op \in {"min", "max"} -> Extreme(e, v)
      [] e.op \in {"avg", "sample"} -> e
      [] OTHER -> CountUp(e, key, v)

RECURSIVE UpdateValue(_, _)
ReadFrom(e, key) == [e EXCEPT !.value = key[e.var]]
Updated(e, key) == [e EXCEPT !.args = [i \in DOMAIN @ |-> UpdateValue(@[i], key)]]
AccumulateOperand(e, key) == Accumulate(e, key, IF e.args = <<>> THEN Null ELSE Value(e.args[1]))
UpdateValue(e, key) ==
    CASE e.op = "var" -> ReadFrom(e, key)
      [] e.op \in Summing /\ e.value = Null -> e
      [] e.op \in Aggregates -> AccumulateOperand(Updated(e, key), key)
      [] OTHER -> Updated(e, key)

(* clone: InExpressionList forgets that it is negated. *)
RECURSIVE Clone(_)
Clone(e) ==
    [e EXCEPT !.args = [i \in DOMAIN @ |-> Clone(@[i])],
              !.op = IF @ = "not_in" THEN "in" ELSE @]
=============================================================================
