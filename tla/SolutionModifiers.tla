---------------------------- MODULE SolutionModifiers ----------------------------
(***************************************************************************)
(* What the solution modifiers of SPARQL 1.1 say of a SELECT query (the    *)
(* recommendation's sections 11, 15, 17.2 and 18.2.4): the solutions a     *)
(* query has, each with the ranks ORDER BY gives it.  An expression is     *)
(* evaluated over a solution mapping and the solutions of its group, and   *)
(* has no state; Null is an unbound variable and an error alike.           *)
(***************************************************************************)
EXTENDS Expressions

SelectQuery(select) ==
    [select |-> select, group |-> <<>>, having |-> <<>>, order |-> <<>>,
     distinct |-> FALSE, limit |-> -1, offset |-> -1]

-----------------------------------------------------------------------------
(* Expressions. *)

(* The tables of section 17.2: false, error, true. *)
Level(v) == IF v = Null THEN 1 ELSE IF Truth(v) THEN 2 ELSE 0
OfLevel(n) == IF n = 1 THEN Null ELSE Boolean(n = 2)
Least(S) == CHOOSE n \in S : \A m \in S : n <= m
Greatest(S) == CHOOSE n \in S : \A m \in S : n >= m

Related(op, v, w) ==
    CASE op = "equals" -> v = w
      [] op = "not_equals" -> v # w
      [] op = "less" -> v[2] < w[2]
      [] op = "greater" -> w[2] < v[2]
      [] op = "less_equals" -> v[2] <= w[2]
      [] op = "greater_equals" -> w[2] <= v[2]

AddUp(vs) == FoldLeft(Plus, Integer(0), vs)
IsBound(v) == v # Null
FirstBound(vs) == IF \E i \in DOMAIN vs : IsBound(vs[i]) THEN Head(SelectSeq(vs, IsBound)) ELSE Null
Unique(vs) == SetToSeq(Range(vs))

(* An aggregate of the values vs of its operand.  SUM over an error is an  *)
(* error; COUNT, MIN and MAX leave errors out.                             *)
Aggregated(op, vs) ==
    LET bound == SelectSeq(vs, IsBound)
    IN  CASE op = "count" -> Integer(Len(bound))
          [] op = "count_distinct" -> Integer(Cardinality(Range(bound)))
          [] op = "sum" -> AddUp(vs)
          [] op = "sum_distinct" -> AddUp(Unique(vs))
          [] op = "min" -> IF bound = <<>> THEN Null ELSE CHOOSE v \in Range(bound) : \A w \in Range(bound) : ~Before(w, v)
          [] op = "max" -> IF bound = <<>> THEN Null ELSE CHOOSE v \in Range(bound) : \A w \in Range(bound) : ~Before(v, w)
          [] op = "avg" -> IF vs = <<>> THEN Integer(0) ELSE DividedBy(AddUp(vs), Integer(Len(vs)))
          [] op = "sample" -> FirstBound(vs)

RECURSIVE Meaning(_, _, _)
OverMembers(e, members) == [i \in DOMAIN members |-> Meaning(e, members[i], <<>>)]
OperationMeaning(op, vs) ==
    CASE op = "bound" -> Boolean(IsBound(vs[1]))
      [] op = "coalesce" -> FirstBound(vs)
      [] op = "and" -> OfLevel(Least({Level(v) : v \in Range(vs)}))
      [] op = "or" -> OfLevel(Greatest({Level(v) : v \in Range(vs)}))
      [] op = "not" -> OfLevel(2 - Level(vs[1]))
      [] op \in {"plus", "minus", "times", "divided_by"} -> Arithmetic(op, vs[1], vs[2])
      [] op \in {"positive", "negative"} -> Unary(op, vs[1])
      [] OTHER ->
         IF Null \in Range(vs) THEN Null
         ELSE CASE op = "in" -> Boolean(vs[1] \in Range(Tail(vs)))
                [] op = "not_in" -> Boolean(vs[1] \notin Range(Tail(vs)))
                [] op = "same_term" -> Boolean(vs[1] = vs[2])
                [] op = "is_iri" -> Boolean(vs[1][1] = "iri")
                [] op = "is_literal" -> Boolean(IsLiteral(vs[1]))
                [] op = "is_numeric" -> Boolean(vs[1][1] = "integer")
                [] OTHER -> Boolean(Related(op, vs[1], vs[2]))
Meaning(e, mapping, members) ==
    CASE e.op = "var" -> IF e.var \in DOMAIN mapping THEN mapping[e.var] ELSE Null
      [] e.op = "constant" -> e.value
      [] e.op = "count_star" -> Integer(Len(members))
      [] e.op = "count_star_distinct" -> Integer(Cardinality(Range(members)))
      [] e.op = "avg" -> Aggregated("avg", OverMembers(e.args[1].args[1], members))
      [] e.op \in Aggregates -> Aggregated(e.op, OverMembers(e.args[1], members))
      [] e.op = "if" ->
         LET condition == Meaning(e.args[1], mapping, members)
         IN  IF condition = Null THEN Null
             ELSE Meaning(e.args[IF Truth(condition) THEN 2 ELSE 3], mapping, members)
      [] OTHER -> OperationMeaning(e.op, [i \in DOMAIN e.args |-> Meaning(e.args[i], mapping, members)])

-----------------------------------------------------------------------------
(* Solutions. *)
With(mapping, x, v) == [y \in DOMAIN mapping \cup {x} |-> IF y = x THEN v ELSE mapping[y]]

(* A sequence of entries as a sequence of solution mappings. *)
Expand(entries) == FoldLeft(LAMBDA s, entry : s \o [i \in 1 .. entry.value |-> entry.key], <<>>, entries)

(* SELECT binds its aliases from left to right, ORDER BY sees them. *)
Extended(q, mapping, members) ==
    FoldLeft(LAMBDA m, item : IF item.as THEN With(m, item.var, Meaning(item.expr, m, members)) ELSE m,
             mapping, q.select)
Solution(q, mapping, members) ==
    LET m == Extended(q, mapping, members)
    IN  [row |-> [i \in DOMAIN q.select |-> Meaning(Variable(q.select[i].var), m, members)],
         ranks |-> [i \in DOMAIN q.order |-> Meaning(q.order[i].expr, m, members)]]

HasAggregates(q) ==
    \E e \in {q.select[i].expr : i \in DOMAIN q.select} \cup Range(q.having) \cup {q.order[i].expr : i \in DOMAIN q.order} :
        \E a \in Subexpressions(e) : a.op \in Aggregates

Named(q, mapping) ==
    FoldLeft(LAMBDA m, c : IF c.as # "" THEN With(m, c.as, Meaning(c.expr, m, <<>>)) ELSE m, mapping, q.group)
GroupKey(q, mapping) == [i \in DOMAIN q.group |-> Meaning(q.group[i].expr, mapping, <<>>)]
Members(q, mappings, key) == SelectSeq(mappings, LAMBDA m : GroupKey(q, m) = key)
PassesHaving(q, members) ==
    \A i \in DOMAIN q.having : Truth(Meaning(q.having[i], Named(q, members[1]), members))

Grouped(q, mappings) ==
    LET keys == SetToSeq({GroupKey(q, m) : m \in Range(mappings)})
        kept == SelectSeq(keys, LAMBDA key : PassesHaving(q, Members(q, mappings, key)))
    IN  [i \in DOMAIN kept |->
            LET members == Members(q, mappings, kept[i])
            IN  Solution(q, Named(q, members[1]), members)]

Unlimited(q, entries) ==
    LET mappings == Expand(entries)
    IN  IF q.group # <<>> THEN Grouped(q, mappings)
        ELSE IF HasAggregates(q) THEN <<Solution(q, <<>>, mappings)>>
        ELSE [i \in DOMAIN mappings |-> Solution(q, mappings[i], <<>>)]

(* ORDER BY: unbound before IRIs before literals; DESC turns it round. *)
Smaller(q, i, v, w) == IF q.order[i].direction = "DESC" THEN Before(w, v) ELSE Before(v, w)
RanksBelow(q, r, s) == \E i \in DOMAIN r : Smaller(q, i, r[i], s[i]) /\ \A j \in 1 .. i - 1 : r[j] = s[j]
Arrange(q, solutions) ==
    FoldLeft(LAMBDA s, sol :
                 LET place == Cardinality({i \in DOMAIN s : ~RanksBelow(q, sol.ranks, s[i].ranks)})
                 IN  InsertAt(s, place + 1, sol),
             <<>>, solutions)

(* DISTINCT keeps the first of equal rows. *)
WithoutDuplicates(solutions) ==
    SelectSeq([i \in DOMAIN solutions |-> [at |-> i, is |-> solutions[i]]],
              LAMBDA s : \A j \in 1 .. s.at - 1 : solutions[j].row # s.is.row)
SolutionsOf(q, entries) ==
    LET arranged == Arrange(q, Unlimited(q, entries))
        kept == WithoutDuplicates(arranged)
    IN  IF q.distinct THEN [i \in DOMAIN kept |-> kept[i].is] ELSE arranged

(* OFFSET and LIMIT. *)
FirstOfPage(q) == IF q.offset = -1 THEN 1 ELSE q.offset + 1
PageLength(q, total) ==
    LET left == Greatest({0, total - FirstOfPage(q) + 1})
    IN  IF q.limit = -1 THEN left ELSE Least({q.limit, left})
=============================================================================
