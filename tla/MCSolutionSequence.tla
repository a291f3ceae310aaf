-------------------------- MODULE MCSolutionSequence --------------------------
EXTENDS SolutionSequence

x == Variable("x")
y == Variable("y")
Number(n) == Constant(Integer(n))
Is(op, e, f) == Expression(op, <<e, f>>)
CountAll == Aggregate("count_star", <<>>)
Of(op, e) == Aggregate(op, <<e>>)

Plain(v) == [var |-> v, as |-> FALSE, expr |-> Variable(v)]
As(e, v) == [var |-> v, as |-> TRUE, expr |-> e]
By(e) == [expr |-> e, as |-> ""]
ByNamed(e, v) == [expr |-> e, as |-> v]
Alone(e) == [expr |-> e, direction |-> ""]
Asc(e) == [expr |-> e, direction |-> "ASC"]
Desc(e) == [expr |-> e, direction |-> "DESC"]

XY == SelectQuery(<<Plain("x"), Plain("y")>>)
X == SelectQuery(<<Plain("x")>>)
CountByX == [SelectQuery(<<Plain("x"), As(CountAll, "c")>>) EXCEPT !.group = <<By(x)>>]
CountByG ==
    [SelectQuery(<<Plain("g"), As(Of("count", y), "c")>>) EXCEPT !.group = <<ByNamed(Is("plus", x, Number(1)), "g")>>]

Projections == {
    XY,
    [XY EXCEPT !.order = <<Desc(y), Asc(x)>>],
    [XY EXCEPT !.distinct = TRUE, !.order = <<Alone(y)>>, !.limit = 2],
    [X EXCEPT !.limit = 2, !.offset = 1],
    [X EXCEPT !.limit = 0],
    [X EXCEPT !.distinct = TRUE, !.offset = 1],
    [SelectQuery(<<Plain("y")>>) EXCEPT !.order = <<Asc(x)>>, !.limit = 3, !.offset = 2],
    [SelectQuery(<<As(Is("plus", x, y), "z"), As(Expression("coalesce", <<Variable("z"), Number(0)>>), "w")>>)
        EXCEPT !.order = <<Desc(Variable("z"))>>],
    SelectQuery(<<As(Is("times", x, Expression("negative", <<y>>)), "z"),
                  As(Is("divided_by", Is("minus", x, Number(2)), Expression("positive", <<x>>)), "w")>>),
    SelectQuery(<<As(Expression("if", <<Is("equals", x, Number(1)), y, x>>), "z")>>),
    SelectQuery(<<As(Expression("in", <<x, Number(1), Number(3)>>), "a"),
                  As(Expression("not", <<Is("less", x, Number(2))>>), "b"),
                  As(Is("and", Is("greater_equals", x, Number(2)), Expression("bound", <<y>>)), "c"),
                  As(Is("or", y, Is("same_term", x, Number(2))), "d")>>),
    [SelectQuery(<<As(Number(1), "z")>>) EXCEPT !.limit = 2]}

Aggregations == {
    SelectQuery(<<As(CountAll, "c")>>),
    SelectQuery(<<As(Of("count", y), "c"), As(Of("sum", x), "s"), As(Of("min", y), "l"), As(Of("max", x), "h")>>),
    SelectQuery(<<As(Average(x), "a"), As(Of("count_distinct", y), "c"), As(Aggregate("count_star_distinct", <<>>), "d")>>),
    SelectQuery(<<As(Is("plus", Of("sum", y), Number(1)), "s")>>),
    SelectQuery(<<As(Is("plus", CountAll, Number(1)), "c"), As(Is("plus", Variable("c"), Of("count", x)), "d")>>),
    CountByX,
    [CountByX EXCEPT !.order = <<Desc(CountAll)>>, !.limit = 1],
    [CountByX EXCEPT !.order = <<Desc(Variable("c")), Asc(x)>>],
    [CountByX EXCEPT !.having = <<Is("greater", CountAll, Number(1)), Is("less", x, Number(2))>>],
    [SelectQuery(<<As(Of("sample", x), "s"), As(Of("sum", y), "t")>>) EXCEPT !.group = <<By(x), By(y)>>],
    [SelectQuery(<<Plain("y"), As(Of("sum", x), "s")>>)
        EXCEPT !.group = <<By(y)>>, !.having = <<Is("not_equals", Of("min", x), Number(2))>>, !.order = <<Desc(y)>>],
    [CountByG EXCEPT !.order = <<Alone(Variable("g"))>>],
    [SelectQuery(<<As(CountAll, "c")>>)
        EXCEPT !.group = <<By(x)>>, !.distinct = TRUE, !.order = <<Asc(CountAll)>>, !.offset = 1]}

MalformedQueries == {
    SelectQuery(<<Plain("x"), As(CountAll, "c")>>),
    SelectQuery(<<Plain("x"), Plain("x")>>),
    SelectQuery(<<As(Of("sum", Of("count", x)), "c")>>),
    [CountByG EXCEPT !.order = <<Desc(Variable("g"))>>],
    [CountByX EXCEPT !.order = <<Alone(Variable("c"))>>]}

MCQueries == Projections \cup Aggregations \cup MalformedQueries

Keys == [x : {Integer(1), Integer(2)}, y : {Null, Integer(1)}]
MaxEntries == 3
MCWheres == UNION {[1 .. n -> [key : Keys, value : {1, 2}]] : n \in 0 .. MaxEntries}

(* What these queries order by has an order. *)
ASSUME RanksHaveAnOrder ==
    \A q \in MCQueries \ MalformedQueries, entries \in MCWheres :
        \E solutions \in {SolutionsOf(q, entries)} :
            \A i \in DOMAIN solutions : solutions[i].ranks \in Ranks(Len(q.order))
=============================================================================
