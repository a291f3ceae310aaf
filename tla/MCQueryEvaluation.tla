--------------------------- MODULE MCQueryEvaluation ---------------------------
(***************************************************************************)
(* Queries for TLC.  The data is every pair of binary relations over two   *)
(* nodes, which stand for triples with two predicates.  A pattern without  *)
(* variables selects whether a triple of the first one is there.  Each     *)
(* node is the relation that holds just it, and z is not in scope.         *)
(***************************************************************************)
EXTENDS QueryEvaluation

MCVarOrder == <<"a", "b", "c", "d", "z">>
MCAnonymous == {"z"}
There(p) == {<<>> : row \in {r \in p : r[1] = r[2] /\ r[1] = CHOOSE n \in Nodes : TRUE}}
MCData == {[n \in Nodes |-> {<<n>>}] @@ [p |-> p, q |-> q, t |-> There(p)] :
               p \in SUBSET (Nodes \X Nodes), q \in SUBSET (Nodes \X Nodes)}
Iri == CHOOSE n \in Nodes : TRUE

P(x, y) == TriplePattern("p", <<x, y>>)
Q(x, y) == TriplePattern("q", <<x, y>>)
Ground == TriplePattern("t", <<>>)
BGP(patterns) == Group(patterns, <<>>, <<>>, <<>>)
Unions(patterns, alternatives) == Group(patterns, alternatives, <<>>, <<>>)
Optional(patterns, groups) == Group(patterns, <<>>, groups, <<>>)
Filtered(patterns, filters) == Group(patterns, <<>>, <<>>, filters)

Selecting(pattern, projections) == {[projected |-> vs, pattern |-> pattern] : vs \in projections}
All == {"a", "b", "c", "d"}

Path == BGP(<<P("a", "b"), Q("b", "c")>>)
Apart == BGP(<<P("a", "b"), Q("c", "d")>>)
FilteredPath == Filtered(<<P("a", "b"), Q("b", "c")>>, <<Filter("!=", <<"a", "c">>)>>)
OptionalPath == Optional(<<P("a", "b")>>, <<BGP(<<Q("b", "c")>>)>>)
TwoOptionals == <<BGP(<<Q("b", "c")>>), BGP(<<P("b", "d")>>)>>
Either(x, y) == <<BGP(<<P(x, y)>>), BGP(<<Q(x, y)>>)>>

Joins ==
    Selecting(Path, {{}, {"a"}, {"a", "b"}, {"a", "c"}, {"a", "b", "c"}})
    \cup Selecting(Apart, {{"a", "b"}, {"a", "c"}, {"a", "b", "c"}, All})
    \cup Selecting(BGP(<<P("a", "b"), P("b", "c"), Q("c", "a")>>), {{"a"}, {"a", "b", "c"}})
    \cup Selecting(BGP(<<P("a", "b"), P("a", "c"), Q("a", "d")>>), {All, {"a", "d"}, {"b", "c"}})
    \cup Selecting(BGP(<<P("a", "a"), Q("a", "b")>>), {{"a", "b"}})
    \cup Selecting(BGP(<<P("a", "b"), Q("a", "b"), P("b", "c")>>), {{"b", "c"}})
    \cup Selecting(BGP(<<P("a", "a"), Q("a", "b"), P("b", "b")>>), {{"a", "b"}})
    \cup Selecting(BGP(<<Ground>>), {{}})
    \cup Selecting(BGP(<<P("a", "b"), Ground, Q("b", "c")>>), {{"a"}, {"a", "b", "c"}})
    \cup Selecting(BGP(<<P("a", "b"), Bind("b", "c")>>), {{"c"}, {"a", "b", "c"}})
    \cup Selecting(BGP(<<P("a", "b"), Bind("b", "c"), Bind("a", "d")>>), {All})
    \cup Selecting(BGP(<<P("a", "b"), Bind("a", "c"), Q("c", "d")>>), {All})

InUnions ==
    Selecting(Unions(<<>>, <<Either("a", "b")>>), {{}, {"a"}, {"a", "b"}})
    \cup Selecting(Unions(<<P("a", "b")>>, <<Either("b", "c")>>), {{"a", "b", "c"}})
    \cup Selecting(Unions(<<P("a", "b")>>, <<Either("c", "d")>>), {All})
    \cup Selecting(Unions(<<>>, <<Either("a", "b"), Either("b", "c")>>), {{"a", "b", "c"}})
    \cup Selecting(Unions(<<>>, <<Either("a", "b") \o <<BGP(<<P("b", "a")>>)>> >>), {{"a", "b"}})
    \cup Selecting(Unions(<<>>, << <<FilteredPath, BGP(<<Q("a", "b")>>)>> >>), {{"a", "b", "c"}})
    \cup Selecting(Unions(<<>>, << <<OptionalPath, BGP(<<Q("a", "b")>>)>> >>), {{"a", "b", "c"}})
    \cup Selecting(Group(<<>>, <<Either("a", "b")>>, <<BGP(<<Q("b", "c")>>)>>, <<>>), {{"a", "b", "c"}})

InOptionals ==
    Selecting(OptionalPath, {{"a", "b"}, {"a", "c"}, {"a", "b", "c"}})
    \cup Selecting(Optional(<<P("a", "b")>>, <<BGP(<<Q("b", "a")>>)>>), {{"a", "b"}})
    \cup Selecting(Optional(<<P("a", "b"), Q("b", "c")>>, <<BGP(<<Q("c", "d")>>)>>), {All, {"a", "d"}})
    \cup Selecting(Optional(<<P("a", "b"), Ground>>, <<BGP(<<Q("b", "c")>>)>>), {{"a", "b", "c"}})
    \cup Selecting(Optional(<<P("a", "b")>>, <<BGP(<<Q("b", "c"), Ground>>)>>), {{"a", "b", "c"}})
    \cup Selecting(Optional(<<P("a", "b")>>, TwoOptionals), {All})
    \cup Selecting(Optional(<<P("a", "b")>>, <<Optional(<<Q("b", "c")>>, <<BGP(<<P("c", "d")>>)>>)>>), {All, {"a", "d"}})
    \cup Selecting(Optional(<<P("a", "b")>>, <<BGP(<<Q("a", "c"), P("c", "d")>>)>>), {All})
    \cup Selecting(Optional(<<P("a", "b")>>, <<BGP(<<Q("c", "d")>>)>>), {All})

UnderFilters ==
    Selecting(FilteredPath, {{"b"}, {"a", "b", "c"}})
    \cup Selecting([FilteredPath EXCEPT !.filters = @ \o <<Filter("!=", <<"a", "b">>)>>], {{"a"}, {"a", "b", "c"}})
    \cup Selecting([Unions(<<P("a", "b")>>, <<Either("b", "c")>>) EXCEPT !.filters = <<Filter("!=", <<"a", "c">>)>>],
                   {{"a", "b", "c"}})
    \cup Selecting(Filtered(<<P("a", "b"), Q("b", "c")>>, <<Filter("=", <<"a", "c">>)>>), {{"a", "b", "c"}})
    \cup Selecting(Filtered(<<P("a", "b"), Q("c", "d")>>, <<Filter("=", <<"b", "c">>)>>), {All})
    \cup UNION {Selecting([OptionalPath EXCEPT !.filters = <<f>>], {{"a", "b", "c"}}) :
                    f \in {Filter("bound", <<"c">>), Filter("unbound", <<"c">>)}}
    \cup Selecting(Filtered(<<P("a", "b"), Q("b", "c")>>, <<FilterIs("c", Iri)>>), {{"a"}, {"a", "b", "c"}})
    \cup Selecting(Filtered(<<P("a", "b"), Q("b", "c")>>, <<And(<<Filter("!=", <<"a", "c">>), FilterIs("b", Iri)>>)>>),
                   {{"c"}, {"a", "b", "c"}})
    \cup Selecting(Filtered(<<P("a", "b"), Q("c", "d")>>, <<And(<<Filter("!=", <<"a", "d">>), Filter("=", <<"b", "c">>)>>)>>), {All})
    \cup Selecting([OptionalPath EXCEPT !.filters = <<And(<<Filter("bound", <<"c">>), FilterIs("a", Iri)>>)>>], {{"a", "b", "c"}})
    \cup UNION {Selecting([Path EXCEPT !.filters = <<f>>], {{"a"}, {"a", "b", "c"}}) :
                    f \in {FilterIs("z", Iri), Filter("=", <<"a", "z">>), And(<<Filter("unbound", <<"z">>), Filter("!=", <<"a", "b">>)>>)}}
    \cup Selecting(Optional(<<P("a", "b")>>, <<Filtered(<<Q("b", "c")>>, <<Filter("=", <<"b", "z">>)>>)>>), {{"a", "b", "c"}})
    \cup Selecting(Optional(<<P("a", "b")>>, <<Filtered(<<Q("b", "c")>>, <<FilterIs("c", Iri)>>)>>), {{"a", "b", "c"}})
    \cup Selecting(Group(<<P("a", "b")>>, <<>>, TwoOptionals, <<Filter("bound", <<"d">>)>>), {All})
    \cup Selecting(Group(<<P("a", "b")>>, <<>>, TwoOptionals, <<Filter("unbound", <<"c">>), Filter("bound", <<"d">>)>>), {All})

MCQueries == Joins \cup InUnions \cup InOptionals \cup UnderFilters

-----------------------------------------------------------------------------
(* Queries that are not answered as they should be. *)

FilteredOptional ==
    Selecting([OptionalPath EXCEPT !.filters = <<Filter("!=", <<"a", "b">>)>>], {{"a", "b", "c"}})
(* Nothing is compared with an unbound variable, and an IRI binds one. *)
UnboundComparison ==
    UNION {Selecting([OptionalPath EXCEPT !.filters = <<f>>], {{"a", "b", "c"}}) :
               f \in {Filter("!=", <<"a", "c">>), Filter("=", <<"a", "c">>), FilterIs("c", Iri)}}
JoinedBind == Selecting(BGP(<<P("a", "b"), Bind("b", "c"), Q("c", "a")>>), {{"a", "b", "c"}})
UnitedBind ==
    Selecting(Unions(<<>>, << <<BGP(<<P("a", "b"), Bind("b", "c")>>), BGP(<<Q("a", "b")>>)>> >>), {{"a", "b", "c"}})
CountedProduct == Selecting(BGP(<<P("a", "b"), Q("b", "c"), P("d", "d")>>), {{"a"}})
CountedOptional == Selecting(OptionalPath, {{"a"}})
=============================================================================
