------------------------------- MODULE Operators -------------------------------
(***************************************************************************)
(* The operators of query evaluation.  An operator takes a graph, the      *)
(* operands of its vertices in their order, and an entry, which is shared  *)
(* with its caller and holds the values found so far.                      *)
(*                                                                         *)
(* An operator is a generator that yields entries, or, when no variable    *)
(* of the operands is tracked (all_tracked_vars_done), a function that     *)
(* returns the entry with the number of solutions as its value.  What it   *)
(* does is an outcome: the entries it yields, the entry it leaves behind   *)
(* to its caller, and whether every assertion held.                        *)
(*                                                                         *)
(* Operators know the variables whose values the query needs, the tracked  *)
(* ones.                                                                   *)
(***************************************************************************)
EXTENDS SparqlAlgebra, QueryOperands, TLC

(* HashJoin: the values of x on which the operands of some vertices agree. *)
HashJoin(g, operands, x, vertices) ==
    {value \in Nodes :
        \A v \in vertices \cap Operands(g) :
            x \in VarIds(g, v) => ~IsEmpty(Sliced(g, operands, x :> value)[Position(g, v)])}

-----------------------------------------------------------------------------
(* Entries and outcomes. *)

WithValue(e, n) == [e EXCEPT !.value = n]
Assign(tracked, e, x, value) == IF x \in tracked THEN [e EXCEPT !.key[x] = value] ELSE e

(* clear_used_entry_poss *)
Clear(e, g) ==
    [e EXCEPT !.key = [x \in DOMAIN @ |-> IF x \in OperandsVarIdsSet(g) THEN Unbound ELSE @[x]]]

AllTrackedVarsDone(tracked, g) == tracked \cap OperandsVarIdsSet(g) = {}

Outcome(yields, e) == [yields |-> yields, entry |-> e, sound |-> TRUE]
Failed(e) == [yields |-> <<>>, entry |-> e, sound |-> FALSE]     \* an assertion does not hold
Then(r, s) == [yields |-> r.yields \o s.yields, entry |-> s.entry, sound |-> r.sound /\ s.sound]

ForEach(seq, e, Body(_, _)) ==
    FoldLeft(LAMBDA r, value : Then(r, Body(value, r.entry)), Outcome(<<>>, e), seq)
Listed(S) == FoldSet(LAMBDA x, s : Append(s, x), <<>>, S)

Sum(entries) == FoldLeft(LAMBDA n, e : n + e.value, 0, entries)

(* What a generator makes of a counted entry, and a counting operator of   *)
(* the entries counted in its loop.                                        *)
YieldIfAny(r) == IF r.entry.value = 0 THEN r ELSE [r EXCEPT !.yields = <<r.entry>>]
Total(r) == [r EXCEPT !.yields = <<>>, !.entry = WithValue(@, Sum(r.yields))]

RECURSIVE GetSubOperator(_, _, _, _, _)

(* Goes on with a graph from a generator. *)
Descend(tracked, g, operands, e) ==
    IF AllTrackedVarsDone(tracked, g)
    THEN YieldIfAny(GetSubOperator(tracked, g, operands, e, TRUE))
    ELSE GetSubOperator(tracked, g, operands, e, FALSE)

(* calcCard, a fraction: for each operand that has x, how many different   *)
(* values x has in it, compared to the fewest, divided by the number of    *)
(* different operands.                                                     *)
Dimensions(g, operands, x, v) ==
    {Cardinality({row[i] : row \in operands[Position(g, v)].rows}) : i \in {j \in DOMAIN g.var_ids[v] : g.var_ids[v][j] = x}}
Ratio(dimensions, distinct) ==
    [above |-> Min(UNION Range(dimensions)) ^ Cardinality(DOMAIN dimensions),
     below |-> FoldSet(LAMBDA v, n : n * Max(dimensions[v]), distinct, DOMAIN dimensions)]
Card(g, operands, x, with) ==
    Ratio([v \in with |-> Dimensions(g, operands, x, v)], Cardinality({operands[Position(g, v)] : v \in with}))

(* getMinCardLabel: of the variables that are not merely counted, one of   *)
(* the smallest cardinality, preferably one that an expression waits for,  *)
(* the first of these.                                                     *)
FirstOf(vs) == VarOrder[CHOOSE i \in DOMAIN VarOrder :
                            VarOrder[i] \in vs /\ \A j \in 1 .. i - 1 : VarOrder[j] \notin vs]
Smallest(card) ==
    {x \in DOMAIN card : \A y \in DOMAIN card : card[x].above * card[y].below <= card[y].above * card[x].below}
Preferably(wanted, vs) == IF vs \cap wanted # {} THEN vs \cap wanted ELSE vs
MinCardLabel(tracked, g, operands, vs, vertices) ==
    LET lonely == LonelyVarIds(g)
        Having(x) == {v \in vertices \cap Operands(g) : x \in VarIds(g, v)}
        Least(candidates) == Smallest([x \in candidates |-> Card(g, operands, x, Having(x))])
        expressed == UNION {VarIds(g, v) : v \in {u \in IscOperands(g) : IsExpression(g, u)}}
        Best(candidates) == IF candidates = {} THEN vs ELSE Preferably(expressed, Least(candidates))
    IN  IF Cardinality(vs) = 1 THEN FirstOf(vs)
        ELSE FirstOf(Best({x \in vs : x \in lonely => x \in tracked}))

-----------------------------------------------------------------------------
JoinOn(x, tracked, g, operands, e, done) ==
    LET sub == RemoveVarId(g, x)
        Resolved(value) == Extract(g, sub, Sliced(g, operands, x :> value))
        Yields(value, f) == Descend(tracked, sub, Resolved(value), Assign(tracked, f, x, value))
        Counts(value, f) == YieldIfAny(GetSubOperator(tracked, sub, Resolved(value), f, TRUE))
        values == Listed(HashJoin(g, operands, x, g.vertices))
    IN  IF done THEN Total(ForEach(values, Clear(e, g), Counts))
        ELSE ForEach(values, Clear(e, g), Yields)

JoinOperator(tracked, g, operands, e, done) ==
    IF OperandsVarIdsSet(g) = {} THEN Failed(e)
    ELSE JoinOn(MinCardLabel(tracked, g, operands, OperandsVarIdsSet(g), g.vertices), tracked, g, operands, e, done)

(* A left join goes through the values of a variable of the ISC.  It       *)
(* prunes what depends on operands that got empty, and where the rest has  *)
(* no solution it yields its own entry, provided that the ISC is resolved. *)
(* Counting, it passes on the operands as they were before the pruning.    *)
LeftJoinOn(x, tracked, g, operands, e, done) ==
    LET isc == IscOperands(g)
        evaluated == Cardinality(UNION {VarIds(g, v) : v \in isc}) <= 1
        AfterPruning(sliced) ==
            RemoveVarId(PruneGraph(g, {v \in g.vertices : IsEmpty(sliced[Position(g, v)])}), x)
        Reset(r) == [r EXCEPT !.entry = WithValue(Clear(@, g), 1)]
        OrOwn(r) == IF r.yields # <<>> \/ ~evaluated THEN r
                    ELSE [r EXCEPT !.yields = <<WithValue(r.entry, 1)>>]
        Yields(value, f) ==
            LET sliced == Sliced(g, operands, x :> value)
                sub == AfterPruning(sliced)
            IN  Reset(OrOwn(Descend(tracked, sub, Extract(g, sub, sliced), Assign(tracked, f, x, value))))
        Counts(value, f) ==
            LET sliced == Sliced(g, operands, x :> value)
            IN  YieldIfAny(GetSubOperator(tracked, AfterPruning(sliced), sliced, f, TRUE))
        Counted(r) == IF r.entry.value = 0 /\ evaluated
                      THEN [r EXCEPT !.yields = <<>>, !.entry = WithValue(@, 1)]
                      ELSE Total(r)
        values == Listed(HashJoin(g, operands, x, isc))
    IN  IF x \notin OperandsVarIdsSet(g) THEN Failed(e)
        ELSE IF done THEN Counted(ForEach(values, Clear(e, g), Counts))
        ELSE ForEach(values, Clear(e, g), Yields)

LeftJoinOperator(tracked, g, operands, e, done) ==
    LET first == g.var_ids[First(IscOperands(g))]
    IN  IF first = <<>> THEN Failed(e)
        ELSE IF done THEN LeftJoinOn(first[1], tracked, g, operands, e, done)
        ELSE LeftJoinOn(MinCardLabel(tracked, g, operands, NonOptionalVarIdsSet(g), IscOperands(g)),
                        tracked, g, operands, e, done)

CountOperator(tracked, g, operands, e, done) ==
    IF ~done \/ IsEmpty(operands[1]) THEN Failed(e)
    ELSE Outcome(<<>>, WithValue(e, Cardinality(operands[1].rows)))

ResolveOperator(tracked, g, operands, e, done) ==
    LET vars == g.var_ids[First(g.vertices)]
        Bound(f, row) ==
            [key |-> [x \in DOMAIN f.key |-> IF \E i \in DOMAIN vars : vars[i] = x
                                             THEN row[CHOOSE i \in DOMAIN vars : vars[i] = x] ELSE f.key[x]],
             value |-> 1]
    IN  IF done \/ IsEmpty(operands[1]) THEN Failed(e)
        ELSE ForEach(Listed(operands[1].rows), Clear(e, g),
                     LAMBDA row, f : Outcome(<<Bound(f, row)>>, Bound(f, row)))

EntryGeneratorOperator(tracked, g, operands, e, done) ==
    IF done THEN Outcome(<<>>, WithValue(e, 1)) ELSE Failed(e)

UnionOperator(tracked, g, operands, e, done) ==
    LET Yields(c, f) == LET r == Descend(tracked, c, Extract(g, c, operands), f)
                        IN  [r EXCEPT !.entry = Clear(@, c)]
        Counts(c, f) == YieldIfAny(GetSubOperator(tracked, c, Extract(g, c, operands), f, TRUE))
    IN  IF done THEN Total(ForEach(UnionComponents(g), Clear(e, g), Counts))
        ELSE ForEach(UnionComponents(g), Clear(e, g), Yields)

-----------------------------------------------------------------------------
(* evaluate of BOUND, !BOUND and comparisons: null is compared like a node. *)
Satisfied(filter, key) ==
    LET x == key[filter.vars[1]]
        y == key[filter.vars[Len(filter.vars)]]
    IN  CASE filter.test = "never" -> FALSE
          [] filter.test = "bound" -> x # Unbound
          [] filter.test = "unbound" -> x = Unbound
          [] filter.test = "=" -> x = y
          [] filter.test = "!=" -> x # y
FiltersHold(g, filters, e) == \A v \in filters : Satisfied(g.item[v], e.key)

FilterOperator(tracked, g, operands, e, done) ==
    LET filters == FiltersForEvaluation(g)
        sub == RemoveVertices(g, filters)
    IN  IF FiltersHold(g, filters, e) THEN GetSubOperator(tracked, sub, Extract(g, sub, operands), e, done)
        ELSE IF done THEN Outcome(<<>>, WithValue(e, 0)) ELSE Outcome(<<>>, e)

(* Filters on the variables of an optional part: they see its solutions,   *)
(* or the entry if it has none.                                            *)
FilterAltOperator(tracked, g, operands, e, done) ==
    LET filters == IscOperands(g)
        sub == RemoveVertices(g, filters)
        Kept(f) == FiltersHold(g, filters, f)
        Own(r) == WithValue(Clear(r.entry, sub), 1)
        Filtered(r) ==
            IF done THEN IF Kept(r.entry) THEN r ELSE [r EXCEPT !.entry = WithValue(@, 0)]
            ELSE IF r.yields # <<>> THEN [r EXCEPT !.yields = SelectSeq(@, Kept)]
            ELSE IF Kept(Own(r)) THEN [r EXCEPT !.yields = <<Own(r)>>, !.entry = Own(r)]
            ELSE [r EXCEPT !.entry = Clear(@, sub)]
    IN  IF \E v \in filters : ~IsFilter(g, v) THEN Failed(e)
        ELSE Filtered(GetSubOperator(tracked, sub, Extract(g, sub, operands), e, done))

(* evaluate_impl goes through the assignments in their order.  A variable  *)
(* that is resolved already is compared; any other gets the value of the   *)
(* expression and is sliced out of the operands.                           *)
Evaluate(g, assignments, e) ==
    FoldLeft(LAMBDA s, v :
                 LET x == g.item[v].result_var_id
                     value == s.entry.key[g.item[v].vars[1]]
                 IN  IF s.differs THEN s
                     ELSE IF x \in g.removed THEN [s EXCEPT !.differs = value # s.entry.key[x]]
                     ELSE [s EXCEPT !.entry.key[x] = value, !.new = (x :> value) @@ @],
             [entry |-> e, new |-> <<>>, differs |-> FALSE],
             SelectSeq([n \in 1 .. Cardinality(g.vertices) |-> AtRank(g, n - 1)],
                       LAMBDA v : v \in assignments))

AfterAssignments(s, tracked, g, rest, operands, done) ==
    LET sliced == Sliced(g, operands, s.new)
        pruned == PruneGraph(rest, {v \in rest.vertices : IsEmpty(sliced[Position(g, v)])})
        GoOn(sub) ==
            IF s.differs \/ (sub.vertices = {} /\ rest.vertices # {})
            THEN Outcome(<<>>, IF done THEN WithValue(s.entry, 0) ELSE s.entry)
            ELSE IF done THEN GetSubOperator(tracked, sub, Extract(g, sub, sliced), s.entry, TRUE)
            ELSE Descend(tracked, sub, Extract(g, sub, sliced), s.entry)
    IN  GoOn(FoldSet(LAMBDA x, h : RemoveVarId(h, x), pruned, DOMAIN s.new))

AssignmentOperator(tracked, g, operands, e, done) ==
    LET assignments == AssignmentsForEvaluation(g)
    IN  AfterAssignments(Evaluate(g, assignments, e), tracked, g, RemoveVertices(g, assignments), operands, done)

-----------------------------------------------------------------------------
(* eliminate_counts: the components that only count, which have one vertex *)
(* and no tracked variable.  The size of the operand is looked up at the   *)
(* position of the component.                                              *)
CountComponents(tracked, comps) ==
    {i \in DOMAIN comps : Cardinality(comps[i].vertices) = 1 /\ AllTrackedVarsDone(tracked, comps[i])}
CountOf(g, comps, operands, i) == Cardinality(operands[i].rows)

EliminateCounts(tracked, g, comps, operands, e) ==
    LET counted == CountComponents(tracked, comps)
        sub == RemoveVertices(g, UNION {comps[i].vertices : i \in counted})
        counts == FoldSet(LAMBDA i, n : n * CountOf(g, comps, operands, i), 1, counted)
        Times(r) == [r EXCEPT !.yields = [i \in DOMAIN @ |-> WithValue(@[i], @[i].value * counts)]]
    IN  Times(GetSubOperator(tracked, sub, Extract(g, sub, operands), e, FALSE))

(* A product takes from the entries of a component the variables of its    *)
(* operands.  An optional component without solutions leaves them unbound. *)
Overlay(e, c, f) ==
    [key |-> [x \in DOMAIN e.key |-> IF x \in OperandsVarIdsSet(c) THEN f.key[x] ELSE e.key[x]],
     value |-> e.value * f.value]
Product(es, c, fs) == FlattenSeq([i \in DOMAIN es |-> [j \in DOMAIN fs |-> Overlay(es[i], c, fs[j])]])

ProductOf(parts, g, comps, e, done) ==
    LET start == WithValue(Clear(e, g), 1)
        unbound == [key |-> [x \in DOMAIN e.key |-> Unbound], value |-> 1]
        Solved(i) == IF OptionalCartesian(g) /\ parts[i].yields = <<>> THEN <<unbound>> ELSE parts[i].yields
        Left(entries) == IF entries # <<>> THEN Last(entries) ELSE WithValue(start, IF done THEN 0 ELSE e.value)
        AsOutcome(entries) == [yields |-> IF done THEN <<>> ELSE entries, entry |-> Left(entries),
                               sound |-> \A i \in DOMAIN parts : parts[i].sound]
    IN  AsOutcome(FoldLeftDomain(LAMBDA es, i : Product(es, comps[i], Solved(i)), <<start>>, comps))

CartesianOver(comps, tracked, g, operands, e, done) ==
    LET start == WithValue(Clear(e, g), 1)
        Part(c) == Descend(tracked, c, Extract(g, c, operands), start)
    IN  IF ~done /\ CountComponents(tracked, comps) # {} THEN EliminateCounts(tracked, g, comps, operands, e)
        ELSE ProductOf([i \in DOMAIN comps |-> Part(comps[i])], g, comps, e, done)

CartesianOperator(tracked, g, operands, e, done) ==
    CartesianOver(CartesianComponents(g), tracked, g, operands, e, done)

-----------------------------------------------------------------------------
(* next_op.  Operators that read operands at the positions of the graph    *)
(* need the operands of that graph.                                        *)
NextOp(tracked, g) ==
    LET v == First(g.vertices)
        distinct == Cardinality(OperandsVarIdsSet(g)) = Len(g.var_ids[v])
    IN  IF g.vertices = {} THEN "EntryGenerator"
        ELSE IF Cardinality(g.vertices) = 1
        THEN CASE IsAssignment(g, v) -> "Assignment"
               [] IsFilter(g, v) -> "Filter"
               [] OTHER -> IF distinct /\ AllTrackedVarsDone(tracked, g) THEN "Count"
                           ELSE IF distinct /\ OperandsVarIdsSet(g) \subseteq tracked THEN "Resolve"
                           ELSE "Join"
        ELSE IF Len(UnionComponents(g)) > 1 THEN "Union"
        ELSE IF ~IscIsUnique(g) THEN "NoOp"
        ELSE IF AssignmentsForEvaluation(g) # {} THEN "Assignment"
        ELSE IF FiltersForEvaluation(g) # {} THEN "Filter"
        ELSE IF Len(CartesianComponents(g)) > 1 THEN "Cartesian"
        ELSE IF IscOperands(g) = g.vertices THEN "Join"
        ELSE IF NonOptionalVarIdsSet(g) = {} THEN "FilterAlt"
        ELSE "LeftJoin"

GetSubOperator(tracked, g, operands, e, done) ==
    LET op == NextOp(tracked, g)
    IN  IF op = "NoOp" \/ (op \notin {"EntryGenerator", "Union", "Filter", "FilterAlt"} /\ ~Aligned(g, operands))
        THEN Failed(e)
        ELSE CASE op = "EntryGenerator" -> EntryGeneratorOperator(tracked, g, operands, e, done)
               [] op = "Assignment" -> AssignmentOperator(tracked, g, operands, e, done)
               [] op = "Filter" -> FilterOperator(tracked, g, operands, e, done)
               [] op = "FilterAlt" -> FilterAltOperator(tracked, g, operands, e, done)
               [] op = "Count" -> CountOperator(tracked, g, operands, e, done)
               [] op = "Resolve" -> ResolveOperator(tracked, g, operands, e, done)
               [] op = "Union" -> UnionOperator(tracked, g, operands, e, done)
               [] op = "Cartesian" -> CartesianOperator(tracked, g, operands, e, done)
               [] op = "LeftJoin" -> LeftJoinOperator(tracked, g, operands, e, done)
               [] op = "Join" -> JoinOperator(tracked, g, operands, e, done)
=============================================================================
