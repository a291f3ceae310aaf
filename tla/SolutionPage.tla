------------------------------ MODULE SolutionPage ------------------------------
(***************************************************************************)
(* What happens to the entries that the operators of a SELECT query yield  *)
(* on their way to the reader: they are sorted, DistinctOperator leaves    *)
(* out the rows it has seen, and LimitPaginationOperator cuts the page out *)
(* of the solutions.  An entry is a row and the number of solutions it     *)
(* stands for; a query q has the fields distinct, limit and offset, -1     *)
(* where it has no LIMIT or OFFSET.                                        *)
(***************************************************************************)
EXTENDS Nodes, SequencesExt, FiniteSets

(* IncrementalSolutionOrdering and GroupedSolutionOrdering: desc tells the *)
(* keys to sort by in descending order.                                    *)
PrecedesBySome(desc, ranks, others) == \E i \in DOMAIN ranks :   \* mutant: later keys are not only for ties
    IF desc[i] THEN Before(others[i], ranks[i]) ELSE Before(ranks[i], others[i])
Precedes(desc, ranks, others) ==
    \E i \in DOMAIN ranks :
        /\ \A j \in 1 .. i - 1 : ranks[j] = others[j]
        /\ IF desc[i] THEN Before(others[i], ranks[i]) ELSE Before(ranks[i], others[i])
Ranks(n) == [1 .. n -> SortableNodes]
(* multiset::insert: after those that are not greater. *)
Place(desc, s, item) == Cardinality({i \in DOMAIN s : ~Precedes(desc, item.ranks, s[i].ranks)}) + 1
Inserted(desc, s, item) == InsertAt(s, Place(desc, s, item), item)
InsertedAll(desc, items) ==
    LET after[n \in 0 .. Len(items)] == IF n = 0 THEN <<>> ELSE Inserted(desc, after[n - 1], items[n])
    IN  after[Len(items)]

-----------------------------------------------------------------------------
(* The state of DISTINCT and LIMIT, and what the reader gets. *)
NoPage == [found_entries |-> {}, offset_counter |-> 0, limit_counter |-> 0, answers |-> <<>>, broken |-> FALSE]

(* LimitPaginationOperator: what an entry adds to the page.  An entry that *)
(* is cut ends the evaluation.                                             *)
Answer(p, row, value) == [p EXCEPT !.answers = Append(@, [row |-> row, value |-> value])]
Counted(p, row, value) == [Answer(p, row, value) EXCEPT !.limit_counter = @ + value]
Cut(q, p, row) == [Answer(p, row, q.limit - p.limit_counter) EXCEPT !.broken = TRUE]
WithinLimit(q, p, row, value) ==
    IF q.limit # -1 /\ p.limit_counter + value >= q.limit THEN Cut(q, p, row) ELSE Counted(p, row, value)
AfterOffsetUncounted(q, p, row, rest) == IF rest > 0 THEN Answer(p, row, rest) ELSE p   \* mutant: LIMIT does not count it
AfterOffset(q, p, row, rest) == IF rest > 0 THEN WithinLimit(q, p, row, rest) ELSE p
Paginate(q, p, row, value) ==
    IF q.limit = -1 /\ q.offset = -1 THEN Answer(p, row, value)
    ELSE IF p.offset_counter < q.offset
    THEN AfterOffset(q, [p EXCEPT !.offset_counter = @ + value], row, p.offset_counter + value - q.offset)
    ELSE WithinLimit(q, p, row, value)

(* DistinctOperator *)
Yielded(q, p, row, value) ==
    IF ~q.distinct THEN Paginate(q, p, row, value)
    ELSE IF row \in p.found_entries THEN p
    ELSE Paginate(q, [p EXCEPT !.found_entries = @ \cup {row}], row, 1)
=============================================================================
