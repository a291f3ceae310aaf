---------------------------- MODULE SolutionSequence ----------------------------
(***************************************************************************)
(* From the solutions of a WHERE clause to the answers of a SELECT query:  *)
(* projection, GROUP BY, HAVING, ORDER BY, DISTINCT, LIMIT and OFFSET.     *)
(* SelectQueryVisitor makes a query of the clauses, SelectEvaluation       *)
(* evaluates it, and SolutionModifiers says what the answers are.          *)
(***************************************************************************)
EXTENDS SolutionModifiers, SelectQueryVisitor, SelectEvaluation

Scope(entries) == UNION {DOMAIN entries[i].key : i \in DOMAIN entries} \cup {"x", "y"}
Parsed(q, entries) == Visited(Scope(entries), q)
NotParsed == Visited({}, SelectQuery(<<>>))

-----------------------------------------------------------------------------
(* What the reader has seen of this evaluation, an entry as often as it    *)
(* counts.                                                                 *)
Rows == FoldLeft(LAMBDA s, answer : s \o [i \in 1 .. answer.value |-> answer.row], <<>>, page.answers)
HasAnswered == page.answers # <<>>
Occurrences(row, rows) == Cardinality({i \in DOMAIN rows : rows[i] = row})

(* At every moment, and in every evaluation of a cached query, each answer *)
(* is a solution the recommendation gives the query, and is given no more  *)
(* often: copies of expressions, groups and the page start afresh, and an  *)
(* entry that stands for several solutions counts as often for every part  *)
(* of its group.                                                           *)
AnswersAreSolutions ==
    HasAnswered =>
        \E solutions \in {SolutionsOf(syntax, where)} :
            \A row \in Range(Rows) :
                Occurrences(row, Rows) <= Occurrences(row, [i \in DOMAIN solutions |-> solutions[i].row])

(* The k-th answer is one of the solutions that ORDER BY may put there,    *)
(* after those that OFFSET leaves out.                                     *)
AnswersAreInOrder ==
    HasAnswered =>
        \E solutions \in {SolutionsOf(syntax, where)} :
            \A k \in DOMAIN Rows :
                /\ k + FirstOfPage(syntax) - 1 \in DOMAIN solutions
                /\ \E i \in DOMAIN solutions :
                       /\ solutions[i].row = Rows[k]
                       /\ solutions[i].ranks = solutions[k + FirstOfPage(syntax) - 1].ranks

(* An evaluation that has ended has given as many answers as there are on  *)
(* the page, though entries are cut where it begins and ends.              *)
ThePageIsFull ==
    phase = "done" =>
        Len(Rows) = PageLength(syntax, Len(SolutionsOf(syntax, where)))
=============================================================================
