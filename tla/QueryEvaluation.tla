---------------------------- MODULE QueryEvaluation ----------------------------
(***************************************************************************)
(* Evaluation with the graphs QueryUpdateVisitor makes of patterns and the *)
(* operators, whose answers SparqlAlgebra says.                            *)
(***************************************************************************)
EXTENDS Operators, Evaluation

Tracked(q) == q.projected \cup ExpressionVars(q.pattern)

(* get_project_operator.  When nothing is tracked there is one entry that  *)
(* counts the solutions, even if there are none.                           *)
AsEntries(tracked, g, r) == IF AllTrackedVarsDone(tracked, g) THEN [r EXCEPT !.yields = <<r.entry>>] ELSE r
Unprojected(tracked, g, ops, pruned) ==
    LET start == [key |-> Nothing, value |-> 1]
    IN  IF pruned THEN Outcome(<<>>, start)
        ELSE AsEntries(tracked, g, GetSubOperator(tracked, g, ops, start, AllTrackedVarsDone(tracked, g)))
Project(q, r) ==
    [r EXCEPT !.yields = [i \in DOMAIN @ |-> [@[i] EXCEPT !.key = Projected(@, q.projected)]]]
ProjectOperator(q, g, ops, pruned) == Project(q, Unprojected(Tracked(q), g, ops, pruned))

-----------------------------------------------------------------------------
(* No assertion of the operators fails, whatever the data and with it the  *)
(* order in which variables are resolved: every graph that evaluation      *)
(* reaches has one independent strong component (isc_operands), every      *)
(* operator gets operands that fit its graph, and CountOperator and        *)
(* ResolveOperator get a lone operand that is not empty.                   *)
NoAssertionFails == sound

(* Evaluation::evaluate answers the query as the SPARQL algebra says: each *)
(* solution as often as it says, whichever variables the sizes of the      *)
(* operands let the operators resolve first.                               *)
Occurrences(key) == FoldLeft(LAMBDA n, a : IF a.key = key THEN n + a.value ELSE n, 0, answers)
Answered ==
    [key \in {answers[i].key : i \in {j \in DOMAIN answers : answers[j].value > 0}} |-> Occurrences(key)]
AnswersAreTheAlgebras == phase = "done" => Answered = Answer(query, data)

(* FilterOperator: a filter of the query holds of every answer that shows  *)
(* its variables.                                                          *)
AnswersPassTheFilters ==
    \A i \in DOMAIN answers : \A f \in Range(AllConjuncts(query.pattern.filters)) :
        answers[i].value > 0 /\ Range(f.vars) \subseteq query.projected => Holds(f, answers[i].key)
=============================================================================
