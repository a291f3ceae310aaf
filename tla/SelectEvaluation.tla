---------------------------- MODULE SelectEvaluation ----------------------------
(***************************************************************************)
(* From the entries of a WHERE clause to the answers of a SELECT query:    *)
(* get_project_operator reads the entries of the sub operator one by one,  *)
(* and what it yields goes through DistinctOperator and                    *)
(* LimitPaginationOperator to the reader (SolutionPage).  A query that     *)
(* stays in the parse cache is evaluated again.                            *)
(*                                                                         *)
(* An entry is a key and the number of solutions it stands for.  The sub   *)
(* operator may yield its entries in any order and the same key twice,     *)
(* which QueryEvaluation is about.  What expressions and the visitor do is *)
(* left open here.                                                         *)
(***************************************************************************)
EXTENDS SolutionPage

CONSTANTS NodeOf(_), UpdatedBy(_, _), CopyOf(_),   \* value, update_value and clone of expressions
          QueryOf(_, _), Unparsed,                 \* QueryUpdateVisitor
          Queries,         \* what SELECT queries say, records as in SelectQuery
          Wheres,          \* sequences of entries [key, value]
          MaxEvaluations   \* of one query

VARIABLES syntax, where,              \* fixed
          query,                      \* the parsed query
          phase, evaluations,
          remaining,                  \* entries the sub operator has still to yield
          solution_expressions,       \* the copies a single operator works with
          groups,                     \* grouping key -> copies of expressions
          listed,                     \* what is still to be yielded after sorting or grouping
          page,                       \* the state of DISTINCT and LIMIT, and the answers
          given                       \* history: what this evaluation gave to the page

(* The inputs are queries and sequences of entries; what the visitor makes *)
(* of a query are sequences of expressions.                                *)
Total(entries) ==
    LET upto[n \in 0 .. Len(entries)] == IF n = 0 THEN 0 ELSE upto[n - 1] + entries[n].value
    IN  upto[Len(entries)]
IsSequence(s) == s \in Seq(Range(s))
IsQuery(q) ==
    /\ {"solution_mapping", "solution_filters", "order_by", "ordering_type", "grouping_key", "aggregates", "tracked"}
           \subseteq DOMAIN q
    /\ IsSequence(q.solution_mapping) /\ IsSequence(q.solution_filters)
    /\ IsSequence(q.order_by) /\ IsSequence(q.grouping_key)
ASSUME InputsAssumption ==
    /\ MaxEvaluations \in Nat
    /\ \A q \in Queries : q.distinct \in BOOLEAN /\ q.limit \in Nat \cup {-1} /\ q.offset \in Nat \cup {-1}
    /\ \A entries \in Wheres : IsSequence(entries) /\ \A i \in DOMAIN entries : entries[i].value \in Nat
    /\ \A q \in Queries, entries \in Wheres : IsQuery(QueryOf(q, entries))

vars == <<syntax, where, query, phase, evaluations, remaining, solution_expressions, groups, listed, page, given>>

Init == /\ syntax \in Queries /\ where \in Wheres
        /\ query = Unparsed
        /\ phase = "parse" /\ evaluations = 0
        /\ remaining = <<>> /\ solution_expressions = <<>> /\ groups = <<>> /\ listed = <<>>
        /\ page = NoPage /\ given = <<>>

Parse == /\ phase = "parse"
         /\ \E q \in {QueryOf(syntax, where)} :
                /\ query' = q
                /\ phase' = IF q.malformed THEN "malformed" ELSE "ready"
         /\ UNCHANGED <<syntax, where, evaluations, remaining, solution_expressions, groups, listed, page, given>>

-----------------------------------------------------------------------------
(* Evaluation::evaluate and get_project_operator.  The sub operator yields *)
(* the values of the tracked variables; when none is, it only counts.      *)
(* Without solutions the graph may have been pruned to nothing.            *)
CloneAll(exprs) == [i \in DOMAIN exprs |-> CopyOf(exprs[i])]
TrackingAll(entry) == entry   \* mutant: entries of all variables in scope
Tracking(entry) ==
    [key |-> [x \in query.tracked |-> IF x \in DOMAIN entry.key THEN entry.key[x] ELSE Null], value |-> entry.value]
Entries == IF query.tracked = {} THEN <<[key |-> <<>>, value |-> Total(where)]>>
           ELSE [i \in DOMAIN where |-> Tracking(where[i])]
Operator == CASE query.aggregates /\ query.grouping_key = <<>> -> "implicit"
              [] query.aggregates /\ query.grouping_key # <<>> -> "explicit"
              [] OTHER -> IF query.order_by = <<>> \/ query.tracked = {} THEN "project" ELSE "sort"
Evaluate ==
    /\ phase \in {"ready", "done"} /\ evaluations < MaxEvaluations
    /\ evaluations' = evaluations + 1
    /\ \E fully_pruned \in {FALSE, where = <<>>} :
           phase' = IF fully_pruned /\ Operator # "implicit" THEN "done" ELSE Operator
    /\ remaining' = Entries
    /\ solution_expressions' = CloneAll(query.solution_mapping)
    /\ groups' = <<>> /\ listed' = <<>>
    /\ page' = NoPage /\ given' = <<>>
    /\ UNCHANGED <<syntax, where, query>>

(* What an operator yields goes to the page, and the reader may have       *)
(* enough then.                                                            *)
Yield(row, value) == /\ page' = Yielded(syntax, page, row, value)
                     /\ given' = Append(given, [row |-> row, value |-> value])
Ends(now) == phase' = IF page'.broken \/ now THEN "done" ELSE phase

Values(exprs) == [i \in DOMAIN exprs |-> NodeOf(exprs[i])]
UpdateAll(exprs, key) == [i \in DOMAIN exprs |-> UpdatedBy(exprs[i], key)]
UpdateOnce(exprs, entry) == UpdateAll(exprs, entry.key)   \* mutant: an entry is one solution
UpdateOften(exprs, entry) ==
    LET after[n \in 0 .. entry.value] == IF n = 0 THEN exprs ELSE UpdateAll(after[n - 1], entry.key)
    IN  after[entry.value]

(* The entry of an aggregate operator is done with. *)
Consume == /\ remaining # <<>>
           /\ remaining' = Tail(remaining)

-----------------------------------------------------------------------------
(* ProjectOperator *)
ProjectAndYield(entry) ==
    \E exprs \in {UpdateAll(solution_expressions, entry.key)} :
        /\ solution_expressions' = exprs
        /\ Yield(Values(exprs), entry.value)

Project == /\ phase = "project" /\ Consume
           /\ ProjectAndYield(Head(remaining))
           /\ Ends(remaining' = <<>>)
           /\ UNCHANGED <<syntax, where, query, evaluations, groups, listed>>

RanksOf(entry) == Values(UpdateAll(query.order_by, entry.key))
Sort == /\ phase = "sort" /\ Consume
        /\ \E ranks \in {RanksOf(Head(remaining))} :
               listed' = Inserted(query.ordering_type, listed, [ranks |-> ranks, of |-> Head(remaining)])
        /\ UNCHANGED <<syntax, where, query, phase, evaluations, solution_expressions, groups, page, given>>
ProjectSorted ==
    /\ phase = "sort" /\ remaining = <<>> /\ listed # <<>>
    /\ ProjectAndYield(Head(listed).of)
    /\ listed' = Tail(listed)
    /\ Ends(listed' = <<>>)
    /\ UNCHANGED <<syntax, where, query, evaluations, remaining, groups>>

(* ImplicitAggregationOperator *)
Aggregating == /\ phase = "implicit" /\ Consume
               /\ solution_expressions' = UpdateOften(solution_expressions, Head(remaining))
               /\ UNCHANGED <<syntax, where, query, phase, evaluations, groups, listed, page, given>>
YieldAggregate == /\ phase = "implicit" /\ remaining = <<>>
                  /\ Yield(Values(solution_expressions), 1)
                  /\ Ends(TRUE)
                  /\ UNCHANGED <<syntax, where, query, evaluations, remaining, solution_expressions, groups, listed>>

(* ExplicitAggregationOperator: each group has expressions of its own.     *)
(* The key is computed with the expressions of the query.                  *)
NewGroup == [solution |-> CloneAll(query.solution_mapping), filters |-> CloneAll(query.solution_filters),
             ordering |-> CloneAll(query.order_by)]
GroupOf(key) == IF key \in DOMAIN groups THEN groups[key] ELSE NewGroup
Grouping == /\ phase = "explicit" /\ Consume
            /\ LET entry == Head(remaining)
               IN  /\ query' = [query EXCEPT !.grouping_key = UpdateAll(@, entry.key)]
                   /\ \E key \in {Values(query'.grouping_key)} :
                          \E group \in {GroupOf(key)} :
                              groups' = [k \in DOMAIN groups \cup {key} |->
                                            IF k = key THEN [part \in DOMAIN group |-> UpdateOften(group[part], entry)]
                                            ELSE groups[k]]
            /\ UNCHANGED <<syntax, where, phase, evaluations, solution_expressions, listed, page, given>>

(* The groups that pass the filters, in the order of the hash map or       *)
(* sorted.                                                                 *)
Passing == {key \in DOMAIN groups : \A i \in DOMAIN groups[key].filters : Truth(NodeOf(groups[key].filters[i]))}
GroupItems(keys) == [i \in DOMAIN keys |-> [ranks |-> Values(groups[keys[i]].ordering), of |-> keys[i]]]
ListGroups ==
    /\ phase = "explicit" /\ remaining = <<>>
    /\ \E keys \in SetToSeqs(Passing) : listed' = InsertedAll(query.ordering_type, GroupItems(keys))
    /\ phase' = IF listed' = <<>> THEN "done" ELSE "groups"
    /\ UNCHANGED <<syntax, where, query, evaluations, remaining, solution_expressions, groups, page, given>>
YieldGroup ==
    /\ phase = "groups" /\ listed # <<>>
    /\ Yield(Values(groups[Head(listed).of].solution), 1)
    /\ listed' = Tail(listed)
    /\ Ends(listed' = <<>>)
    /\ UNCHANGED <<syntax, where, query, evaluations, remaining, solution_expressions, groups>>

(* No entry was left. *)
Exhausted == /\ phase \in {"project", "sort"} /\ remaining = <<>> /\ listed = <<>>
             /\ phase' = "done"
             /\ UNCHANGED <<syntax, where, query, evaluations, remaining, solution_expressions, groups, listed, page, given>>

Next == Parse \/ Evaluate \/ Project \/ Sort \/ ProjectSorted \/ Aggregating \/ YieldAggregate
        \/ Grouping \/ ListGroups \/ YieldGroup \/ Exhausted
Spec == Init /\ [][Next]_vars

-----------------------------------------------------------------------------
(* Types: an evaluation works with the query that was parsed, and with     *)
(* copies of its expressions that stay as many, whatever their groups have *)
(* gone through; its entries have a value for each tracked variable and no *)
(* other, its rows one for each projected expression; only ordered and     *)
(* grouped evaluations list anything, and groups only that there are.      *)
Phases == {"parse", "malformed", "ready", "implicit", "explicit", "project", "sort", "groups", "done"}
HasParts(group) ==
    /\ Len(group.solution) = Len(query.solution_mapping)
    /\ Len(group.filters) = Len(query.solution_filters)
    /\ Len(group.ordering) = Len(query.order_by)
TypeOK ==
    /\ phase \in Phases
    /\ evaluations \in 0 .. MaxEvaluations
    /\ phase # "parse" => \E parsed \in {QueryOf(syntax, where)} :
                             \A field \in DOMAIN parsed \ {"grouping_key"} : query[field] = parsed[field]
    /\ \A i \in DOMAIN remaining : DOMAIN remaining[i].key = query.tracked /\ remaining[i].value \in Nat
    /\ evaluations > 0 => Len(solution_expressions) = Len(query.solution_mapping)
    /\ \A key \in DOMAIN groups : HasParts(groups[key])
    /\ \A i \in DOMAIN page.answers : Len(page.answers[i].row) = Len(query.solution_mapping)
                                      /\ page.answers[i].value \in Nat
    /\ phase \in {"implicit", "explicit", "project"} => listed = <<>>
    /\ phase = "groups" => \A i \in DOMAIN listed : listed[i].of \in Passing
=============================================================================
