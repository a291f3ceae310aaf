------------------------------- MODULE Evaluation -------------------------------
(***************************************************************************)
(* The way of a query: QueryUpdateVisitor makes a graph of it, Evaluation  *)
(* looks up the operands of the graph in the triple store and removes what *)
(* needs no evaluation, and the operators find the answers.  The data does *)
(* not change meanwhile, which TripleStore is about.  What graph a pattern *)
(* gets, and what the operators make of a graph, is left open here.        *)
(***************************************************************************)
EXTENDS QueryOperands

CONSTANTS Queries,       \* records with a pattern
          Data,          \* what the triple store holds: rows of each relation
          GraphOf(_),             \* QueryUpdateVisitor: the graph of a pattern
          AnswersOf(_, _, _, _)   \* the operators: [yields, sound] for a query and its graph, operands
                                  \* and whether it was fully pruned

VARIABLES query, data,            \* fixed
          phase,
          graph, operands,
          fully_pruned,
          answers,                \* the entries the project operator yields
          sound                   \* whether every assertion held so far

vars == <<query, data, phase, graph, operands, fully_pruned, answers, sound>>

(* The graphs of the queries: their parts have the same vertices, which    *)
(* are numbers, edges stay inside, and an operand has the variables of its *)
(* pattern, or others in their place.                                      *)
IsQueryGraph(g) ==
    /\ g.vertices \subseteq Nat /\ IsFiniteSet(g.vertices)
    /\ DOMAIN g.var_ids = g.vertices /\ DOMAIN g.item = g.vertices
    /\ \A e \in g.edges : e.source \in g.vertices /\ e.target \in g.vertices
    /\ \A v \in g.vertices :
          /\ g.var_ids[v] \in Seq(VarIds(g, v))
          /\ \/ g.item[v].kind = "operand" /\ Len(g.item[v].vars) = Len(g.var_ids[v])
             \/ IsExpression(g, v)
             \/ g.item[v] = Phantom /\ g.var_ids[v] = <<>>
ASSUME VisitorAssumption == \A q \in Queries : IsQueryGraph(GraphOf(q.pattern))

Init == /\ query \in Queries /\ data \in Data
        /\ phase = "parse"
        /\ graph = EmptyGraph
        /\ operands = <<>>
        /\ fully_pruned = FALSE
        /\ answers = <<>>
        /\ sound = TRUE

Parse == /\ phase = "parse"
         /\ graph' = GraphOf(query.pattern)
         /\ phase' = "generate"
         /\ UNCHANGED <<query, data, operands, fully_pruned, answers, sound>>

(* generate_query_operands: a vertex that stands for nothing has no        *)
(* operand, which is asserted not to happen.                               *)
Operand(g, v) ==
    IF g.item[v].kind = "operand"
    THEN [depth |-> Len(g.item[v].vars), rows |-> data[g.item[v].relation]]
    ELSE Scalar
GenerateOperands ==
    /\ phase = "generate"
    /\ operands' = [k \in 1 .. Cardinality(graph.vertices) |-> Operand(graph, AtRank(graph, k - 1))]
    /\ sound' = (\A v \in graph.vertices : graph.item[v] # Phantom)
    /\ phase' = IF sound' THEN "prune" ELSE "done"
    /\ UNCHANGED <<query, data, graph, fully_pruned, answers>>

Prune ==
    /\ phase = "prune"
    /\ LET pruned == PruneEmpty(graph, operands)
           pruned_ops == Extract(graph, pruned, operands)
           finalized == RemoveRank0(pruned, pruned_ops)
       IN  /\ fully_pruned' = (pruned.vertices = {} /\ graph.vertices # {})
           /\ graph' = finalized
           /\ operands' = Extract(pruned, finalized, pruned_ops)
    /\ phase' = "evaluate"
    /\ UNCHANGED <<query, data, answers, sound>>

EvaluateQuery ==
    /\ phase = "evaluate"
    /\ \E r \in {AnswersOf(query, graph, operands, fully_pruned)} :
           answers' = r.yields /\ sound' = r.sound
    /\ phase' = "done"
    /\ UNCHANGED <<query, data, graph, operands, fully_pruned>>

Next == Parse \/ GenerateOperands \/ Prune \/ EvaluateQuery
Spec == Init /\ [][Next]_vars

-----------------------------------------------------------------------------
(* Types: the graph's parts have the same vertices, edges stay inside, and *)
(* every vertex keeps the operand that was looked up for it, whatever      *)
(* numbers pruning gives to the vertices, with a column for every variable.*)
TypeOK ==
    /\ phase \in {"parse", "generate", "prune", "evaluate", "done"}
    /\ IsQueryGraph(graph)
    /\ phase \in {"prune", "evaluate"} =>
          /\ Aligned(graph, operands)
          /\ \A v \in graph.vertices : operands[Position(graph, v)] = Operand(graph, v)
    /\ fully_pruned => graph.vertices = {}

(* Evaluation::evaluate: what is evaluated is the graph of the query       *)
(* without the operands that are empty, all that depends on them, and the  *)
(* triples that are there; nothing that is left is empty, nothing but      *)
(* expressions is without variables, and the graph counts as fully pruned  *)
(* exactly if something empty took all of it away.                         *)
EvaluatesWhatIsLeft ==
    phase = "evaluate" =>
        LET whole == GraphOf(query.pattern)
            empty == {v \in whole.vertices : IsEmpty(Operand(whole, v))}
            true == {v \in Operands(whole) : whole.var_ids[v] = <<>>}
        IN  /\ graph.vertices = whole.vertices \ (Dependent(whole, empty) \cup true)
            /\ graph.edges = {e \in whole.edges : {e.source, e.target} \subseteq graph.vertices}
            /\ \A v \in graph.vertices :
                  /\ graph.item[v] = whole.item[v] /\ graph.var_ids[v] = whole.var_ids[v]
                  /\ ~IsEmpty(operands[Position(graph, v)])
                  /\ v \in Operands(graph) => graph.var_ids[v] # <<>>
            /\ fully_pruned <=> whole.vertices # {} /\ whole.vertices = Dependent(whole, empty)
=============================================================================
