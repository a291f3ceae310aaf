------------------------ MODULE OperandDependencyGraph ------------------------
(***************************************************************************)
(* The operand dependency graph of a query.  A vertex is an operand (a     *)
(* triple pattern), a filter or an assignment, with the variables that are *)
(* not resolved yet.  An edge says that its target is evaluated only as    *)
(* far as its source has solutions; it carries a variable both share, or   *)
(* NoVar, and an optional edge is not followed when the graph is pruned.   *)
(*                                                                         *)
(* Vertices keep their numbers in the graphs that are made from a graph,   *)
(* where the code numbers them anew and remembers the original positions:  *)
(* Rank(g, v) is the number the code gives to v.  A graph is a record:     *)
(*   vertices   a finite set of numbers                                    *)
(*   var_ids    for each vertex, the sequence of its variables             *)
(*   item       for each vertex, what it stands for; item[v].kind is       *)
(*              "operand", "filter" or "assignment"                        *)
(*   edges      a set of [source, target, var_id, is_opt]                  *)
(*   removed    removed_var_ids_                                           *)
(***************************************************************************)
EXTENDS Integers, Sequences, FiniteSets, Functions

CONSTANT NoVar           \* '\0', the label of an edge without a variable

EmptyGraph == [vertices |-> {}, var_ids |-> <<>>, item |-> <<>>, edges |-> {}, removed |-> {}]

VarIds(g, v) == Range(g.var_ids[v])

IsFilter(g, v) == g.item[v].kind = "filter"
IsAssignment(g, v) == g.item[v].kind = "assignment"
IsExpression(g, v) == IsFilter(g, v) \/ IsAssignment(g, v)

Operands(g) == {v \in g.vertices : ~IsExpression(g, v)}
OperandsVarIdsSet(g) == UNION {VarIds(g, v) : v \in Operands(g)}

Rank(g, v) == Cardinality({u \in g.vertices : u < v})
AtRank(g, n) == CHOOSE v \in g.vertices : Rank(g, v) = n

(* lonely_var_ids: the variables that occur once in the whole graph. *)
LonelyVarIds(g) ==
    LET places == UNION {{v} \X DOMAIN g.var_ids[v] : v \in g.vertices}
    IN  {x \in UNION {VarIds(g, v) : v \in g.vertices} :
            Cardinality({p \in places : g.var_ids[p[1]][p[2]] = x}) = 1}

-----------------------------------------------------------------------------
(* Building a graph. *)

OneVertex(var_ids, item) ==
    [vertices |-> {0}, var_ids |-> [v \in {0} |-> var_ids], item |-> [v \in {0} |-> item],
     edges |-> {}, removed |-> {}]

(* add_dependencies: an edge for every variable the vertices share, or one *)
(* without a variable.                                                     *)
AddDependencies(g, source, target, bidirectional) ==
    LET shared == VarIds(g, source) \cap VarIds(g, target)
        labels == IF shared = {} THEN {NoVar} ELSE shared
        Edges(s, t) == {[source |-> s, target |-> t, var_id |-> x, is_opt |-> FALSE] : x \in labels}
    IN  [g EXCEPT !.edges = @ \cup Edges(source, target)
                              \cup (IF bidirectional THEN Edges(target, source) ELSE {})]

(* add_connection.  An edge with a vertex the graph does not have makes    *)
(* the missing vertices, which stand for nothing.                          *)
Phantom == [kind |-> "none"]
AddConnection(g, source, target) ==
    LET size == Cardinality(g.vertices)
        vertices == g.vertices \cup (size .. source) \cup (size .. target)
    IN  [g EXCEPT !.vertices = vertices,
                  !.var_ids = [v \in vertices |-> IF v \in g.vertices THEN @[v] ELSE <<>>],
                  !.item = [v \in vertices |-> IF v \in g.vertices THEN @[v] ELSE Phantom],
                  !.edges = @ \cup {[source |-> source, target |-> target, var_id |-> NoVar, is_opt |-> TRUE]}]

(* merge_graphs: both graphs side by side, the vertices of each in their   *)
(* order.                                                                  *)
MergeGraphs(g, h) ==
    LET n == Cardinality(g.vertices)
        vertices == 0 .. n + Cardinality(h.vertices) - 1
        InG(v) == Rank(g, v)
        InH(v) == n + Rank(h, v)
        Moved(edges, To(_)) == {[e EXCEPT !.source = To(@), !.target = To(@)] : e \in edges}
        Pick(f, f2) == [i \in vertices |-> IF i < n THEN f[AtRank(g, i)] ELSE f2[AtRank(h, i - n)]]
    IN  [vertices |-> vertices,
         var_ids |-> Pick(g.var_ids, h.var_ids),
         item |-> Pick(g.item, h.item),
         edges |-> Moved(g.edges, InG) \cup Moved(h.edges, InH),
         removed |-> {}]

(* replace_var_ids_in_operands: expressions keep their variables. *)
ReplaceVarIdsInOperands(g, replacement) ==
    LET Replaced(x) == IF x \in DOMAIN replacement THEN replacement[x] ELSE x
    IN  [g EXCEPT !.var_ids = [v \in g.vertices |->
                                  IF IsExpression(g, v) THEN @[v] ELSE [i \in DOMAIN @[v] |-> Replaced(@[v][i])]]]

-----------------------------------------------------------------------------
(* Graphs made from a graph. *)

SubGraph(g, vertices, removed) ==
    [vertices |-> vertices,
     var_ids |-> Restrict(g.var_ids, vertices),
     item |-> Restrict(g.item, vertices),
     edges |-> {e \in g.edges : e.source \in vertices /\ e.target \in vertices},
     removed |-> removed]

(* The new graph does not know which variables have been resolved. *)
RemoveVertices(g, vertices) == SubGraph(g, g.vertices \ vertices, {})

(* A mutant: operands stay in the graph without variables. *)
RemoveVarIdKeeping(g, x) ==
    [g EXCEPT !.var_ids = [v \in g.vertices |-> SelectSeq(@[v], LAMBDA y : y # x)],
              !.edges = {[e EXCEPT !.var_id = IF @ = x THEN NoVar ELSE @] : e \in @},
              !.removed = @ \cup {x}]

(* The variables that are left when some are resolved. *)
Unresolved(vars, resolved) == SelectSeq(vars, LAMBDA y : y \notin resolved)

(* The operands that have no other variable go; expressions stay until     *)
(* they are evaluated.                                                     *)
RemoveVarId(g, x) ==
    LET kept == {v \in g.vertices : IsExpression(g, v) \/ VarIds(g, v) \ {x} # {}}
        sub == SubGraph(g, kept, g.removed \cup {x})
    IN  [sub EXCEPT !.var_ids = [v \in kept |-> Unresolved(@[v], {x})],
                    !.edges = {[e EXCEPT !.var_id = IF @ = x THEN NoVar ELSE @] : e \in @}]

(* The vertices that can be reached from s along the pairs in steps: the   *)
(* smallest set that holds s and that no step leaves.                      *)
Closed(steps, t) == \A p \in steps : p[1] \in t => p[2] \in t
Reached(g, steps, s) ==
    {v \in g.vertices : \A t \in SUBSET g.vertices : s \subseteq t /\ Closed(steps, t) => v \in t}

Steps(edges) == {<<e.source, e.target>> : e \in edges}
BothWays(pairs) == pairs \cup {<<p[2], p[1]>> : p \in pairs}

(* prune_graph: what depends on an empty operand goes with it. *)
Dependent(g, empty) == Reached(g, Steps({e \in g.edges : ~e.is_opt}), empty)

(* A mutant: what depends on an empty operand stays. *)
PruneEmptyOnly(g, empty) == SubGraph(g, g.vertices \ empty, {})

PruneGraph(g, empty) == SubGraph(g, g.vertices \ Dependent(g, empty), {})

-----------------------------------------------------------------------------
(* Components, in the order in which the code numbers them, by their first *)
(* vertices.                                                               *)
First(s) == CHOOSE v \in s : \A u \in s : v <= u

InOrder(g, links) ==
    LET components == {Reached(g, links, {v}) : v \in g.vertices}
        Nth(n) == CHOOSE c \in components : Cardinality({d \in components : First(d) < First(c)}) = n - 1
    IN  [n \in 1 .. Cardinality(components) |-> SubGraph(g, Nth(n), g.removed)]

(* union_components: the parts of a graph that is not connected. *)
UnionComponents(g) == InOrder(g, BothWays(Steps(g.edges)))

(* The strong components that no edge enters; isc_operands asserts that    *)
(* there is one, the independent strong component.                         *)
IndependentStrongComponents(g) ==
    LET reaches == [v \in g.vertices |-> Reached(g, Steps(g.edges), {v})]
        strong == {{u \in g.vertices : u \in reaches[v] /\ v \in reaches[u]} : v \in g.vertices}
    IN  {c \in strong : \A u \in g.vertices \ c : reaches[u] \cap c = {}}

IscOperands(g) == UNION IndependentStrongComponents(g)
IscIsUnique(g) == g.vertices = {} \/ Cardinality(IndependentStrongComponents(g)) = 1

NonOptionalVarIdsSet(g) == UNION {VarIds(g, v) : v \in IscOperands(g) \cap Operands(g)}

(* cartesian_components: an edge into the ISC counts if it carries a       *)
(* variable, and vertices of the ISC without an edge between them, which   *)
(* come from different parts of a union, stay together.                    *)
CartesianComponents(g) ==
    LET isc == IscOperands(g)
        labelled == {e \in g.edges : e.target \in isc => e.var_id # NoVar}
        apart == (isc \X isc) \ Steps(g.edges)
    IN  InOrder(g, BothWays(Steps(labelled) \cup apart))
OptionalCartesian(g) == \E e \in g.edges : e.target \in IscOperands(g) /\ e.is_opt

-----------------------------------------------------------------------------
(* filters_for_evaluation: filters of the ISC whose variables, if any, are *)
(* found in filters only.                                                  *)
FiltersForEvaluation(g) ==
    {v \in IscOperands(g) : IsFilter(g, v) /\
        \A u \in g.vertices : VarIds(g, v) \cap VarIds(g, u) # {} => IsFilter(g, u)}

(* assignments_for_evaluation: assignments of the ISC that have no         *)
(* variable left, or only the one they assign, or none that an operand     *)
(* has.                                                                    *)
AssignmentsForEvaluation(g) ==
    {v \in IscOperands(g) : IsAssignment(g, v) /\
        \/ g.var_ids[v] = <<>>
        \/ g.var_ids[v] = <<g.item[v].result_var_id>>
        \/ VarIds(g, v) \cap OperandsVarIdsSet(g) = {}}
=============================================================================
