----------------------------- MODULE QueryOperands -----------------------------
(***************************************************************************)
(* The operands of the vertices of a graph, in the order of the vertices.  *)
(* An operand is a table [depth, rows].  When a graph is made from a graph *)
(* its vertices get new numbers, and their operands must follow.           *)
(***************************************************************************)
EXTENDS OperandDependencyGraph

Scalar == [depth |-> 0, rows |-> {<<>>}]       \* the true scalar
IsEmpty(table) == table.rows = {}

Position(g, v) == Rank(g, v) + 1

(* A mutant: the operands of a graph are passed on with another graph. *)
ExtractAll(g, sub, operands) == operands

(* extract_operands: the operands of a graph made from g. *)
Extract(g, sub, operands) ==
    [k \in 1 .. Cardinality(sub.vertices) |-> operands[Position(g, AtRank(sub, k - 1))]]

(* There is one operand for every vertex, with a column per variable. *)
Aligned(g, operands) ==
    /\ Len(operands) = Cardinality(g.vertices)
    /\ \A v \in Operands(g) : operands[Position(g, v)].depth = Len(g.var_ids[v])

(* The rows that have the values of some variables, without these. *)
Slice(table, vars, values) ==
    LET kept == SelectSeq([i \in DOMAIN vars |-> i], LAMBDA i : vars[i] \notin DOMAIN values)
        Matches(row) == \A i \in DOMAIN vars : vars[i] \in DOMAIN values => row[i] = values[vars[i]]
    IN  [depth |-> Len(Unresolved(vars, DOMAIN values)),
         rows |-> {[k \in DOMAIN kept |-> row[kept[k]]] : row \in {r \in table.rows : Matches(r)}}]

(* The operands of g when some variables are resolved; those of            *)
(* expressions stay.                                                       *)
Sliced(g, operands, values) ==
    [k \in DOMAIN operands |->
        LET v == AtRank(g, k - 1)
        IN  IF IsExpression(g, v) THEN operands[k] ELSE Slice(operands[k], g.var_ids[v], values)]

(* prune_empty_operands: what is empty goes, and what depends on it. *)
Empty(g, operands) == {v \in g.vertices : IsEmpty(operands[Position(g, v)])}
PruneEmpty(g, operands) ==
    IF Empty(g, operands) = {} THEN g ELSE PruneGraph(g, Empty(g, operands))

(* A mutant: with the expressions, whose operands are true scalars too. *)
Rank0All(g, operands) == {v \in g.vertices : operands[Position(g, v)].depth = 0}

(* remove_rank0_operands: true scalars, unless they stand for expressions. *)
Rank0(g, operands) == {v \in Operands(g) : operands[Position(g, v)].depth = 0}
RemoveRank0(g, operands) ==
    IF Rank0(g, operands) = {} THEN g ELSE RemoveVertices(g, Rank0(g, operands))
=============================================================================
