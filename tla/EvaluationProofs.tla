---------------------------- MODULE EvaluationProofs ----------------------------
(***************************************************************************)
(* What graphs are that are pruned, split into components, merged and      *)
(* connected, for graphs of any size, and what a query is evaluated on,    *)
(* whatever its pattern, its data and the operators.                       *)
(***************************************************************************)
EXTENDS Evaluation, FiniteSetTheorems, WellFoundedInduction, TLAPS

(* The parts of a graph fit together. *)
WellFormed(g) ==
    /\ DOMAIN g.var_ids = g.vertices /\ DOMAIN g.item = g.vertices
    /\ \A e \in g.edges : e.source \in g.vertices /\ e.target \in g.vertices

(* Reached is a closed set around its start, and the smallest one: an      *)
(* operand is reached only over steps.                                     *)
LEMMA ReachedIsLeast ==
    ASSUME NEW g, NEW steps, NEW s \in SUBSET g.vertices,
           \A p \in steps : p[1] \in g.vertices => p[2] \in g.vertices
    PROVE  /\ s \subseteq Reached(g, steps, s)
           /\ Reached(g, steps, s) \subseteq g.vertices
           /\ Closed(steps, Reached(g, steps, s))
           /\ \A t \in SUBSET g.vertices : s \subseteq t /\ Closed(steps, t) => Reached(g, steps, s) \subseteq t
<1>1. s \subseteq Reached(g, steps, s)
  BY DEF Reached
<1>2. Reached(g, steps, s) \subseteq g.vertices
  BY DEF Reached
<1>3. Closed(steps, Reached(g, steps, s))
  <2> SUFFICES ASSUME NEW p \in steps, p[1] \in Reached(g, steps, s)
               PROVE  p[2] \in Reached(g, steps, s)
    BY DEF Closed
  <2>1. p[2] \in g.vertices
    BY <1>2
  <2>2. ASSUME NEW t \in SUBSET g.vertices, s \subseteq t, Closed(steps, t)
        PROVE  p[2] \in t
    <3>1. p[1] \in t
      BY <2>2 DEF Reached
    <3> QED
      BY <3>1, <2>2 DEF Closed
  <2> QED
    BY <2>1, <2>2 DEF Reached
<1>4. \A t \in SUBSET g.vertices : s \subseteq t /\ Closed(steps, t) => Reached(g, steps, s) \subseteq t
  BY DEF Reached
<1> QED
  BY <1>1, <1>2, <1>3, <1>4

(* The steps along some edges of a graph stay inside it. *)
LEMMA StepsInside ==
    ASSUME NEW g, WellFormed(g), NEW edges \in SUBSET g.edges
    PROVE  \A p \in Steps(edges) : p[1] \in g.vertices /\ p[2] \in g.vertices
<1> SUFFICES ASSUME NEW e \in edges
             PROVE  <<e.source, e.target>>[1] \in g.vertices /\ <<e.source, e.target>>[2] \in g.vertices
  BY DEF Steps
<1>1. e \in g.edges
  OBVIOUS
<1> QED
  BY <1>1 DEF WellFormed

(* A part of a graph is a graph: no edge is left without its vertices. *)
THEOREM SubGraphIsWellFormed ==
    ASSUME NEW g, WellFormed(g), NEW vertices \in SUBSET g.vertices, NEW removed
    PROVE  WellFormed(SubGraph(g, vertices, removed))
<1> DEFINE sub == SubGraph(g, vertices, removed)
<1>1. /\ sub.vertices = vertices
      /\ sub.var_ids = Restrict(g.var_ids, vertices)
      /\ sub.item = Restrict(g.item, vertices)
      /\ sub.edges = {e \in g.edges : e.source \in vertices /\ e.target \in vertices}
  BY DEF SubGraph
<1>2. DOMAIN sub.var_ids = vertices /\ DOMAIN sub.item = vertices
  BY <1>1 DEF Restrict
<1>3. \A e \in sub.edges : e.source \in vertices /\ e.target \in vertices
  BY <1>1
<1> QED
  BY <1>1, <1>2, <1>3 DEF WellFormed

(* prune_graph: what is left does not depend on anything that was pruned,  *)
(* directly or through other operands, unless the edge is optional.        *)
THEOREM PruningLeavesNoDependent ==
    ASSUME NEW g, WellFormed(g), NEW empty \in SUBSET g.vertices
    PROVE  LET pruned == PruneGraph(g, empty)
           IN  /\ WellFormed(pruned)
               /\ pruned.vertices \cap empty = {}
               /\ \A e \in g.edges :
                     ~e.is_opt /\ e.target \in pruned.vertices => e.source \in pruned.vertices
<1> DEFINE required == {e \in g.edges : ~e.is_opt}
           gone == Dependent(g, empty)
           pruned == PruneGraph(g, empty)
<1>1. \A p \in Steps(required) : p[1] \in g.vertices /\ p[2] \in g.vertices
  BY StepsInside
<1>2. gone = Reached(g, Steps(required), empty)
  BY DEF Dependent
<1>3. empty \subseteq gone /\ gone \subseteq g.vertices /\ Closed(Steps(required), gone)
  <2> HIDE DEF required
  <2> QED
    BY <1>1, <1>2, ReachedIsLeast
<1>4. pruned.vertices = g.vertices \ gone
  BY DEF PruneGraph, SubGraph
<1>5. WellFormed(pruned)
  BY SubGraphIsWellFormed DEF PruneGraph
<1>6. ASSUME NEW e \in g.edges, ~e.is_opt, e.source \in gone
      PROVE  e.target \in gone
  <2>1. <<e.source, e.target>> \in Steps(required)
    BY <1>6 DEF Steps
  <2> QED
    BY <2>1, <1>3, <1>6 DEF Closed
<1>7. \A e \in g.edges : ~e.is_opt /\ e.target \in pruned.vertices => e.source \in pruned.vertices
  BY <1>4, <1>6 DEF WellFormed
<1> QED
  BY <1>3, <1>4, <1>5, <1>7

(* prune_graph removes no more than it must: any set of operands without   *)
(* the empty ones, and with all that its members depend on, survives.      *)
THEOREM PruningIsMinimal ==
    ASSUME NEW g, WellFormed(g), NEW empty \in SUBSET g.vertices,
           NEW kept \in SUBSET (g.vertices \ empty),
           \A e \in g.edges : ~e.is_opt /\ e.target \in kept => e.source \in kept
    PROVE  kept \subseteq PruneGraph(g, empty).vertices
<1> DEFINE required == {e \in g.edges : ~e.is_opt}
           others == g.vertices \ kept
<1>1. \A p \in Steps(required) : p[1] \in g.vertices /\ p[2] \in g.vertices
  BY StepsInside
<1>2. Closed(Steps(required), others)
  <2> SUFFICES ASSUME NEW p \in Steps(required), p[1] \in others
               PROVE  p[2] \in others
    BY DEF Closed
  <2>1. PICK e \in required : p = <<e.source, e.target>>
    BY DEF Steps
  <2>2. e.source \in others /\ e.target \in g.vertices
    BY <2>1 DEF WellFormed
  <2> QED
    BY <2>1, <2>2
<1>3. Dependent(g, empty) \subseteq others
  <2>1. Dependent(g, empty) = Reached(g, Steps(required), empty)
    BY DEF Dependent
  <2>2. empty \subseteq others /\ others \subseteq g.vertices
    OBVIOUS
  <2> HIDE DEF required, others
  <2> QED
    BY <1>1, <1>2, <2>1, <2>2, ReachedIsLeast
<1>4. PruneGraph(g, empty).vertices = g.vertices \ Dependent(g, empty)
  BY DEF PruneGraph, SubGraph
<1> QED
  BY <1>3, <1>4

(* Pruning in two steps, as evaluation does when more operands become      *)
(* empty, leaves what pruning in one step leaves, or less.                 *)
THEOREM PruningIsMonotone ==
    ASSUME NEW g, WellFormed(g), NEW more \in SUBSET g.vertices, NEW empty \in SUBSET more
    PROVE  PruneGraph(g, more).vertices \subseteq PruneGraph(g, empty).vertices
<1> DEFINE kept == PruneGraph(g, more).vertices
<1>1. /\ kept \cap more = {}
      /\ \A e \in g.edges : ~e.is_opt /\ e.target \in kept => e.source \in kept
  BY PruningLeavesNoDependent
<1>2. kept \subseteq g.vertices
  BY DEF PruneGraph, SubGraph
<1>3. kept \in SUBSET (g.vertices \ empty)
  BY <1>1, <1>2
<1>4. empty \in SUBSET g.vertices
  OBVIOUS
<1>5. kept \subseteq PruneGraph(g, empty).vertices
  <2> HIDE DEF kept
  <2> QED
    BY <1>1, <1>3, <1>4, PruningIsMinimal
<1> QED
  BY <1>5

-----------------------------------------------------------------------------
(* The numbers of vertices. *)

(* A graph whose vertices have an order. *)
IsNumbered(g) == g.vertices \subseteq Nat /\ IsFiniteSet(g.vertices)

(* A vertex has as many vertices below it as its number says: fewer than   *)
(* there are, and fewer than any vertex above it.                          *)
LEMMA RanksIncrease ==
    ASSUME NEW g, IsNumbered(g), NEW v \in g.vertices
    PROVE  /\ Cardinality(g.vertices) \in Nat
           /\ Rank(g, v) \in 0 .. Cardinality(g.vertices) - 1
           /\ \A u \in g.vertices : u < v => Rank(g, u) < Rank(g, v)
<1> DEFINE Below(u) == {w \in g.vertices : w < u}
<1>1. \A u \in g.vertices : Rank(g, u) = Cardinality(Below(u))
  BY DEF Rank
<1>0. \A u \in g.vertices : u \in Nat
  BY DEF IsNumbered
<1>2. IsFiniteSet(g.vertices)
  BY DEF IsNumbered
<1>3. Cardinality(g.vertices) \in Nat
  BY <1>2, FS_CardinalityType
<1>4. ASSUME NEW S \in SUBSET g.vertices, NEW T \in SUBSET S, NEW w \in S, w \notin T
      PROVE  Cardinality(T) \in Nat /\ Cardinality(S) \in Nat /\ Cardinality(T) < Cardinality(S)
  <2>1. IsFiniteSet(S)
    BY <1>2, FS_Subset
  <2>2. IsFiniteSet(T) /\ Cardinality(T) <= Cardinality(S) /\ (Cardinality(S) = Cardinality(T) => S = T)
    BY <2>1, FS_Subset
  <2>3. Cardinality(T) \in Nat /\ Cardinality(S) \in Nat
    BY <2>1, <2>2, FS_CardinalityType
  <2>4. S # T
    BY <1>4
  <2> QED
    BY <2>2, <2>3, <2>4
<1>5. Cardinality(Below(v)) \in Nat /\ Cardinality(Below(v)) < Cardinality(g.vertices)
  <2>1. v \notin Below(v) /\ Below(v) \in SUBSET g.vertices /\ g.vertices \in SUBSET g.vertices
    BY <1>0
  <2> HIDE DEF Below
  <2> QED
    BY <2>1, <1>4
<1>6. ASSUME NEW u \in g.vertices, u < v
      PROVE  Cardinality(Below(u)) < Cardinality(Below(v))
  <2>1. Below(u) \in SUBSET Below(v) /\ u \in Below(v) /\ u \notin Below(u) /\ Below(v) \in SUBSET g.vertices
    BY <1>0, <1>6
  <2> HIDE DEF Below
  <2> QED
    BY <2>1, <1>4
<1> HIDE DEF Below
<1> QED
  BY <1>1, <1>3, <1>5, <1>6

(* Every number has its vertex. *)
LEMMA RanksAreNumbers ==
    ASSUME NEW g, IsNumbered(g)
    PROVE  /\ \A v \in g.vertices : AtRank(g, Rank(g, v)) = v
           /\ \A n \in 0 .. Cardinality(g.vertices) - 1 :
                 AtRank(g, n) \in g.vertices /\ Rank(g, AtRank(g, n)) = n
<1> DEFINE size == Cardinality(g.vertices)
           f == [v \in g.vertices |-> Rank(g, v)]
<1>1. size \in Nat /\ IsFiniteSet(g.vertices)
  BY FS_CardinalityType DEF IsNumbered
<1>2. \A v \in g.vertices : Rank(g, v) \in 0 .. size - 1
  BY RanksIncrease
<1>3. ASSUME NEW u \in g.vertices, NEW v \in g.vertices, Rank(g, u) = Rank(g, v)
      PROVE  u = v
  <2>1. u < v => Rank(g, u) < Rank(g, v)
    BY RanksIncrease
  <2>2. v < u => Rank(g, v) < Rank(g, u)
    BY RanksIncrease
  <2>3. u \in Nat /\ v \in Nat /\ Rank(g, u) \in Int /\ Rank(g, v) \in Int
    BY <1>2 DEF IsNumbered
  <2> QED
    BY <2>1, <2>2, <2>3, <1>3
<1>4. ASSUME NEW v \in g.vertices
      PROVE  AtRank(g, Rank(g, v)) = v
  BY <1>3 DEF AtRank
<1>5. ASSUME NEW n \in 0 .. size - 1
      PROVE  \E v \in g.vertices : Rank(g, v) = n
  <2>1. f \in Injection(g.vertices, 0 .. size - 1)
    BY <1>2, <1>3 DEF Injection, IsInjective
  <2>2. IsFiniteSet(0 .. size - 1) /\ Cardinality(0 .. size - 1) = size
    <3>1. 0 \in Int /\ size - 1 \in Int /\ (0 > size - 1 => size = 0) /\ (size - 1) - 0 + 1 = size
      BY <1>1
    <3> HIDE DEF size
    <3> QED
      BY <3>1, FS_Interval
  <2>3. f \in Surjection(g.vertices, 0 .. size - 1)
    <3> HIDE DEF f
    <3> QED
      BY <2>1, <2>2, FS_Injection
  <2> QED
    BY <2>3 DEF Surjection
<1>6. ASSUME NEW n \in 0 .. size - 1
      PROVE  AtRank(g, n) \in g.vertices /\ Rank(g, AtRank(g, n)) = n
  BY <1>5 DEF AtRank
<1> QED
  BY <1>4, <1>6

(* extract_operands: a vertex keeps its operand in a graph made from g. *)
LEMMA OperandsFollow ==
    ASSUME NEW g, IsNumbered(g), NEW sub, sub.vertices \subseteq g.vertices, NEW ops
    PROVE  /\ IsNumbered(sub)
           /\ Len(Extract(g, sub, ops)) = Cardinality(sub.vertices)
           /\ \A v \in sub.vertices : Extract(g, sub, ops)[Position(sub, v)] = ops[Position(g, v)]
<1> DEFINE size == Cardinality(sub.vertices)
           At(k) == ops[Position(g, AtRank(sub, k - 1))]
<1>1. IsNumbered(sub)
  BY FS_Subset DEF IsNumbered
<1>2. size \in Nat
  BY <1>1, FS_CardinalityType DEF IsNumbered
<1>3. Extract(g, sub, ops) = [k \in 1 .. size |-> At(k)]
  BY DEF Extract
<1>6. ASSUME NEW v \in sub.vertices
      PROVE  /\ Position(sub, v) \in 1 .. size
             /\ At(Position(sub, v)) = ops[Position(g, v)]
  <2>1. Rank(sub, v) \in 0 .. size - 1 /\ AtRank(sub, Rank(sub, v)) = v
    BY <1>1, RanksIncrease, RanksAreNumbers
  <2>2. Position(sub, v) \in 1 .. size /\ Position(sub, v) - 1 = Rank(sub, v)
    BY <2>1, <1>2 DEF Position
  <2> QED
    BY <2>1, <2>2
<1> HIDE DEF size, At
<1>7. Len([k \in 1 .. size |-> At(k)]) = size
  BY <1>2
<1> QED
  BY <1>1, <1>3, <1>6, <1>7 DEF size

-----------------------------------------------------------------------------
(* Components. *)

(* Who reaches a vertex reaches whatever that vertex reaches. *)
LEMMA ReachedIsTransitive ==
    ASSUME NEW g, NEW links, \A p \in links : p[1] \in g.vertices => p[2] \in g.vertices,
           NEW v \in g.vertices, NEW u \in Reached(g, links, {v})
    PROVE  /\ v \in Reached(g, links, {v})
           /\ u \in g.vertices
           /\ Reached(g, links, {u}) \subseteq Reached(g, links, {v})
<1>1. {v} \in SUBSET g.vertices
  OBVIOUS
<1>2. /\ {v} \subseteq Reached(g, links, {v})
      /\ Reached(g, links, {v}) \subseteq g.vertices
      /\ Closed(links, Reached(g, links, {v}))
  BY <1>1, ReachedIsLeast
<1>3. {u} \in SUBSET g.vertices /\ {u} \subseteq Reached(g, links, {v})
  BY <1>2
<1>4. Reached(g, links, {u}) \subseteq Reached(g, links, {v})
  BY <1>2, <1>3, ReachedIsLeast
<1> QED
  BY <1>2, <1>4

(* One link leads from a vertex to a vertex it reaches. *)
LEMMA LinksReach ==
    ASSUME NEW g, NEW links, \A p \in links : p[1] \in g.vertices => p[2] \in g.vertices,
           NEW v \in g.vertices, NEW u, <<v, u>> \in links
    PROVE  u \in Reached(g, links, {v})
<1>1. {v} \in SUBSET g.vertices
  OBVIOUS
<1>2. {v} \subseteq Reached(g, links, {v}) /\ Closed(links, Reached(g, links, {v}))
  BY <1>1, ReachedIsLeast
<1> QED
  BY <1>2 DEF Closed

(* Links that lead both ways. *)
AreLinks(g, links) ==
    \A p \in links : p[1] \in g.vertices /\ p[2] \in g.vertices /\ <<p[2], p[1]>> \in links

(* What is reached over such links reaches back, so that two vertices      *)
(* reach the same vertices or none in common.                              *)
LEMMA ReachedIsSymmetric ==
    ASSUME NEW g, NEW links, AreLinks(g, links), NEW v \in g.vertices, NEW u \in Reached(g, links, {v})
    PROVE  Reached(g, links, {u}) = Reached(g, links, {v})
<1> DEFINE Back == {w \in g.vertices : v \in Reached(g, links, {w})}
<1>1. \A p \in links : p[1] \in g.vertices => p[2] \in g.vertices
  BY DEF AreLinks
<1>2. Closed(links, Back)
  <2> SUFFICES ASSUME NEW p \in links, p[1] \in Back
               PROVE  p[2] \in Back
    BY DEF Closed
  <2>1. p[1] \in g.vertices /\ p[2] \in g.vertices /\ <<p[2], p[1]>> \in links
    BY DEF AreLinks
  <2>2. p[1] \in Reached(g, links, {p[2]})
    BY <1>1, <2>1, LinksReach
  <2>3. Reached(g, links, {p[1]}) \subseteq Reached(g, links, {p[2]})
    BY <1>1, <2>1, <2>2, ReachedIsTransitive
  <2> QED
    BY <2>1, <2>3
<1>3. {v} \in SUBSET g.vertices
  OBVIOUS
<1>4. {v} \subseteq Reached(g, links, {v})
  BY <1>1, <1>3, ReachedIsLeast
<1>5. {v} \subseteq Back /\ Back \in SUBSET g.vertices
  BY <1>4
<1>6. Reached(g, links, {v}) \subseteq Back
  <2> HIDE DEF Back
  <2> QED
    BY <1>1, <1>2, <1>3, <1>5, ReachedIsLeast
<1>7. u \in g.vertices /\ v \in Reached(g, links, {u})
  BY <1>6
<1>8. Reached(g, links, {v}) \subseteq Reached(g, links, {u})
  BY <1>1, <1>7, ReachedIsTransitive
<1>9. Reached(g, links, {u}) \subseteq Reached(g, links, {v})
  BY <1>1, ReachedIsTransitive
<1> QED
  BY <1>8, <1>9

(* Every set of numbers has a first one. *)
LEMMA LeastElement ==
    ASSUME NEW T \in SUBSET Nat, T # {}
    PROVE  \E n \in T : \A m \in T : n <= m
<1> DEFINE R == OpToRel(<, Nat)
<1>1. IsWellFoundedOn(R, Nat)
  BY NatLessThanWellFounded
<1>2. \A x, y \in Nat : x < y <=> <<x, y>> \in R
  BY DEF OpToRel
<1> HIDE DEF R
<1>3. PICK n \in T : \A y \in T : ~(<<y, n>> \in R)
  BY <1>1, WFMin
<1>4. n \in Nat
  OBVIOUS
<1>5. ASSUME NEW m \in T
      PROVE  n <= m
  <2>1. m \in Nat /\ ~(<<m, n>> \in R)
    BY <1>3
  <2>2. ~(m < n)
    BY <1>2, <1>4, <2>1
  <2> QED
    BY <1>4, <2>1, <2>2
<1> QED
  BY <1>5

LEMMA FirstIsLeast ==
    ASSUME NEW s \in SUBSET Nat, s # {}
    PROVE  First(s) \in s /\ \A u \in s : First(s) <= u
<1>1. \E v \in s : \A u \in s : v <= u
  BY LeastElement
<1> QED
  BY <1>1 DEF First

(* Sets of numbers without common members have an order by their firsts,   *)
(* which gives each a position, and each position a set.                   *)
Before(sets, c) == {d \in sets : First(d) < First(c)}
LEMMA DisjointSetsAreOrdered ==
    ASSUME NEW sets, IsFiniteSet(sets), \A c \in sets : c # {} /\ c \subseteq Nat,
           \A c, d \in sets : c # d => c \cap d = {}
    PROVE  /\ Cardinality(sets) \in Nat
           /\ \A c \in sets : Cardinality(Before(sets, c)) \in 0 .. Cardinality(sets) - 1
           /\ \A c, d \in sets : First(c) < First(d) => Cardinality(Before(sets, c)) < Cardinality(Before(sets, d))
           /\ \A c, d \in sets : c # d => First(c) # First(d) /\ Cardinality(Before(sets, c)) # Cardinality(Before(sets, d))
           /\ \A n \in 1 .. Cardinality(sets) : \E c \in sets : Cardinality(Before(sets, c)) = n - 1
<1> DEFINE f == [c \in sets |-> First(c)]
           firsts == {First(c) : c \in sets}
           line == [vertices |-> firsts]
<1>1. \A c \in sets : First(c) \in c /\ First(c) \in Nat
  BY FirstIsLeast
<1>2. \A c, d \in sets : c # d => First(c) # First(d)
  BY <1>1
<1>3. f \in Injection(sets, firsts) /\ f \in Surjection(sets, firsts)
  BY <1>2 DEF Injection, Surjection, IsInjective
<1>4. IsFiniteSet(firsts) /\ Cardinality(firsts) = Cardinality(sets)
  <2>1. ExistsBijection(sets, firsts)
    BY <1>3 DEF Bijection, ExistsBijection
  <2> HIDE DEF f, firsts
  <2> QED
    BY <2>1, FS_Bijection
<1>5. line.vertices = firsts /\ IsNumbered(line)
  BY <1>1, <1>4 DEF IsNumbered
<1>6. ASSUME NEW c \in sets
      PROVE  Cardinality(Before(sets, c)) = Rank(line, First(c))
  <2> DEFINE h == [d \in Before(sets, c) |-> First(d)]
             below == {u \in firsts : u < First(c)}
  <2>1. h \in Injection(Before(sets, c), below) /\ h \in Surjection(Before(sets, c), below)
    BY <1>2 DEF Injection, Surjection, IsInjective, Before
  <2>2. IsFiniteSet(Before(sets, c))
    BY FS_Subset DEF Before
  <2>3. Cardinality(below) = Cardinality(Before(sets, c))
    <3>1. ExistsBijection(Before(sets, c), below)
      BY <2>1 DEF Bijection, ExistsBijection
    <3> HIDE DEF h, below
    <3> QED
      BY <3>1, <2>2, FS_Bijection
  <2> QED
    BY <2>3, <1>5 DEF Rank
<1>7. \A c \in sets : First(c) \in line.vertices
  BY <1>5
<1>8. \A v \in line.vertices : \E c \in sets : First(c) = v
  BY <1>5
<1>9. Cardinality(line.vertices) = Cardinality(sets)
  BY <1>4, <1>5
<1> HIDE DEF line, firsts, f
<1>10. Cardinality(line.vertices) \in Nat
  BY <1>5, FS_CardinalityType DEF IsNumbered
<1>11. \A v \in line.vertices : /\ Rank(line, v) \in 0 .. Cardinality(line.vertices) - 1
                                /\ \A u \in line.vertices : u < v => Rank(line, u) < Rank(line, v)
  BY <1>5, RanksIncrease
<1>12. \A v \in line.vertices : AtRank(line, Rank(line, v)) = v
  BY <1>5, RanksAreNumbers
<1>13. \A n \in 0 .. Cardinality(line.vertices) - 1 : AtRank(line, n) \in line.vertices /\ Rank(line, AtRank(line, n)) = n
  BY <1>5, RanksAreNumbers
<1>14. ASSUME NEW n \in 1 .. Cardinality(sets)
       PROVE  \E c \in sets : Cardinality(Before(sets, c)) = n - 1
  <2>1. n - 1 \in 0 .. Cardinality(line.vertices) - 1
    BY <1>9, <1>10
  <2>2. PICK c \in sets : First(c) = AtRank(line, n - 1)
    BY <2>1, <1>13, <1>8
  <2> QED
    BY <2>1, <2>2, <1>6, <1>13
<1>15. ASSUME NEW c \in sets, NEW d \in sets, c # d
       PROVE  Cardinality(Before(sets, c)) # Cardinality(Before(sets, d))
  BY <1>15, <1>2, <1>6, <1>7, <1>12
<1> QED
  BY <1>2, <1>6, <1>7, <1>9, <1>10, <1>11, <1>14, <1>15

-----------------------------------------------------------------------------
(* What evaluation does to the graph of a query. *)

(* A graph with some of the vertices of another and all edges between      *)
(* them.                                                                   *)
IsPart(sub, g) ==
    /\ sub.vertices \subseteq g.vertices
    /\ DOMAIN sub.var_ids = sub.vertices /\ DOMAIN sub.item = sub.vertices
    /\ \A v \in sub.vertices : sub.var_ids[v] = g.var_ids[v] /\ sub.item[v] = g.item[v]
    /\ sub.edges = {e \in g.edges : {e.source, e.target} \subseteq sub.vertices}

LEMMA SubGraphIsPart ==
    ASSUME NEW g, NEW vertices \in SUBSET g.vertices, NEW removed
    PROVE  /\ IsPart(SubGraph(g, vertices, removed), g)
           /\ SubGraph(g, vertices, removed).vertices = vertices
<1> DEFINE sub == SubGraph(g, vertices, removed)
<1>1. /\ sub.vertices = vertices
      /\ sub.var_ids = [v \in vertices |-> g.var_ids[v]]
      /\ sub.item = [v \in vertices |-> g.item[v]]
      /\ sub.edges = {e \in g.edges : e.source \in vertices /\ e.target \in vertices}
  BY DEF SubGraph, Restrict
<1>2. sub.edges = {e \in g.edges : {e.source, e.target} \subseteq vertices}
  BY <1>1
<1> HIDE DEF sub
<1>3. IsPart(sub, g)
  BY <1>1, <1>2 DEF IsPart
<1> QED
  BY <1>1, <1>3 DEF sub

LEMMA PartOfPart ==
    ASSUME NEW g, NEW part, IsPart(part, g), NEW sub, IsPart(sub, part)
    PROVE  IsPart(sub, g)
BY DEF IsPart

(* A part of the graph of a query is one, and stands for the same items.   *)
LEMMA PartsAreGraphs ==
    ASSUME NEW g, IsQueryGraph(g), NEW sub, IsPart(sub, g)
    PROVE  /\ IsQueryGraph(sub)
           /\ Operands(sub) = {v \in sub.vertices : v \in Operands(g)}
           /\ \A v \in sub.vertices : Operand(sub, v) = Operand(g, v)
<1>1. sub.vertices \subseteq g.vertices /\ sub.vertices \subseteq Nat /\ IsFiniteSet(sub.vertices)
  BY FS_Subset DEF IsPart, IsQueryGraph
<1>2. \A v \in sub.vertices : /\ sub.var_ids[v] = g.var_ids[v] /\ VarIds(sub, v) = VarIds(g, v)
                              /\ sub.item[v] = g.item[v] /\ (IsExpression(sub, v) <=> IsExpression(g, v))
  BY DEF IsPart, VarIds, IsExpression, IsFilter, IsAssignment
<1>3. \A e \in sub.edges : e.source \in sub.vertices /\ e.target \in sub.vertices
  BY DEF IsPart
<1>4. ASSUME NEW v \in sub.vertices
      PROVE  /\ sub.var_ids[v] \in Seq(VarIds(sub, v))
             /\ \/ sub.item[v].kind = "operand" /\ Len(sub.item[v].vars) = Len(sub.var_ids[v])
                \/ IsExpression(sub, v)
                \/ sub.item[v] = Phantom /\ sub.var_ids[v] = <<>>
  <2>1. v \in g.vertices
    BY <1>1
  <2>2. /\ g.var_ids[v] \in Seq(VarIds(g, v))
        /\ \/ g.item[v].kind = "operand" /\ Len(g.item[v].vars) = Len(g.var_ids[v])
           \/ IsExpression(g, v)
           \/ g.item[v] = Phantom /\ g.var_ids[v] = <<>>
    BY <2>1 DEF IsQueryGraph
  <2> QED
    BY <2>2, <1>2
<1>5. IsQueryGraph(sub)
  BY <1>1, <1>3, <1>4 DEF IsQueryGraph, IsPart
<1>6. Operands(sub) = {v \in sub.vertices : v \in Operands(g)}
  BY <1>1, <1>2 DEF Operands
<1>7. \A v \in sub.vertices : Operand(sub, v) = Operand(g, v)
  BY <1>2 DEF Operand
<1> QED
  BY <1>5, <1>6, <1>7

(* The vertices that hang together over some links. *)
ComponentsOf(g, links) == {Reached(g, links, {v}) : v \in g.vertices}

LEMMA ComponentsAreApart ==
    ASSUME NEW g, IsNumbered(g), NEW links, AreLinks(g, links)
    PROVE  /\ IsFiniteSet(ComponentsOf(g, links))
           /\ \A c \in ComponentsOf(g, links) : c # {} /\ c \subseteq g.vertices /\ Closed(links, c)
           /\ \A c, d \in ComponentsOf(g, links) : c # d => c \cap d = {}
           /\ \A v \in g.vertices : \E c \in ComponentsOf(g, links) : v \in c
           /\ \A c \in ComponentsOf(g, links), t \in SUBSET g.vertices :
                 Closed(links, t) /\ c \cap t # {} => c \subseteq t
<1> DEFINE Of(v) == Reached(g, links, {v})
           components == ComponentsOf(g, links)
<1>1. components = {Of(v) : v \in g.vertices}
  BY DEF ComponentsOf
<1>2. \A p \in links : p[1] \in g.vertices => p[2] \in g.vertices
  BY DEF AreLinks
<1>3. ASSUME NEW v \in g.vertices
      PROVE  /\ v \in Of(v) /\ Of(v) \subseteq g.vertices /\ Closed(links, Of(v))
             /\ \A t \in SUBSET g.vertices : Closed(links, t) /\ v \in t => Of(v) \subseteq t
             /\ \A u \in Of(v) : Of(u) = Of(v)
  <2>1. {v} \in SUBSET g.vertices
    OBVIOUS
  <2>2. /\ {v} \subseteq Of(v) /\ Of(v) \subseteq g.vertices /\ Closed(links, Of(v))
        /\ \A t \in SUBSET g.vertices : {v} \subseteq t /\ Closed(links, t) => Of(v) \subseteq t
    BY <1>2, <2>1, ReachedIsLeast
  <2>3. \A u \in Of(v) : Of(u) = Of(v)
    BY ReachedIsSymmetric
  <2> HIDE DEF Of
  <2> QED
    BY <2>2, <2>3
<1> HIDE DEF Of, components
<1>4. ASSUME NEW c \in components
      PROVE  /\ c # {} /\ c \subseteq g.vertices /\ Closed(links, c)
             /\ \A u \in c : Of(u) = c
  BY <1>1, <1>3
<1>5. IsFiniteSet(components)
  <2>1. components \in SUBSET SUBSET g.vertices
    BY <1>4
  <2>2. IsFiniteSet(SUBSET g.vertices)
    BY FS_SUBSET DEF IsNumbered
  <2> QED
    BY <2>1, <2>2, FS_Subset
<1>6. \A c, d \in components : c # d => c \cap d = {}
  BY <1>4
<1>7. \A v \in g.vertices : \E c \in components : v \in c
  BY <1>1, <1>3
<1>8. ASSUME NEW c \in components, NEW t \in SUBSET g.vertices, Closed(links, t), c \cap t # {}
      PROVE  c \subseteq t
  <2>1. PICK u \in g.vertices : u \in c /\ u \in t
    BY <1>8
  <2> QED
    BY <1>3, <1>4, <1>8, <2>1
<1> QED
  BY <1>4, <1>5, <1>6, <1>7, <1>8 DEF components

(* The parts a graph is split into along links: every vertex is in exactly *)
(* one part, with all it is linked to; the parts cannot be split further;  *)
(* each has all edges between its vertices, and they come in the order of  *)
(* their first vertices.                                                   *)
AreComponents(parts, g, links) ==
    /\ \A n \in DOMAIN parts : /\ parts[n].vertices # {} /\ IsPart(parts[n], g)
                              /\ parts[n] = SubGraph(g, parts[n].vertices, g.removed)
    /\ \A v \in g.vertices : \E n \in DOMAIN parts : v \in parts[n].vertices
    /\ \A m, n \in DOMAIN parts :
          m < n => /\ parts[m].vertices \cap parts[n].vertices = {}
                   /\ First(parts[m].vertices) < First(parts[n].vertices)
    /\ \A n \in DOMAIN parts, p \in links : p[1] \in parts[n].vertices <=> p[2] \in parts[n].vertices
    /\ \A n \in DOMAIN parts, t \in SUBSET g.vertices :
          Closed(links, t) /\ parts[n].vertices \cap t # {} => parts[n].vertices \subseteq t

LEMMA InOrderSplits ==
    ASSUME NEW g, IsNumbered(g), NEW links, AreLinks(g, links)
    PROVE  AreComponents(InOrder(g, links), g, links)
<1> DEFINE components == ComponentsOf(g, links)
           size == Cardinality(components)
           Nth(n) == CHOOSE c \in components : Cardinality(Before(components, c)) = n - 1
           parts == InOrder(g, links)
<1>1. parts = [n \in 1 .. size |-> SubGraph(g, Nth(n), g.removed)]
  BY DEF InOrder, ComponentsOf, Before
<1>2. /\ IsFiniteSet(components)
      /\ \A c \in components : c # {} /\ c \subseteq g.vertices /\ Closed(links, c)
      /\ \A c, d \in components : c # d => c \cap d = {}
      /\ \A v \in g.vertices : \E c \in components : v \in c
      /\ \A c \in components, t \in SUBSET g.vertices : Closed(links, t) /\ c \cap t # {} => c \subseteq t
  BY ComponentsAreApart
<1>3. \A c \in components : c # {} /\ c \subseteq Nat
  BY <1>2 DEF IsNumbered
<1> HIDE DEF components, parts
<1>4. /\ size \in Nat
      /\ \A c \in components : Cardinality(Before(components, c)) \in 0 .. size - 1
      /\ \A c, d \in components : First(c) < First(d) => Cardinality(Before(components, c)) < Cardinality(Before(components, d))
      /\ \A c, d \in components : c # d => /\ First(c) # First(d)
                                           /\ Cardinality(Before(components, c)) # Cardinality(Before(components, d))
      /\ \A n \in 1 .. size : \E c \in components : Cardinality(Before(components, c)) = n - 1
  BY <1>2, <1>3, DisjointSetsAreOrdered
<1> HIDE DEF size
<1>5. \A n \in 1 .. size : Nth(n) \in components /\ Cardinality(Before(components, Nth(n))) = n - 1
  BY <1>4
<1>6. ASSUME NEW c \in components
      PROVE  \E n \in 1 .. size : Nth(n) = c
  <2> DEFINE n == Cardinality(Before(components, c)) + 1
  <2>1. n \in 1 .. size /\ n - 1 = Cardinality(Before(components, c))
    BY <1>4
  <2>2. Nth(n) \in components /\ Cardinality(Before(components, Nth(n))) = Cardinality(Before(components, c))
    BY <1>5, <2>1
  <2> HIDE DEF n, Nth
  <2> QED
    BY <1>4, <2>1, <2>2
<1> HIDE DEF Nth
<1>7. DOMAIN parts = 1 .. size /\ \A n \in 1 .. size : parts[n] = SubGraph(g, Nth(n), g.removed)
  BY <1>1
<1>8. ASSUME NEW n \in 1 .. size
      PROVE  parts[n].vertices = Nth(n) /\ IsPart(parts[n], g) /\ parts[n] = SubGraph(g, parts[n].vertices, g.removed)
  <2>1. Nth(n) \in SUBSET g.vertices
    BY <1>2, <1>5
  <2> QED
    BY <1>7, <2>1, SubGraphIsPart
<1>9. ASSUME NEW m \in 1 .. size, NEW n \in 1 .. size, m < n
      PROVE  Nth(m) \cap Nth(n) = {} /\ First(Nth(m)) < First(Nth(n))
  <2>1. Nth(m) \in components /\ Nth(n) \in components
    BY <1>5
  <2>2. Cardinality(Before(components, Nth(m))) = m - 1 /\ Cardinality(Before(components, Nth(n))) = n - 1
    BY <1>5
  <2>3. m \in Int /\ n \in Int /\ m - 1 # n - 1 /\ ~(n - 1 < m - 1)
    BY <1>4, <1>9
  <2>4. Nth(m) # Nth(n)
    BY <2>2, <2>3
  <2>5. ~(First(Nth(n)) < First(Nth(m))) /\ First(Nth(m)) # First(Nth(n))
    BY <1>4, <2>1, <2>2, <2>3, <2>4
  <2>6. First(Nth(m)) \in Nat /\ First(Nth(n)) \in Nat
    BY <1>3, <2>1, FirstIsLeast
  <2> QED
    BY <1>2, <2>1, <2>4, <2>5, <2>6
<1>10. \A v \in g.vertices : \E n \in 1 .. size : v \in Nth(n)
  BY <1>2, <1>6
<1>11. ASSUME NEW n \in 1 .. size, NEW p \in links
       PROVE  p[1] \in Nth(n) <=> p[2] \in Nth(n)
  <2>1. Closed(links, Nth(n)) /\ <<p[2], p[1]>> \in links
    BY <1>2, <1>5 DEF AreLinks
  <2> QED
    BY <2>1 DEF Closed
<1>12. \A n \in 1 .. size, t \in SUBSET g.vertices : Closed(links, t) /\ Nth(n) \cap t # {} => Nth(n) \subseteq t
  BY <1>2, <1>5
<1>13. \A n \in 1 .. size : /\ parts[n].vertices # {} /\ IsPart(parts[n], g)
                            /\ parts[n] = SubGraph(g, parts[n].vertices, g.removed)
  BY <1>3, <1>5, <1>8
<1>14. AreComponents(parts, g, links)
  BY <1>7, <1>8, <1>9, <1>10, <1>11, <1>12, <1>13 DEF AreComponents
<1> QED
  BY <1>14 DEF parts

(* union_components: the parts of a union have no edge between them, and   *)
(* all vertices and edges of the graph are in one of them, in the order of *)
(* the vertices.                                                           *)
THEOREM UnionComponentsSplit ==
    ASSUME NEW g, IsQueryGraph(g)
    PROVE  LET parts == UnionComponents(g)
           IN  /\ AreComponents(parts, g, BothWays(Steps(g.edges)))
               /\ \A e \in g.edges : \E n \in DOMAIN parts : e \in parts[n].edges
               /\ \A n \in DOMAIN parts : IsQueryGraph(parts[n])
<1> DEFINE links == BothWays(Steps(g.edges))
           parts == UnionComponents(g)
<1>1. ASSUME NEW p \in links
      PROVE  p[1] \in g.vertices /\ p[2] \in g.vertices /\ <<p[2], p[1]>> \in links
  BY StepsInside DEF BothWays, IsQueryGraph, WellFormed, Steps
<1>2. AreLinks(g, links)
  <2> HIDE DEF links
  <2> QED
    BY <1>1 DEF AreLinks
<1>3. AreComponents(parts, g, links)
  <2>1. IsNumbered(g) /\ parts = InOrder(g, links)
    BY DEF IsNumbered, IsQueryGraph, UnionComponents
  <2> HIDE DEF links, parts
  <2> QED
    BY <1>2, <2>1, InOrderSplits
<1>4. ASSUME NEW e \in g.edges
      PROVE  \E n \in DOMAIN parts : e \in parts[n].edges
  <2>1. <<e.source, e.target>> \in links /\ e.source \in g.vertices
    BY DEF BothWays, Steps, IsQueryGraph
  <2> HIDE DEF links, parts
  <2>2. PICK n \in DOMAIN parts : e.source \in parts[n].vertices
    BY <1>3, <2>1 DEF AreComponents
  <2>3. e.target \in parts[n].vertices
    BY <1>3, <2>1, <2>2 DEF AreComponents
  <2> QED
    BY <1>3, <2>2, <2>3 DEF AreComponents, IsPart
<1>5. \A n \in DOMAIN parts : IsQueryGraph(parts[n])
  <2> HIDE DEF links, parts
  <2> QED
    BY <1>3, PartsAreGraphs DEF AreComponents
<1> QED
  BY <1>3, <1>4, <1>5

(* cartesian_components: every vertex is in exactly one part.  An edge     *)
(* between two parts enters the independent strong component and carries   *)
(* no variable, and two vertices of that component in different parts have *)
(* edges both ways.                                                        *)
THEOREM CartesianComponentsSplit ==
    ASSUME NEW g, IsQueryGraph(g)
    PROVE  LET parts == CartesianComponents(g)
               Together(u, v) == \E n \in DOMAIN parts : {u, v} \subseteq parts[n].vertices
           IN  /\ \A n \in DOMAIN parts : parts[n].vertices # {} /\ IsQueryGraph(parts[n]) /\ IsPart(parts[n], g)
               /\ \A v \in g.vertices : Together(v, v)
               /\ \A m, n \in DOMAIN parts :
                     m < n => /\ parts[m].vertices \cap parts[n].vertices = {}
                              /\ First(parts[m].vertices) < First(parts[n].vertices)
               /\ \A e \in g.edges :
                     ~Together(e.source, e.target) => e.target \in IscOperands(g) /\ e.var_id = NoVar
               /\ \A u, v \in IscOperands(g) :
                     ~Together(u, v) => {<<u, v>>, <<v, u>>} \subseteq Steps(g.edges)
<1> DEFINE isc == IscOperands(g)
           labelled == {e \in g.edges : e.target \in isc => e.var_id # NoVar}
           apart == (isc \X isc) \ Steps(g.edges)
           links == BothWays(Steps(labelled) \cup apart)
           parts == CartesianComponents(g)
           Together(u, v) == \E n \in DOMAIN parts : {u, v} \subseteq parts[n].vertices
<1>1. isc \subseteq g.vertices
  BY DEF IscOperands, IndependentStrongComponents
<1>2. \A p \in Steps(labelled) : p[1] \in g.vertices /\ p[2] \in g.vertices
  BY StepsInside DEF IsQueryGraph, WellFormed
<1>3. \A p \in apart : p[1] \in g.vertices /\ p[2] \in g.vertices
  BY <1>1
<1>4. ASSUME NEW p \in links
      PROVE  p[1] \in g.vertices /\ p[2] \in g.vertices /\ <<p[2], p[1]>> \in links
  <2> DEFINE pairs == Steps(labelled) \cup apart
  <2>1. \A q \in Steps(labelled) : q = <<q[1], q[2]>>
    BY DEF Steps
  <2>2. \A q \in pairs : q[1] \in g.vertices /\ q[2] \in g.vertices /\ q = <<q[1], q[2]>>
    BY <1>2, <1>3, <2>1
  <2>3. links = BothWays(pairs)
    OBVIOUS
  <2> HIDE DEF pairs, links
  <2> QED
    BY <2>2, <2>3 DEF BothWays
<1>5. AreLinks(g, links)
  <2> HIDE DEF links
  <2> QED
    BY <1>4 DEF AreLinks
<1>6. AreComponents(parts, g, links)
  <2>1. IsNumbered(g) /\ parts = InOrder(g, links)
    BY DEF IsNumbered, IsQueryGraph, CartesianComponents
  <2> HIDE DEF links, parts
  <2> QED
    BY <1>5, <2>1, InOrderSplits
<1>7. ASSUME NEW u \in g.vertices, NEW v, <<u, v>> \in links
      PROVE  Together(u, v)
  <2> HIDE DEF links, parts
  <2>1. PICK n \in DOMAIN parts : u \in parts[n].vertices
    BY <1>6 DEF AreComponents
  <2>2. v \in parts[n].vertices
    BY <1>6, <1>7, <2>1 DEF AreComponents
  <2> QED
    BY <2>1, <2>2
<1>8. ASSUME NEW e \in g.edges, ~Together(e.source, e.target)
      PROVE  e.target \in isc /\ e.var_id = NoVar
  <2>1. e.source \in g.vertices
    BY DEF IsQueryGraph
  <2>2. e \in labelled => <<e.source, e.target>> \in links
    BY DEF BothWays, Steps
  <2> HIDE DEF links, isc, Together
  <2> QED
    BY <1>7, <1>8, <2>1, <2>2
<1>9. ASSUME NEW u \in isc, NEW v \in isc, ~Together(u, v)
      PROVE  {<<u, v>>, <<v, u>>} \subseteq Steps(g.edges)
  <2>1. <<u, v>> \in apart => <<u, v>> \in links
    BY DEF BothWays
  <2>2. <<v, u>> \in apart => <<v, u>> \in links
    BY DEF BothWays
  <2>3. Together(v, u) => Together(u, v)
    OBVIOUS
  <2> HIDE DEF links, isc, Together
  <2> QED
    BY <1>1, <1>7, <1>9, <2>1, <2>2, <2>3
<1>10. \A n \in DOMAIN parts : parts[n].vertices # {} /\ IsQueryGraph(parts[n]) /\ IsPart(parts[n], g)
  <2> HIDE DEF links, parts
  <2> QED
    BY <1>6, PartsAreGraphs DEF AreComponents
<1>11. \A v \in g.vertices : Together(v, v)
  <2> HIDE DEF links, parts
  <2> QED
    BY <1>6 DEF AreComponents
<1>12. \A m, n \in DOMAIN parts :
         m < n => /\ parts[m].vertices \cap parts[n].vertices = {}
                  /\ First(parts[m].vertices) < First(parts[n].vertices)
  <2> HIDE DEF links, parts
  <2> QED
    BY <1>6 DEF AreComponents
<1> QED
  BY <1>8, <1>9, <1>10, <1>11, <1>12

(* isc_operands asserts that a graph has an independent strong component.  *)
(* A graph that is not empty has one, whatever its edges: evaluation       *)
(* always finds operands to begin with.  (That it has no second one is up  *)
(* to the pattern.)  Strong components are apart, and nothing outside an   *)
(* independent one leads into it.                                          *)
THEOREM IndependentStrongComponentsExist ==
    ASSUME NEW g, IsQueryGraph(g), g.vertices # {}
    PROVE  /\ IscOperands(g) # {}
           /\ \A c, d \in IndependentStrongComponents(g) : c # d => c \cap d = {}
           /\ \A e \in g.edges, c \in IndependentStrongComponents(g) : e.target \in c => e.source \in c
<1> DEFINE steps == Steps(g.edges)
           R(v) == Reached(g, steps, {v})
           Strong(v) == {u \in g.vertices : u \in R(v) /\ v \in R(u)}
           Above(v) == {u \in g.vertices : v \in R(u)}
<1>1. \A p \in steps : p[1] \in g.vertices => p[2] \in g.vertices
  BY StepsInside DEF IsQueryGraph, WellFormed
<1>2. /\ \A c \in IndependentStrongComponents(g) :
            (\E v \in g.vertices : c = Strong(v)) /\ \A u \in g.vertices \ c : R(u) \cap c = {}
      /\ \A v \in g.vertices : (\A u \in g.vertices \ Strong(v) : R(u) \cap Strong(v) = {})
                               => Strong(v) \in IndependentStrongComponents(g)
  <2> DEFINE reaches == [v \in g.vertices |-> R(v)]
             strong == {{u \in g.vertices : u \in reaches[v] /\ v \in reaches[u]} : v \in g.vertices}
  <2>1. IndependentStrongComponents(g) = {c \in strong : \A u \in g.vertices \ c : reaches[u] \cap c = {}}
    BY DEF IndependentStrongComponents
  <2>2. \A v \in g.vertices : reaches[v] = R(v)
    OBVIOUS
  <2> HIDE DEF reaches, R
  <2>3. \A v \in g.vertices : {u \in g.vertices : u \in reaches[v] /\ v \in reaches[u]} = Strong(v)
    BY <2>2
  <2>4. strong = {Strong(v) : v \in g.vertices}
    <3> HIDE DEF Strong
    <3> QED
      BY <2>3
  <2> HIDE DEF strong, Strong
  <2> QED
    BY <2>1, <2>2, <2>4
<1>3. \A v \in g.vertices : v \in R(v)
  BY <1>1, ReachedIsTransitive, ReachedIsLeast
<1>4. \A v \in g.vertices : \A u \in R(v) : u \in g.vertices /\ R(u) \subseteq R(v)
  BY <1>1, ReachedIsTransitive
<1>5. \A e \in g.edges : e.source \in g.vertices /\ e.target \in g.vertices /\ e.target \in R(e.source)
  <2> SUFFICES ASSUME NEW e \in g.edges
               PROVE  e.source \in g.vertices /\ e.target \in g.vertices /\ e.target \in R(e.source)
    OBVIOUS
  <2>1. e.source \in g.vertices /\ e.target \in g.vertices /\ <<e.source, e.target>> \in steps
    BY DEF IsQueryGraph, Steps
  <2> HIDE DEF steps
  <2> QED
    BY <1>1, <2>1, LinksReach
<1> HIDE DEF steps, R
<1>6. PICK v \in g.vertices : \A u \in g.vertices : Cardinality(Above(v)) <= Cardinality(Above(u))
  <2> DEFINE sizes == {Cardinality(Above(u)) : u \in g.vertices}
  <2>1. \A u \in g.vertices : Cardinality(Above(u)) \in Nat
    <3>1. IsFiniteSet(g.vertices)
      BY DEF IsQueryGraph
    <3> QED
      BY <3>1, FS_Subset, FS_CardinalityType
  <2>2. sizes \in SUBSET Nat /\ sizes # {}
    BY <2>1
  <2>3. PICK n \in sizes : \A m \in sizes : n <= m
    <3> HIDE DEF sizes
    <3> QED
      BY <2>2, LeastElement
  <2> QED
    BY <2>3
<1>7. ASSUME NEW u \in g.vertices, NEW w \in Strong(v), w \in R(u)
      PROVE  u \in Strong(v)
  <2>1. v \in R(u)
    BY <1>4, <1>7
  <2>2. Above(u) \subseteq Above(v)
    BY <1>4, <2>1
  <2>3. IsFiniteSet(Above(v)) /\ IsFiniteSet(Above(u))
    BY FS_Subset DEF IsQueryGraph
  <2>4. Cardinality(Above(v)) <= Cardinality(Above(u))
    BY <1>6
  <2>5. v \in Above(v)
    BY <1>3
  <2> HIDE DEF Above
  <2>6. /\ Cardinality(Above(u)) <= Cardinality(Above(v))
        /\ Cardinality(Above(u)) = Cardinality(Above(v)) => Above(u) = Above(v)
    BY <2>2, <2>3, FS_Subset
  <2>7. Cardinality(Above(u)) \in Nat /\ Cardinality(Above(v)) \in Nat
    BY <2>3, FS_CardinalityType
  <2>8. Above(u) = Above(v)
    BY <2>4, <2>6, <2>7
  <2>9. u \in R(v)
    BY <2>5, <2>8 DEF Above
  <2> QED
    BY <2>1, <2>9
<1>8. Strong(v) \in IndependentStrongComponents(g) /\ v \in Strong(v)
  BY <1>2, <1>3, <1>7
<1>9. ASSUME NEW c \in IndependentStrongComponents(g), NEW d \in IndependentStrongComponents(g), NEW w \in c \cap d
      PROVE  c = d
  <2>1. PICK x \in g.vertices : c = Strong(x)
    BY <1>2
  <2>2. PICK y \in g.vertices : d = Strong(y)
    BY <1>2
  <2>3. w \in R(x) /\ x \in R(w) /\ w \in R(y) /\ y \in R(w) /\ w \in g.vertices
    BY <2>1, <2>2
  <2>4. R(x) = R(w) /\ R(y) = R(w)
    BY <1>4, <2>3
  <2>5. \A u \in g.vertices : x \in R(u) <=> y \in R(u)
    BY <1>4, <2>3
  <2> QED
    BY <2>1, <2>2, <2>4, <2>5
<1>10. \A e \in g.edges, c \in IndependentStrongComponents(g) : e.target \in c => e.source \in c
  BY <1>2, <1>5
<1>11. IscOperands(g) # {}
  BY <1>8 DEF IscOperands
<1> QED
  BY <1>9, <1>10, <1>11

-----------------------------------------------------------------------------
(* Building the graph of a query. *)

(* The graphs of queries as records.  As the visitor builds them, their    *)
(* vertices are numbered from 0; a part of one may have gaps in between.   *)
IsWhole(g) ==
    /\ IsQueryGraph(g)
    /\ g = [vertices |-> g.vertices, var_ids |-> g.var_ids, item |-> g.item, edges |-> g.edges, removed |-> g.removed]
    /\ \A e \in g.edges : e = [source |-> e.source, target |-> e.target, var_id |-> e.var_id, is_opt |-> e.is_opt]
IsBuilt(g) == IsWhole(g) /\ g.vertices = 0 .. Cardinality(g.vertices) - 1

(* The numbers below a number are that many. *)
LEMMA NumbersBelow ==
    ASSUME NEW n \in Nat
    PROVE  IsFiniteSet(0 .. n - 1) /\ Cardinality(0 .. n - 1) = n
<1>1. 0 \in Int /\ n - 1 \in Int /\ (0 > n - 1 => n = 0) /\ (n - 1) - 0 + 1 = n
  OBVIOUS
<1> QED
  BY <1>1, FS_Interval

(* What a vertex is in the graph of a query. *)
IsVertex(var_ids, item) ==
    /\ var_ids \in Seq(Range(var_ids))
    /\ \/ item.kind = "operand" /\ Len(item.vars) = Len(var_ids)
       \/ item.kind \in {"filter", "assignment"}
       \/ item = Phantom /\ var_ids = <<>>

LEMMA BuiltFromParts ==
    ASSUME NEW g, NEW n \in Nat, g.vertices = 0 .. n - 1,
           g = [vertices |-> g.vertices, var_ids |-> g.var_ids, item |-> g.item, edges |-> g.edges, removed |-> g.removed],
           DOMAIN g.var_ids = g.vertices, DOMAIN g.item = g.vertices,
           \A v \in g.vertices : IsVertex(g.var_ids[v], g.item[v]),
           \A e \in g.edges : /\ e.source \in g.vertices /\ e.target \in g.vertices
                              /\ e = [source |-> e.source, target |-> e.target, var_id |-> e.var_id, is_opt |-> e.is_opt]
    PROVE  IsBuilt(g) /\ Cardinality(g.vertices) = n
<1>1. IsFiniteSet(g.vertices) /\ Cardinality(g.vertices) = n
  BY NumbersBelow
<1>2. g.vertices \subseteq Nat
  OBVIOUS
<1>3. \A v \in g.vertices : /\ g.var_ids[v] \in Seq(VarIds(g, v))
                            /\ \/ g.item[v].kind = "operand" /\ Len(g.item[v].vars) = Len(g.var_ids[v])
                               \/ IsExpression(g, v)
                               \/ g.item[v] = Phantom /\ g.var_ids[v] = <<>>
  BY DEF IsVertex, VarIds, IsExpression, IsFilter, IsAssignment
<1>4. IsQueryGraph(g)
  BY <1>1, <1>2, <1>3 DEF IsQueryGraph
<1> QED
  BY <1>1, <1>4 DEF IsBuilt, IsWhole

LEMMA WholeHasParts ==
    ASSUME NEW g, IsWhole(g)
    PROVE  /\ Cardinality(g.vertices) \in Nat /\ IsNumbered(g)
           /\ g = [vertices |-> g.vertices, var_ids |-> g.var_ids, item |-> g.item, edges |-> g.edges, removed |-> g.removed]
           /\ DOMAIN g.var_ids = g.vertices /\ DOMAIN g.item = g.vertices
           /\ \A v \in g.vertices : IsVertex(g.var_ids[v], g.item[v])
           /\ \A e \in g.edges : /\ e.source \in g.vertices /\ e.target \in g.vertices
                                 /\ e = [source |-> e.source, target |-> e.target, var_id |-> e.var_id, is_opt |-> e.is_opt]
<1>1. Cardinality(g.vertices) \in Nat /\ IsNumbered(g)
  BY FS_CardinalityType DEF IsWhole, IsQueryGraph, IsNumbered
<1>2. \A v \in g.vertices : IsVertex(g.var_ids[v], g.item[v])
  BY DEF IsWhole, IsQueryGraph, IsVertex, VarIds, IsExpression, IsFilter, IsAssignment
<1> QED
  BY <1>1, <1>2 DEF IsWhole, IsQueryGraph

(* create_operand_from_tp, visit_bind and create_operand_from_filter begin *)
(* with a graph of one vertex.                                             *)
LEMMA OneVertexIsBuilt ==
    ASSUME NEW var_ids, NEW item, IsVertex(var_ids, item)
    PROVE  IsBuilt(OneVertex(var_ids, item))
<1> DEFINE g == OneVertex(var_ids, item)
<1>0. g = [vertices |-> g.vertices, var_ids |-> g.var_ids, item |-> g.item, edges |-> g.edges, removed |-> g.removed]
  BY DEF OneVertex
<1>1. /\ g.vertices = {0} /\ g.edges = {}
      /\ g.var_ids = [v \in {0} |-> var_ids] /\ g.item = [v \in {0} |-> item]
  BY DEF OneVertex
<1>2. 1 \in Nat /\ {0} = 0 .. 1 - 1
  OBVIOUS
<1> HIDE DEF g
<1>3. /\ g.vertices = 0 .. 1 - 1 /\ DOMAIN g.var_ids = g.vertices /\ DOMAIN g.item = g.vertices
      /\ \A v \in g.vertices : IsVertex(g.var_ids[v], g.item[v])
  BY <1>1, <1>2
<1>4. \A e \in g.edges : /\ e.source \in g.vertices /\ e.target \in g.vertices
                         /\ e = [source |-> e.source, target |-> e.target, var_id |-> e.var_id, is_opt |-> e.is_opt]
  BY <1>1
<1>5. IsBuilt(g)
  BY <1>0, <1>2, <1>3, <1>4, BuiltFromParts
<1> QED
  BY <1>5 DEF g

(* An edge that leads somewhere else. *)
LEMMA EdgeMoved ==
    ASSUME NEW e, NEW s2, NEW t2,
           e = [source |-> e.source, target |-> e.target, var_id |-> e.var_id, is_opt |-> e.is_opt]
    PROVE  [e EXCEPT !.source = s2, !.target = t2] =
               [source |-> s2, target |-> t2, var_id |-> e.var_id, is_opt |-> e.is_opt]
<1>0. PICK t, x, o : t = e.target /\ x = e.var_id /\ o = e.is_opt
  OBVIOUS
<1>1. PICK d : d = [e EXCEPT !.source = s2]
  OBVIOUS
<1>2. d = [source |-> s2, target |-> t, var_id |-> x, is_opt |-> o]
  BY <1>0, <1>1
<1>3. [d EXCEPT !.target = t2] = [source |-> s2, target |-> t2, var_id |-> x, is_opt |-> o]
  BY <1>2
<1>4. [e EXCEPT !.source = s2, !.target = t2] = [d EXCEPT !.target = t2]
  BY <1>1, Zenon
<1> QED
  BY <1>0, <1>3, <1>4, Zenon

(* merge_graphs: the graphs are side by side.  The vertices of the first   *)
(* have the first numbers, those of the second follow; each stands for     *)
(* what it stood for, and no edge leads from one graph to the other.       *)
THEOREM MergingKeepsBothGraphs ==
    ASSUME NEW g, IsWhole(g), NEW h, IsWhole(h)
    PROVE  LET merged == MergeGraphs(g, h)
               n == Cardinality(g.vertices)
           IN  /\ IsBuilt(merged)
               /\ Cardinality(merged.vertices) = n + Cardinality(h.vertices)
               /\ \A v \in g.vertices : /\ Rank(g, v) \in merged.vertices
                                        /\ merged.item[Rank(g, v)] = g.item[v]
                                        /\ merged.var_ids[Rank(g, v)] = g.var_ids[v]
               /\ \A v \in h.vertices : /\ n + Rank(h, v) \in merged.vertices
                                        /\ merged.item[n + Rank(h, v)] = h.item[v]
                                        /\ merged.var_ids[n + Rank(h, v)] = h.var_ids[v]
               /\ \A e \in merged.edges : e.source < n <=> e.target < n
<1> DEFINE n == Cardinality(g.vertices)
           m == Cardinality(h.vertices)
           merged == MergeGraphs(g, h)
           At(f, f2, i) == IF i < n THEN f[AtRank(g, i)] ELSE f2[AtRank(h, i - n)]
           FromG(e) == [e EXCEPT !.source = Rank(g, @), !.target = Rank(g, @)]
           FromH(e) == [e EXCEPT !.source = n + Rank(h, @), !.target = n + Rank(h, @)]
<1>0. merged = [vertices |-> merged.vertices, var_ids |-> merged.var_ids, item |-> merged.item,
                edges |-> merged.edges, removed |-> merged.removed]
  BY DEF MergeGraphs
<1>1. /\ merged.vertices = 0 .. n + m - 1
      /\ merged.var_ids = [i \in 0 .. n + m - 1 |-> At(g.var_ids, h.var_ids, i)]
      /\ merged.item = [i \in 0 .. n + m - 1 |-> At(g.item, h.item, i)]
      /\ merged.edges = {FromG(e) : e \in g.edges} \cup {FromH(e) : e \in h.edges}
  BY DEF MergeGraphs
<1>2. /\ n \in Nat /\ IsNumbered(g)
      /\ \A v \in g.vertices : IsVertex(g.var_ids[v], g.item[v])
      /\ \A e \in g.edges : /\ e.source \in g.vertices /\ e.target \in g.vertices
                            /\ e = [source |-> e.source, target |-> e.target, var_id |-> e.var_id, is_opt |-> e.is_opt]
  BY WholeHasParts
<1>3. /\ m \in Nat /\ IsNumbered(h)
      /\ \A v \in h.vertices : IsVertex(h.var_ids[v], h.item[v])
      /\ \A e \in h.edges : /\ e.source \in h.vertices /\ e.target \in h.vertices
                            /\ e = [source |-> e.source, target |-> e.target, var_id |-> e.var_id, is_opt |-> e.is_opt]
  BY WholeHasParts
<1>4. /\ \A v \in g.vertices : Rank(g, v) \in 0 .. n - 1 /\ AtRank(g, Rank(g, v)) = v
      /\ \A i \in 0 .. n - 1 : AtRank(g, i) \in g.vertices
  BY <1>2, RanksIncrease, RanksAreNumbers
<1>5. /\ \A v \in h.vertices : Rank(h, v) \in 0 .. m - 1 /\ AtRank(h, Rank(h, v)) = v
      /\ \A i \in 0 .. m - 1 : AtRank(h, i) \in h.vertices
  BY <1>3, RanksIncrease, RanksAreNumbers
<1>6. ASSUME NEW e \in g.edges
      PROVE  FromG(e) = [source |-> Rank(g, e.source), target |-> Rank(g, e.target), var_id |-> e.var_id, is_opt |-> e.is_opt]
  <2>1. e = [source |-> e.source, target |-> e.target, var_id |-> e.var_id, is_opt |-> e.is_opt]
    BY <1>2
  <2>2. PICK s, t : s = Rank(g, e.source) /\ t = Rank(g, e.target)
    OBVIOUS
  <2>3. [e EXCEPT !.source = s, !.target = t] = [source |-> s, target |-> t, var_id |-> e.var_id, is_opt |-> e.is_opt]
    BY <2>1, EdgeMoved, Zenon
  <2>4. FromG(e) = [e EXCEPT !.source = s, !.target = t]
    BY <2>2, Zenon
  <2> QED
    BY <2>2, <2>3, <2>4, Zenon
<1>7. ASSUME NEW e \in h.edges
      PROVE  FromH(e) = [source |-> n + Rank(h, e.source), target |-> n + Rank(h, e.target),
                         var_id |-> e.var_id, is_opt |-> e.is_opt]
  <2>1. e = [source |-> e.source, target |-> e.target, var_id |-> e.var_id, is_opt |-> e.is_opt]
    BY <1>3
  <2>2. PICK s, t : s = n + Rank(h, e.source) /\ t = n + Rank(h, e.target)
    OBVIOUS
  <2>3. [e EXCEPT !.source = s, !.target = t] = [source |-> s, target |-> t, var_id |-> e.var_id, is_opt |-> e.is_opt]
    BY <2>1, EdgeMoved, Zenon
  <2>4. FromH(e) = [e EXCEPT !.source = s, !.target = t]
    BY <2>2, Zenon
  <2> QED
    BY <2>2, <2>3, <2>4, Zenon
<1> HIDE DEF n, m, merged, FromG, FromH
<1>8. ASSUME NEW e \in merged.edges
      PROVE  /\ e.source \in merged.vertices /\ e.target \in merged.vertices
             /\ e = [source |-> e.source, target |-> e.target, var_id |-> e.var_id, is_opt |-> e.is_opt]
             /\ e.source < n <=> e.target < n
  <2>1. CASE \E f \in g.edges : e = FromG(f)
    <3>1. PICK f \in g.edges : e = FromG(f)
      BY <2>1
    <3>2. e = [source |-> Rank(g, f.source), target |-> Rank(g, f.target), var_id |-> f.var_id, is_opt |-> f.is_opt]
      BY <3>1, <1>6
    <3>3. Rank(g, f.source) \in 0 .. n - 1 /\ Rank(g, f.target) \in 0 .. n - 1
      BY <1>2, <1>4
    <3>4. e.source \in 0 .. n - 1 /\ e.target \in 0 .. n - 1
      BY <3>2, <3>3
    <3>5. e = [source |-> e.source, target |-> e.target, var_id |-> e.var_id, is_opt |-> e.is_opt]
      BY <3>2
    <3> QED
      BY <1>1, <1>2, <1>3, <3>4, <3>5
  <2>2. CASE \E f \in h.edges : e = FromH(f)
    <3>1. PICK f \in h.edges : e = FromH(f)
      BY <2>2
    <3>2. e = [source |-> n + Rank(h, f.source), target |-> n + Rank(h, f.target), var_id |-> f.var_id, is_opt |-> f.is_opt]
      BY <3>1, <1>7
    <3>3. Rank(h, f.source) \in 0 .. m - 1 /\ Rank(h, f.target) \in 0 .. m - 1
      BY <1>3, <1>5
    <3>4. e.source \in n .. n + m - 1 /\ e.target \in n .. n + m - 1
      BY <1>2, <1>3, <3>2, <3>3
    <3>5. e = [source |-> e.source, target |-> e.target, var_id |-> e.var_id, is_opt |-> e.is_opt]
      BY <3>2
    <3> QED
      BY <1>1, <1>2, <1>3, <3>4, <3>5
  <2> QED
    BY <1>1, <2>1, <2>2
<1>9. /\ DOMAIN merged.var_ids = merged.vertices /\ DOMAIN merged.item = merged.vertices
      /\ \A i \in merged.vertices : /\ merged.var_ids[i] = At(g.var_ids, h.var_ids, i)
                                    /\ merged.item[i] = At(g.item, h.item, i)
  BY <1>1
<1>10. ASSUME NEW i \in merged.vertices
       PROVE  IsVertex(merged.var_ids[i], merged.item[i])
  <2>1. CASE i < n
    <3>1. AtRank(g, i) \in g.vertices
      BY <1>1, <1>2, <1>3, <1>4, <2>1
    <3> QED
      BY <1>2, <1>9, <2>1, <3>1
  <2>2. CASE ~(i < n)
    <3>1. i - n \in 0 .. m - 1
      BY <1>1, <1>2, <1>3, <2>2
    <3>2. AtRank(h, i - n) \in h.vertices
      BY <1>5, <3>1
    <3> QED
      BY <1>3, <1>9, <2>2, <3>2
  <2> QED
    BY <2>1, <2>2
<1>11. IsBuilt(merged) /\ Cardinality(merged.vertices) = n + m
  <2>1. n + m \in Nat /\ merged.vertices = 0 .. (n + m) - 1
    BY <1>1, <1>2, <1>3
  <2>2. DOMAIN merged.var_ids = merged.vertices /\ DOMAIN merged.item = merged.vertices
    BY <1>9
  <2>3. \A i \in merged.vertices : IsVertex(merged.var_ids[i], merged.item[i])
    BY <1>10
  <2>4. \A e \in merged.edges :
          /\ e.source \in merged.vertices /\ e.target \in merged.vertices
          /\ e = [source |-> e.source, target |-> e.target, var_id |-> e.var_id, is_opt |-> e.is_opt]
    BY <1>8
  <2> HIDE DEF At
  <2> QED
    BY <1>0, <2>1, <2>2, <2>3, <2>4, BuiltFromParts
<1>12. ASSUME NEW v \in g.vertices
       PROVE  /\ Rank(g, v) \in merged.vertices
              /\ merged.item[Rank(g, v)] = g.item[v] /\ merged.var_ids[Rank(g, v)] = g.var_ids[v]
  <2>1. Rank(g, v) \in 0 .. n - 1 /\ AtRank(g, Rank(g, v)) = v
    BY <1>4
  <2>2. Rank(g, v) \in merged.vertices /\ Rank(g, v) < n
    BY <1>1, <1>2, <1>3, <2>1
  <2> QED
    BY <1>9, <2>1, <2>2
<1>13. ASSUME NEW v \in h.vertices
       PROVE  /\ n + Rank(h, v) \in merged.vertices
              /\ merged.item[n + Rank(h, v)] = h.item[v] /\ merged.var_ids[n + Rank(h, v)] = h.var_ids[v]
  <2>1. Rank(h, v) \in 0 .. m - 1 /\ AtRank(h, Rank(h, v)) = v
    BY <1>5
  <2>2. n + Rank(h, v) \in merged.vertices /\ ~(n + Rank(h, v) < n) /\ (n + Rank(h, v)) - n = Rank(h, v)
    BY <1>1, <1>2, <1>3, <2>1
  <2> QED
    BY <1>9, <2>1, <2>2
<1> QED
  BY <1>8, <1>11, <1>12, <1>13 DEF n, m, merged

(* More edges inside a graph. *)
LEMMA MoreEdges ==
    ASSUME NEW g, IsBuilt(g), NEW new,
           \A e \in new : /\ e.source \in g.vertices /\ e.target \in g.vertices
                          /\ e = [source |-> e.source, target |-> e.target, var_id |-> e.var_id, is_opt |-> e.is_opt],
           NEW more, more = [g EXCEPT !.edges = g.edges \cup new]
    PROVE  /\ IsBuilt(more)
           /\ more.vertices = g.vertices /\ more.item = g.item /\ more.var_ids = g.var_ids
           /\ more.edges = g.edges \cup new
<1>1. more = [vertices |-> g.vertices, var_ids |-> g.var_ids, item |-> g.item,
              edges |-> g.edges \cup new, removed |-> g.removed]
  BY DEF IsBuilt, IsWhole
<1>2. /\ more.vertices = g.vertices /\ more.item = g.item /\ more.var_ids = g.var_ids
      /\ more.edges = g.edges \cup new /\ more.removed = g.removed
  BY <1>1
<1>3. more = [vertices |-> more.vertices, var_ids |-> more.var_ids, item |-> more.item,
              edges |-> more.edges, removed |-> more.removed]
  BY <1>1, <1>2
<1>4. /\ Cardinality(g.vertices) \in Nat /\ g.vertices = 0 .. Cardinality(g.vertices) - 1
      /\ DOMAIN g.var_ids = g.vertices /\ DOMAIN g.item = g.vertices
      /\ \A v \in g.vertices : IsVertex(g.var_ids[v], g.item[v])
      /\ \A e \in g.edges : /\ e.source \in g.vertices /\ e.target \in g.vertices
                            /\ e = [source |-> e.source, target |-> e.target, var_id |-> e.var_id, is_opt |-> e.is_opt]
  BY WholeHasParts DEF IsBuilt
<1>5. PICK n \in Nat : n = Cardinality(g.vertices)
  BY <1>4
<1>6. /\ more.vertices = 0 .. n - 1
      /\ DOMAIN more.var_ids = more.vertices /\ DOMAIN more.item = more.vertices
      /\ \A v \in more.vertices : IsVertex(more.var_ids[v], more.item[v])
  BY <1>2, <1>4, <1>5
<1>7. \A e \in more.edges : /\ e.source \in more.vertices /\ e.target \in more.vertices
                            /\ e = [source |-> e.source, target |-> e.target, var_id |-> e.var_id, is_opt |-> e.is_opt]
  BY <1>2, <1>4
<1>8. IsBuilt(more)
  BY <1>3, <1>6, <1>7, BuiltFromParts
<1> QED
  BY <1>2, <1>8

(* add_dependencies between vertices of a graph: the graph has an edge     *)
(* from one to the other, and back if it is asked for, and stays a graph;  *)
(* a variable both have is on such an edge, one that not both have is not. *)
THEOREM DependenciesStayInside ==
    ASSUME NEW g, IsBuilt(g), NEW source \in g.vertices, NEW target \in g.vertices, NEW both \in BOOLEAN
    PROVE  LET more == AddDependencies(g, source, target, both)
               shared == VarIds(g, source) \cap VarIds(g, target)
           IN  /\ IsBuilt(more)
               /\ more.vertices = g.vertices /\ more.item = g.item /\ more.var_ids = g.var_ids
               /\ g.edges \subseteq more.edges
               /\ \E e \in more.edges : e.source = source /\ e.target = target /\ ~e.is_opt
               /\ \A x \in shared : \E e \in more.edges : e.source = source /\ e.target = target /\ e.var_id = x
               /\ both => \A e \in more.edges \ g.edges :
                             \E d \in more.edges : d.source = e.target /\ d.target = e.source /\ d.var_id = e.var_id
               /\ \A e \in more.edges \ g.edges :
                     /\ \/ e.source = source /\ e.target = target
                        \/ both /\ e.source = target /\ e.target = source
                     /\ \/ e.var_id \in shared
                        \/ shared = {} /\ e.var_id = NoVar
<1> DEFINE shared == VarIds(g, source) \cap VarIds(g, target)
           labels == IF shared = {} THEN {NoVar} ELSE shared
           There == {[source |-> source, target |-> target, var_id |-> x, is_opt |-> FALSE] : x \in labels}
           Back == {[source |-> target, target |-> source, var_id |-> x, is_opt |-> FALSE] : x \in labels}
           new == There \cup (IF both THEN Back ELSE {})
           more == AddDependencies(g, source, target, both)
<1>1. more = [g EXCEPT !.edges = g.edges \cup new]
  BY DEF AddDependencies
<1>2. labels # {} /\ \A x \in shared : x \in labels
  OBVIOUS
<1>3. \A x \in labels : x \in shared \/ (shared = {} /\ x = NoVar)
  OBVIOUS
<1> HIDE DEF more, labels, shared
<1>4. /\ \A e \in There : /\ e.source = source /\ e.target = target /\ e.var_id \in labels
                       /\ e = [source |-> e.source, target |-> e.target, var_id |-> e.var_id, is_opt |-> e.is_opt]
      /\ \A x \in labels : \E e \in There : e.source = source /\ e.target = target /\ e.var_id = x /\ e.is_opt = FALSE
  <2>1. ASSUME NEW x \in labels
        PROVE  \E e \in There : e.source = source /\ e.target = target /\ e.var_id = x /\ e.is_opt = FALSE
    <3>1. [source |-> source, target |-> target, var_id |-> x, is_opt |-> FALSE] \in There
      OBVIOUS
    <3> QED
      BY <3>1
  <2>2. ASSUME NEW e \in There
        PROVE  /\ e.source = source /\ e.target = target /\ e.var_id \in labels
               /\ e = [source |-> e.source, target |-> e.target, var_id |-> e.var_id, is_opt |-> e.is_opt]
    OBVIOUS
  <2> HIDE DEF There
  <2> QED
    BY <2>1, <2>2
<1>5. /\ \A e \in Back : /\ e.source = target /\ e.target = source /\ e.var_id \in labels
                       /\ e = [source |-> e.source, target |-> e.target, var_id |-> e.var_id, is_opt |-> e.is_opt]
      /\ \A x \in labels : \E e \in Back : e.source = target /\ e.target = source /\ e.var_id = x /\ e.is_opt = FALSE
  <2>1. ASSUME NEW x \in labels
        PROVE  \E e \in Back : e.source = target /\ e.target = source /\ e.var_id = x /\ e.is_opt = FALSE
    <3>1. [source |-> target, target |-> source, var_id |-> x, is_opt |-> FALSE] \in Back
      OBVIOUS
    <3> QED
      BY <3>1
  <2>2. ASSUME NEW e \in Back
        PROVE  /\ e.source = target /\ e.target = source /\ e.var_id \in labels
               /\ e = [source |-> e.source, target |-> e.target, var_id |-> e.var_id, is_opt |-> e.is_opt]
    OBVIOUS
  <2> HIDE DEF Back
  <2> QED
    BY <2>1, <2>2
<1> HIDE DEF There, Back
<1>6. ASSUME NEW e \in new, e \notin There
      PROVE  both /\ e \in Back
  <2>1. e \in IF both THEN Back ELSE {}
    BY <1>6
  <2> QED
    BY <2>1
<1>7. There \subseteq new /\ (both => Back \subseteq new)
  OBVIOUS
<1> HIDE DEF new
<1>8. ASSUME NEW e \in new
      PROVE  /\ e.source \in g.vertices /\ e.target \in g.vertices /\ e.var_id \in labels
             /\ e = [source |-> e.source, target |-> e.target, var_id |-> e.var_id, is_opt |-> e.is_opt]
             /\ \/ e.source = source /\ e.target = target
                \/ both /\ e.source = target /\ e.target = source
  <2>1. CASE e \in There
    BY <1>4, <2>1
  <2>2. CASE e \notin There
    <3>1. both /\ e \in Back
      BY <1>6, <2>2
    <3>2. /\ e.source = target /\ e.target = source /\ e.var_id \in labels
          /\ e = [source |-> e.source, target |-> e.target, var_id |-> e.var_id, is_opt |-> e.is_opt]
      BY <1>5, <3>1
    <3> QED
      BY <3>1, <3>2
  <2> QED
    BY <2>1, <2>2
<1>9. /\ IsBuilt(more)
      /\ more.vertices = g.vertices /\ more.item = g.item /\ more.var_ids = g.var_ids
      /\ more.edges = g.edges \cup new
  <2>1. \A e \in new : /\ e.source \in g.vertices /\ e.target \in g.vertices
                       /\ e = [source |-> e.source, target |-> e.target, var_id |-> e.var_id, is_opt |-> e.is_opt]
    BY <1>8
  <2> QED
    BY <1>1, <2>1, MoreEdges
<1>10. ASSUME NEW x \in labels
       PROVE  \E e \in more.edges : e.source = source /\ e.target = target /\ e.var_id = x /\ ~e.is_opt
  <2>1. PICK e \in There : e.source = source /\ e.target = target /\ e.var_id = x /\ e.is_opt = FALSE
    BY <1>4
  <2> QED
    BY <1>7, <1>9, <2>1
<1>11. ASSUME NEW e \in more.edges \ g.edges
       PROVE  /\ \/ e.source = source /\ e.target = target
                 \/ both /\ e.source = target /\ e.target = source
              /\ \/ e.var_id \in shared
                 \/ shared = {} /\ e.var_id = NoVar
  <2>1. e \in new
    BY <1>9
  <2>2. e.var_id \in shared \/ (shared = {} /\ e.var_id = NoVar)
    BY <1>3, <1>8, <2>1
  <2> QED
    BY <1>8, <2>1, <2>2
<1>12. ASSUME both, NEW e \in more.edges \ g.edges
       PROVE  \E d \in more.edges : d.source = e.target /\ d.target = e.source /\ d.var_id = e.var_id
  <2>1. e \in new
    BY <1>9
  <2>2. e.var_id \in labels
    BY <1>8, <2>1
  <2>3. CASE e.source = source /\ e.target = target
    <3>1. PICK d \in Back : d.source = target /\ d.target = source /\ d.var_id = e.var_id
      BY <1>5, <2>2
    <3>2. d \in more.edges
      BY <1>7, <1>9, <1>12
    <3> QED
      BY <2>3, <3>1, <3>2
  <2>4. CASE e.source = target /\ e.target = source
    BY <1>10, <2>2, <2>4
  <2> QED
    BY <1>8, <2>1, <2>3, <2>4
<1>13. \E e \in more.edges : e.source = source /\ e.target = target /\ ~e.is_opt
  BY <1>2, <1>10
<1>14. \A x \in shared : \E e \in more.edges : e.source = source /\ e.target = target /\ e.var_id = x
  BY <1>2, <1>10
<1> QED
  BY <1>9, <1>11, <1>12, <1>13, <1>14 DEF more, shared

(* A part of a graph as union_components takes it is a record again. *)
LEMMA PartsAreWhole ==
    ASSUME NEW g, IsWhole(g), NEW vertices \in SUBSET g.vertices, NEW removed
    PROVE  IsWhole(SubGraph(g, vertices, removed))
<1> DEFINE sub == SubGraph(g, vertices, removed)
<1>1. IsPart(sub, g)
  BY SubGraphIsPart
<1>2. sub = [vertices |-> sub.vertices, var_ids |-> sub.var_ids, item |-> sub.item,
             edges |-> sub.edges, removed |-> sub.removed]
  BY DEF SubGraph
<1> HIDE DEF sub
<1>3. IsQueryGraph(sub)
  BY <1>1, PartsAreGraphs DEF IsWhole
<1>4. \A e \in sub.edges : e \in g.edges
  BY <1>1 DEF IsPart
<1> QED
  BY <1>2, <1>3, <1>4 DEF IsWhole, sub

(* combine_and_merge and combine_optional: where the components c of one   *)
(* graph and d of another are merged, a dependency of a vertex of d on one *)
(* of c stays inside the merged graph.  It does so, too, where the place   *)
(* of the vertex in a component of d is taken for its place in d.          *)
THEOREM CombinedDependenciesStayInside ==
    ASSUME NEW c, IsWhole(c), NEW d, IsWhole(d), NEW part, part.vertices \subseteq d.vertices,
           NEW merged, IsBuilt(merged), Cardinality(merged.vertices) = Cardinality(c.vertices) + Cardinality(d.vertices),
           NEW u \in c.vertices, NEW v \in part.vertices, NEW both \in BOOLEAN
    PROVE  LET more == AddDependencies(merged, Rank(c, u), Rank(part, v) + Cardinality(c.vertices), both)
           IN  IsBuilt(more) /\ more.vertices = merged.vertices
<1> DEFINE n == Cardinality(c.vertices)
           m == Cardinality(d.vertices)
           k == Cardinality(part.vertices)
<1>1. n \in Nat /\ m \in Nat /\ IsNumbered(c) /\ IsNumbered(d)
  BY WholeHasParts
<1>2. IsNumbered(part) /\ k \in Nat /\ k <= m
  <2>1. IsFiniteSet(part.vertices) /\ k <= m /\ IsFiniteSet(d.vertices)
    BY <1>1, FS_Subset DEF IsNumbered
  <2> QED
    BY <1>1, <2>1, FS_CardinalityType DEF IsNumbered
<1>3. Rank(c, u) \in 0 .. n - 1 /\ Rank(part, v) \in 0 .. k - 1
  BY <1>1, <1>2, RanksIncrease
<1>4. merged.vertices = 0 .. (n + m) - 1
  BY DEF IsBuilt
<1> HIDE DEF n, m, k
<1>5. Rank(c, u) \in merged.vertices /\ Rank(part, v) + n \in merged.vertices
  BY <1>1, <1>2, <1>3, <1>4
<1>6. PICK s, t : s = Rank(c, u) /\ t = Rank(part, v) + n
  OBVIOUS
<1>7. IsBuilt(AddDependencies(merged, s, t, both)) /\ AddDependencies(merged, s, t, both).vertices = merged.vertices
  BY <1>5, <1>6, DependenciesStayInside
<1> QED
  BY <1>6, <1>7 DEF n

(* A graph with other vertices and edges. *)
LEMMA GraphChanged ==
    ASSUME NEW g, NEW vs, NEW xs, NEW is, NEW es,
           g = [vertices |-> g.vertices, var_ids |-> g.var_ids, item |-> g.item, edges |-> g.edges, removed |-> g.removed]
    PROVE  [g EXCEPT !.vertices = vs, !.var_ids = xs, !.item = is, !.edges = es] =
               [vertices |-> vs, var_ids |-> xs, item |-> is, edges |-> es, removed |-> g.removed]
<1>1. PICK g1 : g1 = [g EXCEPT !.vertices = vs]
  OBVIOUS
<1>2. PICK g2 : g2 = [g1 EXCEPT !.var_ids = xs]
  OBVIOUS
<1>3. PICK g3 : g3 = [g2 EXCEPT !.item = is]
  OBVIOUS
<1>4. g1 = [vertices |-> vs, var_ids |-> g.var_ids, item |-> g.item, edges |-> g.edges, removed |-> g.removed]
  BY <1>1
<1>5. g2 = [vertices |-> vs, var_ids |-> xs, item |-> g.item, edges |-> g.edges, removed |-> g.removed]
  BY <1>2, <1>4
<1>6. g3 = [vertices |-> vs, var_ids |-> xs, item |-> is, edges |-> g.edges, removed |-> g.removed]
  BY <1>3, <1>5
<1>7. [g3 EXCEPT !.edges = es] = [vertices |-> vs, var_ids |-> xs, item |-> is, edges |-> es, removed |-> g.removed]
  BY <1>6
<1>8. [g EXCEPT !.vertices = vs, !.var_ids = xs, !.item = is, !.edges = es] = [g3 EXCEPT !.edges = es]
  BY <1>1, <1>2, <1>3, Zenon
<1> QED
  BY <1>7, <1>8, Zenon

(* add_connection: the graph grows until it has both vertices, which keeps *)
(* the numbers free of gaps; a vertex that was missing stands for nothing. *)
THEOREM ConnectionsMakeVertices ==
    ASSUME NEW g, IsBuilt(g), NEW source \in Nat, NEW target \in Nat
    PROVE  LET more == AddConnection(g, source, target)
           IN  /\ IsBuilt(more)
               /\ {source, target} \subseteq more.vertices
               /\ {source, target} \subseteq g.vertices => more.vertices = g.vertices
               /\ g.vertices \subseteq more.vertices
               /\ \A v \in g.vertices : more.item[v] = g.item[v] /\ more.var_ids[v] = g.var_ids[v]
               /\ \A v \in more.vertices \ g.vertices : /\ v <= source \/ v <= target
                                                       /\ more.item[v] = Phantom /\ more.var_ids[v] = <<>>
<1> DEFINE size == Cardinality(g.vertices)
           vertices == g.vertices \cup (size .. source) \cup (size .. target)
           edge == [source |-> source, target |-> target, var_id |-> NoVar, is_opt |-> TRUE]
           grown == [vertices |-> vertices,
                     var_ids |-> [v \in vertices |-> IF v \in g.vertices THEN g.var_ids[v] ELSE <<>>],
                     item |-> [v \in vertices |-> IF v \in g.vertices THEN g.item[v] ELSE Phantom],
                     edges |-> g.edges, removed |-> g.removed]
           more == AddConnection(g, source, target)
<1>1. /\ size \in Nat /\ g.vertices = 0 .. size - 1
      /\ g = [vertices |-> g.vertices, var_ids |-> g.var_ids, item |-> g.item, edges |-> g.edges, removed |-> g.removed]
      /\ \A v \in g.vertices : IsVertex(g.var_ids[v], g.item[v])
      /\ \A e \in g.edges : /\ e.source \in g.vertices /\ e.target \in g.vertices
                            /\ e = [source |-> e.source, target |-> e.target, var_id |-> e.var_id, is_opt |-> e.is_opt]
  BY WholeHasParts DEF IsBuilt
<1>2. more = [vertices |-> vertices, var_ids |-> grown.var_ids, item |-> grown.item,
              edges |-> g.edges \cup {edge}, removed |-> g.removed]
  <2>1. more = [g EXCEPT !.vertices = vertices,
                         !.var_ids = [v \in vertices |-> IF v \in g.vertices THEN g.var_ids[v] ELSE <<>>],
                         !.item = [v \in vertices |-> IF v \in g.vertices THEN g.item[v] ELSE Phantom],
                         !.edges = g.edges \cup {edge}]
    BY DEF AddConnection
  <2>2. /\ grown.var_ids = [v \in vertices |-> IF v \in g.vertices THEN g.var_ids[v] ELSE <<>>]
        /\ grown.item = [v \in vertices |-> IF v \in g.vertices THEN g.item[v] ELSE Phantom]
    OBVIOUS
  <2>3. more = [g EXCEPT !.vertices = vertices, !.var_ids = grown.var_ids, !.item = grown.item,
                         !.edges = g.edges \cup {edge}]
    BY <2>1, <2>2, Zenon
  <2> HIDE DEF more, vertices, grown, edge
  <2> QED
    BY <1>1, <2>3, GraphChanged, Zenon
<1> HIDE DEF size, more
<1>3. PICK n \in Nat : vertices = 0 .. n - 1 /\ source < n /\ target < n /\ size <= n
                       /\ (source < size /\ target < size => n = size)
  <2> DEFINE top == IF source < target THEN target + 1 ELSE source + 1
             n == IF size < top THEN top ELSE size
  <2>1. n \in Nat /\ source < n /\ target < n /\ size <= n /\ (source < size /\ target < size => n = size)
    BY <1>1
  <2>2. vertices = (0 .. size - 1) \cup (size .. source) \cup (size .. target)
    BY <1>1
  <2>4. vertices = 0 .. n - 1
    BY <1>1, <2>2
  <2> HIDE DEF n, vertices
  <2> QED
    BY <2>1, <2>4
<1>4. g.vertices \subseteq vertices
  OBVIOUS
<1>14. \A v \in vertices \ g.vertices : v <= source \/ v <= target
  BY <1>1
<1> HIDE DEF vertices
<1>5. /\ grown.vertices = vertices /\ grown.edges = g.edges
      /\ DOMAIN grown.var_ids = grown.vertices /\ DOMAIN grown.item = grown.vertices
      /\ grown = [vertices |-> grown.vertices, var_ids |-> grown.var_ids, item |-> grown.item,
                  edges |-> grown.edges, removed |-> grown.removed]
      /\ grown.removed = g.removed
      /\ \A v \in g.vertices : grown.item[v] = g.item[v] /\ grown.var_ids[v] = g.var_ids[v]
      /\ \A v \in vertices \ g.vertices : grown.item[v] = Phantom /\ grown.var_ids[v] = <<>>
  BY <1>4
<1> HIDE DEF grown
<1>6. ASSUME NEW v \in grown.vertices
      PROVE  IsVertex(grown.var_ids[v], grown.item[v])
  <2>1. CASE v \in g.vertices
    BY <1>1, <1>5, <2>1
  <2>2. CASE v \notin g.vertices
    <3>1. grown.item[v] = Phantom /\ grown.var_ids[v] = <<>>
      BY <1>5, <2>2
    <3>2. <<>> \in Seq(Range(<<>>))
      OBVIOUS
    <3> QED
      BY <3>1, <3>2 DEF IsVertex
  <2> QED
    BY <2>1, <2>2
<1>7. \A e \in grown.edges : /\ e.source \in grown.vertices /\ e.target \in grown.vertices
                             /\ e = [source |-> e.source, target |-> e.target, var_id |-> e.var_id, is_opt |-> e.is_opt]
  BY <1>1, <1>4, <1>5
<1>8. IsBuilt(grown)
  <2>1. grown.vertices = 0 .. n - 1 /\ DOMAIN grown.var_ids = grown.vertices /\ DOMAIN grown.item = grown.vertices
    BY <1>3, <1>5
  <2>2. grown = [vertices |-> grown.vertices, var_ids |-> grown.var_ids, item |-> grown.item,
                 edges |-> grown.edges, removed |-> grown.removed]
    BY <1>5
  <2>3. \A v \in grown.vertices : IsVertex(grown.var_ids[v], grown.item[v])
    BY <1>6
  <2> QED
    BY <1>7, <2>1, <2>2, <2>3, BuiltFromParts
<1>9. source \in grown.vertices /\ target \in grown.vertices
  BY <1>3, <1>5
<1>10. \A e \in {edge} : /\ e.source \in grown.vertices /\ e.target \in grown.vertices
                         /\ e = [source |-> e.source, target |-> e.target, var_id |-> e.var_id, is_opt |-> e.is_opt]
  BY <1>9
<1>11. more = [grown EXCEPT !.edges = grown.edges \cup {edge}]
  <2>1. more = [vertices |-> grown.vertices, var_ids |-> grown.var_ids, item |-> grown.item,
                edges |-> grown.edges \cup {edge}, removed |-> grown.removed]
    BY <1>2, <1>5
  <2> HIDE DEF edge
  <2> QED
    BY <1>5, <2>1
<1> HIDE DEF edge
<1> DEFINE new == {edge}
<1> HIDE DEF new
<1>12. IsBuilt(more) /\ more.vertices = grown.vertices /\ more.item = grown.item /\ more.var_ids = grown.var_ids
  <2>1. \A e \in new : /\ e.source \in grown.vertices /\ e.target \in grown.vertices
                       /\ e = [source |-> e.source, target |-> e.target, var_id |-> e.var_id, is_opt |-> e.is_opt]
    BY <1>10 DEF new
  <2>2. more = [grown EXCEPT !.edges = grown.edges \cup new]
    BY <1>11 DEF new
  <2> QED
    BY <1>8, <2>1, <2>2, MoreEdges
<1>13. {source, target} \subseteq g.vertices => more.vertices = g.vertices
  <2> SUFFICES ASSUME source \in g.vertices, target \in g.vertices
               PROVE  more.vertices = g.vertices
    OBVIOUS
  <2>1. source < size /\ target < size
    BY <1>1
  <2> QED
    BY <1>1, <1>3, <1>5, <1>12, <2>1
<1> QED
  BY <1>4, <1>5, <1>9, <1>12, <1>13, <1>14 DEF more

(* replace_var_ids_in_operands: every vertex keeps the number of its       *)
(* variables, and expressions keep their variables.                        *)
THEOREM ReplacingKeepsColumns ==
    ASSUME NEW g, IsBuilt(g), NEW replacement
    PROVE  LET new == ReplaceVarIdsInOperands(g, replacement)
           IN  /\ IsBuilt(new)
               /\ new.vertices = g.vertices /\ new.item = g.item /\ new.edges = g.edges
               /\ \A v \in g.vertices : /\ Len(new.var_ids[v]) = Len(g.var_ids[v])
                                        /\ IsExpression(g, v) => new.var_ids[v] = g.var_ids[v]
               /\ \A v \in Operands(g) : \A i \in 1 .. Len(g.var_ids[v]) :
                     LET x == g.var_ids[v][i]
                     IN  new.var_ids[v][i] = IF x \in DOMAIN replacement THEN replacement[x] ELSE x
<1> DEFINE Replaced(x) == IF x \in DOMAIN replacement THEN replacement[x] ELSE x
           Vars(v) == IF IsExpression(g, v) THEN g.var_ids[v]
                      ELSE [i \in DOMAIN g.var_ids[v] |-> Replaced(g.var_ids[v][i])]
           new == ReplaceVarIdsInOperands(g, replacement)
<1>1. /\ Cardinality(g.vertices) \in Nat /\ g.vertices = 0 .. Cardinality(g.vertices) - 1
      /\ g = [vertices |-> g.vertices, var_ids |-> g.var_ids, item |-> g.item, edges |-> g.edges, removed |-> g.removed]
      /\ DOMAIN g.item = g.vertices
      /\ \A v \in g.vertices : IsVertex(g.var_ids[v], g.item[v])
      /\ \A e \in g.edges : /\ e.source \in g.vertices /\ e.target \in g.vertices
                            /\ e = [source |-> e.source, target |-> e.target, var_id |-> e.var_id, is_opt |-> e.is_opt]
  BY WholeHasParts DEF IsBuilt
<1>2. new = [g EXCEPT !.var_ids = [v \in g.vertices |-> Vars(v)]]
  BY DEF ReplaceVarIdsInOperands
<1> HIDE DEF Vars, new
<1>3. new = [vertices |-> g.vertices, var_ids |-> [v \in g.vertices |-> Vars(v)], item |-> g.item,
             edges |-> g.edges, removed |-> g.removed]
  BY <1>1, <1>2
<1>4. /\ new.vertices = g.vertices /\ new.item = g.item /\ new.edges = g.edges /\ new.removed = g.removed
      /\ DOMAIN new.var_ids = g.vertices /\ \A v \in g.vertices : new.var_ids[v] = Vars(v)
  BY <1>3
<1>5. new = [vertices |-> new.vertices, var_ids |-> new.var_ids, item |-> new.item,
             edges |-> new.edges, removed |-> new.removed]
  BY <1>3, <1>4
<1>6. ASSUME NEW v \in g.vertices
      PROVE  /\ Len(Vars(v)) = Len(g.var_ids[v])
             /\ IsExpression(g, v) => Vars(v) = g.var_ids[v]
             /\ ~IsExpression(g, v) => \A i \in 1 .. Len(g.var_ids[v]) : Vars(v)[i] = Replaced(g.var_ids[v][i])
             /\ IsVertex(Vars(v), g.item[v])
  <2>1. IsVertex(g.var_ids[v], g.item[v])
    BY <1>1
  <2>2. CASE IsExpression(g, v)
    BY <2>1, <2>2 DEF Vars
  <2>3. CASE ~IsExpression(g, v)
    <3>1. PICK s : s = g.var_ids[v]
      OBVIOUS
    <3>2. s \in Seq(Range(s))
      BY <2>1, <3>1 DEF IsVertex
    <3>3. PICK k \in Nat : k = Len(s) /\ DOMAIN s = 1 .. k
      BY <3>2
    <3>4. Vars(v) = [i \in 1 .. k |-> Replaced(s[i])]
      BY <2>3, <3>1, <3>3 DEF Vars
    <3> HIDE DEF Replaced
    <3>5. /\ Len(Vars(v)) = k /\ DOMAIN Vars(v) = 1 .. k
          /\ \A i \in 1 .. k : Vars(v)[i] = Replaced(s[i])
      BY <3>4
    <3>6. Vars(v) \in Seq(Range(Vars(v)))
      <4>1. \A i \in 1 .. k : Vars(v)[i] \in Range(Vars(v))
        BY <3>5 DEF Range
      <4>2. Vars(v) = [i \in 1 .. k |-> Vars(v)[i]]
        BY <3>4, <3>5
      <4>3. PICK u : u = Vars(v)
        OBVIOUS
      <4> QED
        BY <4>1, <4>2, <4>3
    <3>7. g.item[v] = Phantom => Vars(v) = <<>>
      <4> SUFFICES ASSUME g.item[v] = Phantom
                   PROVE  Vars(v) = <<>>
        OBVIOUS
      <4>1. Phantom.kind = "none"
        BY DEF Phantom
      <4>2. s = <<>>
        BY <2>1, <3>1, <4>1 DEF IsVertex
      <4>3. k = 0
        BY <3>3, <4>2
      <4> QED
        BY <3>6, <3>5, <4>3
    <3>8. ~(g.item[v].kind \in {"filter", "assignment"})
      BY <2>3 DEF IsExpression, IsFilter, IsAssignment
    <3>9. IsVertex(Vars(v), g.item[v])
      BY <2>1, <3>1, <3>3, <3>5, <3>6, <3>7, <3>8 DEF IsVertex
    <3> QED
      BY <2>3, <3>1, <3>3, <3>5, <3>9
  <2> QED
    BY <2>2, <2>3
<1>7. PICK n \in Nat : n = Cardinality(g.vertices)
  BY <1>1
<1>8. IsBuilt(new)
  <2>1. new.vertices = 0 .. n - 1 /\ DOMAIN new.var_ids = new.vertices /\ DOMAIN new.item = new.vertices
    BY <1>1, <1>4, <1>7
  <2>2. \A v \in new.vertices : IsVertex(new.var_ids[v], new.item[v])
    BY <1>4, <1>6
  <2>3. \A e \in new.edges : /\ e.source \in new.vertices /\ e.target \in new.vertices
                             /\ e = [source |-> e.source, target |-> e.target, var_id |-> e.var_id, is_opt |-> e.is_opt]
    BY <1>1, <1>4
  <2> QED
    BY <1>5, <2>1, <2>2, <2>3, BuiltFromParts
<1>9. \A v \in g.vertices : /\ Len(new.var_ids[v]) = Len(g.var_ids[v])
                            /\ IsExpression(g, v) => new.var_ids[v] = g.var_ids[v]
  BY <1>4, <1>6
<1>10. \A v \in Operands(g) : \A i \in 1 .. Len(g.var_ids[v]) : new.var_ids[v][i] = Replaced(g.var_ids[v][i])
  <2>1. \A v \in Operands(g) : v \in g.vertices /\ ~IsExpression(g, v)
    BY DEF Operands
  <2> HIDE DEF Replaced
  <2> QED
    BY <1>4, <1>6, <2>1
<1> QED
  BY <1>4, <1>8, <1>9, <1>10 DEF new

(* Every vertex has an operand, the one that was looked up for it. *)
Fits(g, ops, looked) ==
    /\ Len(ops) = Cardinality(g.vertices)
    /\ \A v \in g.vertices : ops[Position(g, v)] = looked[v]

LEMMA PartsFit ==
    ASSUME NEW g, IsNumbered(g), NEW ops, NEW looked, Fits(g, ops, looked),
           NEW sub, sub.vertices \subseteq g.vertices
    PROVE  Fits(sub, Extract(g, sub, ops), looked)
<1>1. /\ Len(Extract(g, sub, ops)) = Cardinality(sub.vertices)
      /\ \A v \in sub.vertices : Extract(g, sub, ops)[Position(sub, v)] = ops[Position(g, v)]
  BY OperandsFollow
<1> QED
  BY <1>1 DEF Fits

(* An empty operand depends on itself, and nothing on no operand. *)
LEMMA EmptyDependsOnItself ==
    ASSUME NEW g, IsQueryGraph(g), NEW empty \in SUBSET g.vertices
    PROVE  /\ empty \subseteq Dependent(g, empty) /\ Dependent(g, empty) \subseteq g.vertices
           /\ empty = {} => Dependent(g, empty) = {}
<1> DEFINE required == {e \in g.edges : ~e.is_opt}
<1>1. \A p \in Steps(required) : p[1] \in g.vertices => p[2] \in g.vertices
  <2>1. WellFormed(g)
    BY DEF WellFormed, IsQueryGraph
  <2> QED
    BY <2>1, StepsInside
<1>2. Dependent(g, empty) = Reached(g, Steps(required), empty)
  BY DEF Dependent
<1> HIDE DEF required
<1>3. empty \subseteq Dependent(g, empty) /\ Dependent(g, empty) \subseteq g.vertices
  BY <1>1, <1>2, ReachedIsLeast
<1>4. ASSUME empty = {}
      PROVE  Dependent(g, empty) = {}
  <2>1. Closed(Steps(required), {}) /\ {} \in SUBSET g.vertices /\ empty \subseteq {}
    BY <1>4 DEF Closed
  <2>2. Reached(g, Steps(required), empty) \subseteq {}
    BY <2>1, <1>1, ReachedIsLeast
  <2> QED
    BY <2>2, <1>2
<1> QED
  BY <1>3, <1>4

(* The vertices whose operands are empty. *)
Without(g, looked) == {v \in g.vertices : IsEmpty(looked[v])}

(* What is empty goes with what depends on it, and nothing else. *)
LEMMA PrunedPart ==
    ASSUME NEW g, IsQueryGraph(g), NEW ops, NEW looked, Fits(g, ops, looked)
    PROVE  LET pruned == PruneEmpty(g, ops)
               empty == {v \in g.vertices : IsEmpty(looked[v])}
           IN  /\ IsPart(pruned, g)
               /\ pruned.vertices = g.vertices \ Dependent(g, empty)
               /\ Fits(pruned, Extract(g, pruned, ops), looked)
<1> DEFINE pruned == PruneEmpty(g, ops)
           empty == {v \in g.vertices : IsEmpty(looked[v])}
<1>1. Empty(g, ops) = empty
  BY DEF Empty, Fits
<1>2. pruned = IF empty = {} THEN g ELSE SubGraph(g, g.vertices \ Dependent(g, empty), {})
  BY <1>1 DEF PruneEmpty, PruneGraph
<1>3. IsPart(g, g)
  <2>1. {e \in g.edges : {e.source, e.target} \subseteq g.vertices} = g.edges
    BY DEF IsQueryGraph
  <2> QED
    BY <2>1 DEF IsPart, IsQueryGraph
<1>4. empty \in SUBSET g.vertices
  OBVIOUS
<1>5. empty = {} => Dependent(g, empty) = {}
  <2> HIDE DEF empty
  <2> QED
    BY <1>4, EmptyDependsOnItself
<1>6. IsPart(pruned, g) /\ pruned.vertices = g.vertices \ Dependent(g, empty)
  <2> DEFINE left == g.vertices \ Dependent(g, empty)
  <2>1. left \in SUBSET g.vertices
    OBVIOUS
  <2>2. IsPart(SubGraph(g, left, {}), g) /\ SubGraph(g, left, {}).vertices = left
    <3> HIDE DEF left
    <3> QED
      BY <2>1, SubGraphIsPart
  <2> HIDE DEF empty, pruned
  <2>3. CASE empty = {}
    BY <2>3, <1>2, <1>3, <1>5
  <2>4. CASE empty # {}
    BY <2>4, <1>2, <2>2
  <2> QED
    BY <2>3, <2>4
<1>7. Fits(pruned, Extract(g, pruned, ops), looked)
  <2>1. IsNumbered(g) /\ pruned.vertices \subseteq g.vertices
    BY <1>6 DEF IsNumbered, IsQueryGraph
  <2> HIDE DEF pruned
  <2> QED
    BY <2>1, PartsFit
<1> QED
  BY <1>6, <1>7

(* The operands without variables. *)
Ground(g) == {v \in Operands(g) : g.var_ids[v] = <<>>}

(* The true scalars go, which are the operands without variables. *)
LEMMA RankedPart ==
    ASSUME NEW g, IsQueryGraph(g), NEW ops, NEW looked, Fits(g, ops, looked),
           \A v \in Operands(g) : looked[v].depth = Len(g.var_ids[v])
    PROVE  LET finalized == RemoveRank0(g, ops)
           IN  /\ IsPart(finalized, g)
               /\ finalized.vertices = g.vertices \ Ground(g)
               /\ Fits(finalized, Extract(g, finalized, ops), looked)
<1> DEFINE finalized == RemoveRank0(g, ops)
           ranked == g.vertices \ Ground(g)
<1>1. \A v \in Operands(g) : ops[Position(g, v)].depth = 0 <=> g.var_ids[v] = <<>>
  <2> SUFFICES ASSUME NEW v \in Operands(g)
               PROVE  ops[Position(g, v)].depth = 0 <=> g.var_ids[v] = <<>>
    OBVIOUS
  <2>1. v \in g.vertices
    BY DEF Operands
  <2>2. ops[Position(g, v)].depth = Len(g.var_ids[v])
    BY <2>1 DEF Fits
  <2>3. g.var_ids[v] \in Seq(VarIds(g, v))
    BY <2>1 DEF IsQueryGraph
  <2> QED
    BY <2>2, <2>3
<1>2. Rank0(g, ops) = g.vertices \ ranked
  BY <1>1 DEF Rank0, Ground, Operands
<1>3. finalized = IF Rank0(g, ops) = {} THEN g ELSE SubGraph(g, g.vertices \ Rank0(g, ops), {})
  BY DEF RemoveRank0, RemoveVertices
<1>4. IsPart(g, g)
  <2>1. {e \in g.edges : {e.source, e.target} \subseteq g.vertices} = g.edges
    BY DEF IsQueryGraph
  <2> QED
    BY <2>1 DEF IsPart, IsQueryGraph
<1>5. g.vertices \ Rank0(g, ops) = ranked /\ ranked \in SUBSET g.vertices
  BY <1>2
<1>6. IsPart(finalized, g) /\ finalized.vertices = ranked
  <2> HIDE DEF ranked, finalized
  <2>1. IsPart(SubGraph(g, ranked, {}), g) /\ SubGraph(g, ranked, {}).vertices = ranked
    BY <1>5, SubGraphIsPart
  <2>2. CASE Rank0(g, ops) = {}
    BY <2>2, <1>3, <1>4, <1>5
  <2>3. CASE Rank0(g, ops) # {}
    BY <2>3, <1>3, <1>5, <2>1
  <2> QED
    BY <2>2, <2>3
<1>7. Fits(finalized, Extract(g, finalized, ops), looked)
  <2>1. IsNumbered(g) /\ finalized.vertices \subseteq g.vertices
    BY <1>6 DEF IsNumbered, IsQueryGraph
  <2> HIDE DEF finalized
  <2> QED
    BY <2>1, PartsFit
<1> QED
  BY <1>6, <1>7

(* Operators pass on operands that fit the graph they pass on. *)

(* A part of a graph: what unions, products and filters go on with. *)
THEOREM OperandsFitParts ==
    ASSUME NEW g, IsNumbered(g), NEW ops, Aligned(g, ops), NEW sub, IsPart(sub, g)
    PROVE  Aligned(sub, Extract(g, sub, ops))
<1>1. /\ Len(Extract(g, sub, ops)) = Cardinality(sub.vertices)
      /\ \A v \in sub.vertices : Extract(g, sub, ops)[Position(sub, v)] = ops[Position(g, v)]
  BY OperandsFollow DEF IsPart
<1>2. ASSUME NEW v \in Operands(sub)
      PROVE  Extract(g, sub, ops)[Position(sub, v)].depth = Len(sub.var_ids[v])
  <2>1. v \in sub.vertices /\ v \in g.vertices /\ sub.item[v] = g.item[v] /\ sub.var_ids[v] = g.var_ids[v]
    BY DEF Operands, IsPart
  <2>2. v \in Operands(g)
    BY <2>1 DEF Operands, IsExpression, IsFilter, IsAssignment
  <2> QED
    BY <2>1, <2>2, <1>1 DEF Aligned
<1> QED
  BY <1>1, <1>2 DEF Aligned

(* Slicing takes as many columns off an operand as variables are resolved. *)
LEMMA SlicesFit ==
    ASSUME NEW g, IsNumbered(g), NEW T, NEW ops \in Seq(T), Aligned(g, ops), NEW values
    PROVE  /\ Len(Sliced(g, ops, values)) = Cardinality(g.vertices)
           /\ \A v \in Operands(g) :
                 Sliced(g, ops, values)[Position(g, v)].depth = Len(Unresolved(g.var_ids[v], DOMAIN values))
<1> DEFINE size == Cardinality(g.vertices)
           At(k) == IF IsExpression(g, AtRank(g, k - 1)) THEN ops[k]
                    ELSE Slice(ops[k], g.var_ids[AtRank(g, k - 1)], values)
<1>1. size \in Nat /\ DOMAIN ops = 1 .. size
  BY FS_CardinalityType DEF Aligned, IsNumbered
<1>2. Sliced(g, ops, values) = [k \in 1 .. size |-> At(k)]
  BY <1>1 DEF Sliced
<1>3. ASSUME NEW v \in Operands(g)
      PROVE  /\ Position(g, v) \in 1 .. size
             /\ At(Position(g, v)).depth = Len(Unresolved(g.var_ids[v], DOMAIN values))
  <2>1. v \in g.vertices /\ ~IsExpression(g, v)
    BY DEF Operands
  <2>2. Rank(g, v) \in 0 .. size - 1 /\ AtRank(g, Rank(g, v)) = v
    BY <2>1, RanksIncrease, RanksAreNumbers
  <2>3. Position(g, v) \in 1 .. size /\ Position(g, v) - 1 = Rank(g, v)
    BY <2>2, <1>1 DEF Position
  <2>4. At(Position(g, v)) = Slice(ops[Position(g, v)], g.var_ids[v], values)
    BY <2>1, <2>2, <2>3
  <2> QED
    BY <2>3, <2>4 DEF Slice
<1>4. Len([k \in 1 .. size |-> At(k)]) = size
  BY <1>1
<1> HIDE DEF size, At
<1> QED
  BY <1>2, <1>3, <1>4 DEF size

(* A join, or a left join after it has pruned, goes on with slices, in the *)
(* graph without the variable it resolved: every operand that is left has  *)
(* lost that column and no other, and stays with its vertex.               *)
THEOREM OperandsFitJoins ==
    ASSUME NEW g, IsNumbered(g), NEW T, NEW ops \in Seq(T), Aligned(g, ops),
           NEW part, IsPart(part, g), NEW x, NEW values, DOMAIN values = {x}
    PROVE  LET sub == RemoveVarId(part, x)
           IN  Aligned(sub, Extract(g, sub, Sliced(g, ops, values)))
<1> DEFINE kept == {v \in part.vertices : IsExpression(part, v) \/ VarIds(part, v) \ {x} # {}}
           sub == RemoveVarId(part, x)
           sliced == Sliced(g, ops, values)
<1>1. kept \subseteq part.vertices /\ part.vertices \subseteq g.vertices
  BY DEF IsPart
<1>2. sub.vertices = kept /\ sub.item = [v \in kept |-> part.item[v]]
  BY DEF RemoveVarId, SubGraph, Restrict
<1>3. sub.var_ids = [v \in kept |-> Unresolved(part.var_ids[v], {x})]
  BY DEF RemoveVarId, SubGraph, Restrict
<1>4. /\ Len(sliced) = Cardinality(g.vertices)
      /\ \A v \in Operands(g) : sliced[Position(g, v)].depth = Len(Unresolved(g.var_ids[v], {x}))
  BY SlicesFit
<1> HIDE DEF kept, sub, sliced
<1>5. /\ Len(Extract(g, sub, sliced)) = Cardinality(sub.vertices)
      /\ \A v \in sub.vertices : Extract(g, sub, sliced)[Position(sub, v)] = sliced[Position(g, v)]
  BY <1>1, <1>2, OperandsFollow
<1>6. ASSUME NEW v \in Operands(sub)
      PROVE  Extract(g, sub, sliced)[Position(sub, v)].depth = Len(sub.var_ids[v])
  <2>1. v \in kept /\ v \in g.vertices /\ sub.item[v] = g.item[v] /\ sub.var_ids[v] = Unresolved(g.var_ids[v], {x})
    BY <1>1, <1>2, <1>3 DEF Operands, IsPart
  <2>2. v \in Operands(g)
    BY <2>1 DEF Operands, IsExpression, IsFilter, IsAssignment
  <2> QED
    BY <2>1, <2>2, <1>2, <1>4, <1>5
<1> QED
  BY <1>5, <1>6 DEF Aligned, sub, sliced

(* generate_query_operands: the operands are in the order of the vertices. *)
LEMMA LookedUp ==
    ASSUME NEW g, IsQueryGraph(g), NEW looked, NEW ops,
           ops = [k \in 1 .. Cardinality(g.vertices) |-> looked[AtRank(g, k - 1)]]
    PROVE  Fits(g, ops, looked)
<1> DEFINE size == Cardinality(g.vertices)
<1>1. IsNumbered(g)
  BY DEF IsNumbered, IsQueryGraph
<1>2. size \in Nat
  BY <1>1, FS_CardinalityType DEF IsNumbered
<1>3. Len(ops) = size
  BY <1>2
<1>4. ASSUME NEW v \in g.vertices
      PROVE  ops[Position(g, v)] = looked[v]
  <2>1. Rank(g, v) \in 0 .. size - 1 /\ AtRank(g, Rank(g, v)) = v
    BY <1>1, RanksIncrease, RanksAreNumbers
  <2>2. Position(g, v) \in 1 .. size /\ Position(g, v) - 1 = Rank(g, v)
    BY <2>1, <1>2 DEF Position
  <2> QED
    BY <2>1, <2>2
<1> QED
  BY <1>3, <1>4 DEF Fits

(* An operand has a column for every variable of its vertex. *)
LEMMA OperandHasColumns ==
    ASSUME NEW g, IsQueryGraph(g), NEW v \in Operands(g)
    PROVE  Operand(g, v).depth = Len(g.var_ids[v])
<1>1. v \in g.vertices /\ ~IsExpression(g, v)
  BY DEF Operands
<1>2. CASE g.item[v].kind = "operand"
  <2>1. Len(g.item[v].vars) = Len(g.var_ids[v])
    BY <1>1, <1>2 DEF IsQueryGraph, Phantom
  <2> QED
    BY <2>1, <1>2 DEF Operand
<1>3. CASE g.item[v].kind # "operand"
  <2>1. g.var_ids[v] = <<>>
    BY <1>1, <1>3 DEF IsQueryGraph
  <2>2. Operand(g, v) = Scalar
    BY <1>3 DEF Operand
  <2> QED
    BY <2>1, <2>2 DEF Scalar
<1> QED
  BY <1>2, <1>3

LEMMA EmptyGraphIsAGraph == IsQueryGraph(EmptyGraph)
BY FS_EmptySet DEF IsQueryGraph, EmptyGraph

(* Until it is pruned, the graph is that of the query. *)
EvaluationInv ==
    /\ query \in Queries
    /\ phase \in {"parse", "generate", "prune"} => ~fully_pruned
    /\ phase \in {"generate", "prune"} => graph = GraphOf(query.pattern)
    /\ TypeOK
    /\ EvaluatesWhatIsLeft

LEMMA Initially == Init => EvaluationInv
<1> SUFFICES ASSUME Init
             PROVE  EvaluationInv
  OBVIOUS
<1>1. query \in Queries /\ phase = "parse" /\ graph = EmptyGraph /\ fully_pruned = FALSE
  BY DEF Init
<1>2. TypeOK
  BY <1>1, EmptyGraphIsAGraph DEF TypeOK
<1>3. EvaluatesWhatIsLeft
  BY <1>1 DEF EvaluatesWhatIsLeft
<1> QED
  BY <1>1, <1>2, <1>3 DEF EvaluationInv

LEMMA ParseKeeps ==
    ASSUME EvaluationInv, Parse
    PROVE  EvaluationInv'
<1>1. /\ phase' = "generate" /\ query' = query /\ graph' = GraphOf(query.pattern)
      /\ fully_pruned' = fully_pruned /\ query \in Queries
  BY DEF Parse, EvaluationInv
<1>2. IsQueryGraph(graph')
  BY <1>1, VisitorAssumption
<1>3. ~fully_pruned
  BY DEF EvaluationInv, Parse
<1> QED
  BY <1>1, <1>2, <1>3 DEF EvaluationInv, TypeOK, EvaluatesWhatIsLeft

LEMMA GenerateOperandsKeeps ==
    ASSUME EvaluationInv, GenerateOperands
    PROVE  EvaluationInv'
<1> DEFINE looked == [v \in graph.vertices |-> Operand(graph, v)]
<1>1. /\ phase' \in {"prune", "done"} /\ query' = query /\ data' = data /\ graph' = graph /\ fully_pruned' = fully_pruned
      /\ operands' = [k \in 1 .. Cardinality(graph.vertices) |-> Operand(graph, AtRank(graph, k - 1))]
  BY DEF GenerateOperands
<1>2. query \in Queries /\ ~fully_pruned /\ graph = GraphOf(query.pattern) /\ IsQueryGraph(graph)
  BY DEF EvaluationInv, TypeOK, GenerateOperands
<1>3. IsNumbered(graph)
  BY <1>2 DEF IsNumbered, IsQueryGraph
<1>4. operands' = [k \in 1 .. Cardinality(graph.vertices) |-> looked[AtRank(graph, k - 1)]]
  <2>1. \A k \in 1 .. Cardinality(graph.vertices) : AtRank(graph, k - 1) \in graph.vertices
    <3> SUFFICES ASSUME NEW k \in 1 .. Cardinality(graph.vertices)
                 PROVE  AtRank(graph, k - 1) \in graph.vertices
      OBVIOUS
    <3>1. Cardinality(graph.vertices) \in Nat
      BY <1>3, FS_CardinalityType DEF IsNumbered
    <3>2. k - 1 \in 0 .. Cardinality(graph.vertices) - 1
      BY <3>1
    <3> QED
      BY <3>2, <1>3, RanksAreNumbers
  <2> QED
    BY <2>1, <1>1
<1>5. Fits(graph, operands', looked)
  <2> HIDE DEF looked
  <2> QED
    BY <1>2, <1>4, LookedUp
<1>6. Aligned(graph, operands') /\ \A v \in graph.vertices : operands'[Position(graph, v)] = Operand(graph, v)
  <2>1. \A v \in Operands(graph) : looked[v].depth = Len(graph.var_ids[v])
    BY <1>2, OperandHasColumns DEF Operands
  <2>2. \A v \in graph.vertices : operands'[Position(graph, v)] = looked[v]
    BY <1>5 DEF Fits
  <2> QED
    BY <2>1, <2>2, <1>5 DEF Aligned, Fits, Operands
<1>7. TypeOK'
  <2>1. \A v \in graph.vertices : Operand(graph, v)' = Operand(graph, v)
    BY <1>1 DEF Operand
  <2>2. \A v \in graph'.vertices : operands'[Position(graph', v)] = Operand(graph, v)'
    BY <2>1, <1>1, <1>6
  <2>3. Aligned(graph', operands') /\ IsQueryGraph(graph')
    BY <1>1, <1>2, <1>6
  <2> QED
    BY <2>2, <2>3, <1>1, <1>2 DEF TypeOK
<1>8. EvaluatesWhatIsLeft'
  BY <1>1 DEF EvaluatesWhatIsLeft
<1> QED
  BY <1>1, <1>2, <1>7, <1>8 DEF EvaluationInv

(* The operands that evaluation removes, in two steps, are those that are  *)
(* empty or depend on one that is, and those without variables; the        *)
(* operands of the others follow through both steps.                       *)
LEMMA Finalized ==
    ASSUME NEW g, IsQueryGraph(g), NEW ops, NEW looked, Fits(g, ops, looked),
           \A v \in Operands(g) : looked[v].depth = Len(g.var_ids[v]),
           NEW empty, empty = Without(g, looked),
           NEW pruned, pruned = PruneEmpty(g, ops),
           NEW pruned_ops, pruned_ops = Extract(g, pruned, ops),
           NEW finalized, finalized = RemoveRank0(pruned, pruned_ops)
    PROVE  /\ pruned.vertices = g.vertices \ Dependent(g, empty)
           /\ empty \subseteq Dependent(g, empty) /\ Dependent(g, empty) \subseteq g.vertices
           /\ IsPart(finalized, g)
           /\ finalized.vertices = g.vertices \ (Dependent(g, empty) \cup Ground(g))
           /\ Fits(finalized, Extract(pruned, finalized, pruned_ops), looked)
<1>1. /\ IsPart(pruned, g)
      /\ pruned.vertices = g.vertices \ Dependent(g, empty)
      /\ Fits(pruned, pruned_ops, looked)
  BY PrunedPart DEF Without
<1>2. empty \subseteq Dependent(g, empty) /\ Dependent(g, empty) \subseteq g.vertices
  <2>1. empty \in SUBSET g.vertices
    BY DEF Without
  <2> QED
    BY <2>1, EmptyDependsOnItself
<1>3. /\ IsQueryGraph(pruned) /\ Operands(pruned) = {v \in pruned.vertices : v \in Operands(g)}
      /\ \A v \in pruned.vertices : pruned.var_ids[v] = g.var_ids[v]
      /\ pruned.vertices \subseteq g.vertices
  BY <1>1, PartsAreGraphs DEF IsPart
<1>4. \A v \in Operands(pruned) : looked[v].depth = Len(pruned.var_ids[v])
  BY <1>3
<1>5. /\ IsPart(finalized, pruned)
      /\ finalized.vertices = pruned.vertices \ Ground(pruned)
      /\ Fits(finalized, Extract(pruned, finalized, pruned_ops), looked)
  BY <1>1, <1>3, <1>4, RankedPart
<1>6. IsPart(finalized, g)
  BY <1>1, <1>5, PartOfPart
<1>7. finalized.vertices = g.vertices \ (Dependent(g, empty) \cup Ground(g))
  BY <1>1, <1>3, <1>5 DEF Ground
<1> QED
  BY <1>1, <1>2, <1>5, <1>6, <1>7

LEMMA PruneKeeps ==
    ASSUME EvaluationInv, Prune
    PROVE  EvaluationInv'
<1>1. /\ query \in Queries /\ graph = GraphOf(query.pattern) /\ IsQueryGraph(graph)
      /\ Len(operands) = Cardinality(graph.vertices)
      /\ \A v \in graph.vertices : operands[Position(graph, v)] = Operand(graph, v)
  BY DEF EvaluationInv, TypeOK, Aligned, Prune
<1>2. PICK g : g = graph
  OBVIOUS
<1>3. PICK ops : ops = operands
  OBVIOUS
<1>4. PICK looked : looked = [v \in g.vertices |-> Operand(g, v)]
  OBVIOUS
<1>5. PICK pruned : pruned = PruneEmpty(g, ops)
  OBVIOUS
<1>6. PICK pruned_ops : pruned_ops = Extract(g, pruned, ops)
  OBVIOUS
<1>7. PICK finalized : finalized = RemoveRank0(pruned, pruned_ops)
  OBVIOUS
<1>8. PICK empty : empty = Without(g, looked)
  OBVIOUS
<1>9. /\ phase' = "evaluate" /\ query' = query /\ data' = data
      /\ graph' = finalized /\ operands' = Extract(pruned, finalized, pruned_ops)
      /\ fully_pruned' = (pruned.vertices = {} /\ g.vertices # {})
  BY <1>2, <1>3, <1>5, <1>6, <1>7 DEF Prune
<1>10. IsQueryGraph(g) /\ g = GraphOf(query.pattern)
  BY <1>1, <1>2
<1>11. \A v \in g.vertices : looked[v] = Operand(g, v)
  BY <1>4
<1>12. Fits(g, ops, looked)
  BY <1>1, <1>2, <1>3, <1>11 DEF Fits
<1>13. \A v \in Operands(g) : looked[v].depth = Len(g.var_ids[v])
  BY <1>10, <1>11, OperandHasColumns DEF Operands
<1>14. /\ pruned.vertices = g.vertices \ Dependent(g, empty)
       /\ empty \subseteq Dependent(g, empty) /\ Dependent(g, empty) \subseteq g.vertices
       /\ IsPart(finalized, g)
       /\ finalized.vertices = g.vertices \ (Dependent(g, empty) \cup Ground(g))
       /\ Fits(finalized, Extract(pruned, finalized, pruned_ops), looked)
  BY <1>5, <1>6, <1>7, <1>8, <1>10, <1>12, <1>13, Finalized
<1>15. /\ IsQueryGraph(finalized) /\ Operands(finalized) = {v \in finalized.vertices : v \in Operands(g)}
       /\ \A v \in finalized.vertices : Operand(finalized, v) = Operand(g, v)
  BY <1>10, <1>14, PartsAreGraphs
<1>16. /\ Len(operands') = Cardinality(finalized.vertices)
       /\ \A v \in finalized.vertices : operands'[Position(finalized, v)] = looked[v]
  BY <1>9, <1>14 DEF Fits
<1>17. /\ finalized.vertices \subseteq g.vertices
       /\ \A v \in finalized.vertices : finalized.var_ids[v] = g.var_ids[v] /\ finalized.item[v] = g.item[v]
       /\ finalized.edges = {e \in g.edges : {e.source, e.target} \subseteq finalized.vertices}
  BY <1>14 DEF IsPart
<1>18. TypeOK'
  <2>1. \A v : Operand(graph, v)' = Operand(finalized, v)
    BY <1>9 DEF Operand
  <2>2. \A v \in finalized.vertices : operands'[Position(finalized, v)] = Operand(finalized, v)
    BY <1>11, <1>15, <1>16, <1>17
  <2>3. \A v \in Operands(finalized) : operands'[Position(finalized, v)].depth = Len(finalized.var_ids[v])
    BY <1>13, <1>15, <1>16, <1>17
  <2>4. Aligned(graph', operands')
    BY <2>3, <1>9, <1>16 DEF Aligned
  <2>5. fully_pruned' => finalized.vertices = {}
    BY <1>9, <1>14
  <2> QED
    BY <2>1, <2>2, <2>4, <2>5, <1>9, <1>15 DEF TypeOK
<1>19. EvaluatesWhatIsLeft'
  <2> DEFINE whole == GraphOf(query.pattern)
             nothing == {v \in whole.vertices : IsEmpty(Operand(whole, v))}
  <2>1. whole' = g /\ nothing' = empty
    <3>1. \A v : Operand(whole, v)' = Operand(g, v)
      BY <1>9, <1>10 DEF Operand
    <3> QED
      BY <3>1, <1>8, <1>9, <1>10, <1>11 DEF Without
  <2>2. ASSUME NEW v \in finalized.vertices
        PROVE  /\ ~IsEmpty(operands'[Position(finalized, v)])
               /\ v \in Operands(finalized) => finalized.var_ids[v] # <<>>
    <3>1. v \notin empty /\ v \in g.vertices /\ (v \in Operands(g) => g.var_ids[v] # <<>>)
      BY <1>14 DEF Ground
    <3>2. ~IsEmpty(looked[v])
      BY <3>1, <1>8 DEF Without
    <3> QED
      BY <3>1, <3>2, <1>15, <1>16, <1>17
  <2>3. fully_pruned' <=> g.vertices # {} /\ g.vertices = Dependent(g, empty)
    BY <1>9, <1>14
  <2> HIDE DEF whole, nothing
  <2>4. /\ graph'.vertices = whole'.vertices \ (Dependent(whole', nothing') \cup Ground(whole'))
        /\ graph'.edges = {e \in whole'.edges : {e.source, e.target} \subseteq graph'.vertices}
        /\ \A v \in graph'.vertices :
              /\ graph'.item[v] = whole'.item[v] /\ graph'.var_ids[v] = whole'.var_ids[v]
              /\ ~IsEmpty(operands'[Position(graph', v)])
              /\ v \in Operands(graph') => graph'.var_ids[v] # <<>>
        /\ fully_pruned' <=> whole'.vertices # {} /\ whole'.vertices = Dependent(whole', nothing')
    BY <2>1, <2>2, <2>3, <1>9, <1>14, <1>17
  <2> QED
    BY <2>4 DEF EvaluatesWhatIsLeft, Ground, whole, nothing
<1> QED
  BY <1>1, <1>9, <1>18, <1>19 DEF EvaluationInv

LEMMA EvaluateQueryKeeps ==
    ASSUME EvaluationInv, EvaluateQuery
    PROVE  EvaluationInv'
<1>1. phase' = "done" /\ query' = query /\ graph' = graph /\ fully_pruned' = fully_pruned
  BY DEF EvaluateQuery
<1> QED
  BY <1>1 DEF EvaluationInv, TypeOK, EvaluatesWhatIsLeft

LEMMA StepKeeps == EvaluationInv /\ [Next]_vars => EvaluationInv'
<1> SUFFICES ASSUME EvaluationInv, [Next]_vars
             PROVE  EvaluationInv'
  OBVIOUS
<1>1. CASE UNCHANGED vars
  BY <1>1 DEF vars, EvaluationInv, TypeOK, EvaluatesWhatIsLeft, Operand
<1> QED
  BY <1>1, ParseKeeps, GenerateOperandsKeeps, PruneKeeps, EvaluateQueryKeeps DEF Next

(* Evaluation: the graph and its operands keep their types: every vertex   *)
(* has the operand that was looked up for it, whatever graphs are made of  *)
(* the graph of a query.                                                   *)
THEOREM TypeCorrect == Spec => []TypeOK
<1>1. EvaluationInv => TypeOK
  BY DEF EvaluationInv
<1> QED
  BY <1>1, Initially, StepKeeps, PTL DEF Spec

(* Evaluation::evaluate: the operators get the graph of the query without  *)
(* empty operands, what depends on them and true triples, all else as it   *)
(* was, and fully_pruned tells an empty graph that has no solution from    *)
(* one that has.                                                           *)
THEOREM OnlyTheRestIsEvaluated == Spec => []EvaluatesWhatIsLeft
<1>1. EvaluationInv => EvaluatesWhatIsLeft
  BY DEF EvaluationInv
<1> QED
  BY <1>1, Initially, StepKeeps, PTL DEF Spec
===============================================================================
