# tentris-lib: models, checks and proofs

This directory holds a verification development of tentris-lib, an in-process RDF store with a SPARQL
evaluator (C++20, `libs/` of the repository). It consists of TLA+ modules translated from the
source, TLC configurations that check them on small instances, and theorems that TLAPS proves for
every instance. `PROJECT.json` is the index: which definition stands for which lines of the source
(`map`), which run checks what (`runs`), which plausible bug each property catches (`mutants`), what
can go wrong in this code (`hazards`) and where code and documentation disagree (`findings`).

Paths below are relative to the repository; `ts/` abbreviates
`libs/triplestore/src/dice/triplestore/`, `ns/` `libs/metall-node-storage/src/dice/metall-node-storage/`,
`q/` `libs/query/src/dice/query/`, `sp/` `libs/sparql/src/dice/sparql/`.

## 1. Inventory

| Component | State | Operations | Talks to |
|---|---|---|---|
| Triple store (`ts/TripleStore.*`) | hypertrie, pending statements of the bulk inserter, `std::shared_mutex`, blank node counter, parse cache | add, load_ttl, flush, size, contains, match, iterate, query (lazy generator), update, RDF lists, construct / destroy | node storage, query evaluation, SPARQL parser |
| Parse cache (`ts/SyncedLRUCache.hpp`) | map + recency list + mutex | lookup, insert, prune, clear, size | `TripleStore::parse_sparql_query` |
| Node storage (`ns/`) | per node type: `id2data`, `data2id`, id generator, `std::shared_mutex` | find or make an id, find an id, view, erase | rdf4cpp, which calls it for every node that is made or looked at |
| Persistence (`TripleStore` and `MetallNodeStorageBackend` constructors, `destroy_persistent`) | named objects in a metall manager | find or construct, destroy | metall (external) |
| Query model (`q/Query.hpp`, `q/OperandDependencyGraph.hpp`) | a graph whose vertices are operands and whose edges are shared variables | add / remove operands and variables, components, sub graphs | parser (builds it), operators (shrink it) |
| Evaluation (`q/Evaluation.hpp`, `q/operators/`) | one coroutine per operator | join, left join, union, Cartesian product, filter, assignment, distinct, projection, aggregation, limit | hypertrie joins (external) |
| Solution modifiers (`q/operators/` Project, Distinct, LimitPagination, the two aggregations) | groups, sorted answers, rows seen, offset and limit left | yield the answers of a SELECT query one by one | operators, expressions |
| Generator (`q/util/generator.hpp`) | coroutine frames, the pointers between a generator and the adapter nested in it | resume, yield (an object, a const reference), `elements_of`, rethrow, destroy | every operator, `TripleStore::eval_sparql_query` |
| SPARQL expressions (`sp/expressions/`) | value of the last evaluation, registered variables | update_value, evaluate, aggregate | filters, assignments, aggregation |
| SPARQL parser (`sp/parser/`) | visitor state: current query, variables, prefixes | parse query / update / data | ANTLR (generated) |
| C interface (`libs/ffi/`) | handles, `errno`, thread-local error buffers | load, query, generator and iterator stepping, update, destroy | all of the above |
| Node wrapper, parameter allocator, template instantiation, logger | none of their own | | |

**Interaction.** A client thread (directly or through the C interface) calls the triple store. Reading
calls first `flush()` the pending statements under the exclusive lock, release it and take the lock
again, shared. A query returns a *generator*: it takes the shared lock on its first resumption and
keeps it until it is exhausted, throws or is destroyed, so the lock's lifetime is in the caller's
hands; the same holds for an iterator. Updates nest a query and then take the exclusive lock. The
node storage has its own mutex per node type and is entered from inside and outside of the store's lock.
No other threads exist.

**What is hard here.** Interleavings of calls between a flush, the lock and the evaluation; lazy
evaluation that keeps a lock across returns to the caller; timeouts that unwind a generator in the
middle of an update; check-then-act in the node storage and the parse cache; identifiers that must
stay unique across threads; recursive evaluation of a query whose operand graph shrinks while several
parts of it are shared; exceptions that pass through nested coroutines; state of one C call seen by
the next.

**What makes each component correct.**

* Triple store: no lock is leaked or released early; every call reads or changes one state; what was
  added before a call began is seen by it; an update applies the entries of its whole answer or none.
* Node storage: one id per value and one value per id, for ever; both maps agree outside a writer's
  section; ids never exceed their width; every call returns.
* Parse cache: a returned query is the parse of the text asked for; the cache stays below its hard limit and is not
  pruned below its soft one; a query handed out stays alive after it was evicted.
* Query model and evaluation: the recursive evaluation returns the bag of solutions that the SPARQL
  algebra assigns to the query.
* Solution modifiers and expressions: answers, their order and their page are those of the recommendation, also when a cached query is
  evaluated again.
* Generator: a value that a reader sees is alive; an exception passes every coroutine up to the consumer and skips
  none; every frame goes with what holds it; to delegate is to read in a loop.
* C interface: a handle's object is destroyed once, whoever destroys it; nothing that was put in is lost and nothing taken
  out comes back; a timeout is honoured; errors and their texts are those of the failed call.

## 2. Modules

| Module | Models | Role |
|---|---|---|
| `SnapshotStore` | nothing of the code: what a store promises | abstract specification |
| `TripleStore` | `ts/TripleStore.cpp` as a concurrent object | refines `SnapshotStore` |
| `MCTripleStore`, `TripleStoreProofs` | | instance for TLC, theorems |
| `NodeTable` | nothing of the code: an atomic table of ids | abstract specification |
| `NodeTypeStorage` | `ns/MetallNodeTypeStorage.hpp`, `ns/MetallNodeStorageBackendImpl.cpp`, the id generators | refines `NodeTable` |
| `MCNodeTypeStorage`, `NodeTypeStorageProofs` | | instance for TLC, theorems |
| `SyncedLRUCache` | `ts/SyncedLRUCache.hpp` and its only user, `TripleStore::parse_sparql_query` | concurrent object |
| `MCSyncedLRUCache`, `SyncedLRUCacheProofs` | | symmetry for TLC, theorems |
| `RdfList` | `TripleStore::get_rdf_list` | sequential loop |
| `BlankNodeIds` | the blank node counter of INSERT operations | concurrent object |
| `OperandDependencyGraph` | `q/OperandDependencyGraph.hpp` | operators on graphs |
| `QueryOperands` | the operands of a graph's vertices: `extract_operands`, `prune_empty_operands`, `remove_rank0_operands`, slices | operators |
| `Evaluation` | `q/Evaluation.hpp`: from a graph to what the operators get | sequential, whatever the visitor and the operators do |
| `EvaluationProofs` | | theorems about the three above |
| `QueryUpdateVisitor` | the part of `sp/parser/visitors/QueryUpdateVisitor.cpp` that makes a graph of a WHERE clause | operators |
| `SparqlAlgebra` | nothing of the code: the bag of solutions of a WHERE clause | reference definition |
| `Operators` | `q/operators/`, below the solution modifiers | recursive operators |
| `QueryEvaluation` | from the text's patterns to the answer | composes the seven above |
| `MCQueryEvaluation` | | data and queries for TLC |
| `Nodes` | what solutions bind: the nodes of rdf4cpp, their arithmetic and order | operators |
| `Expressions` | `sp/expressions/`: objects that are updated, evaluated and cloned | operators |
| `SolutionModifiers` | nothing of the code: the solution modifiers of the SPARQL recommendation | reference definition |
| `SolutionPage` | `q/operators/DistinctOperator.hpp`, `LimitPaginationOperator.hpp` and the insertions of ORDER BY | operators on the page and the sorted list |
| `SelectEvaluation` | `q/Evaluation.hpp`, `q/operators/`: projection and aggregation, the page, and the parse cache that keeps the query | sequential, whatever expressions compute |
| `SelectEvaluationProofs` | | theorems |
| `SelectQueryVisitor` | the part of `sp/parser/visitors/QueryUpdateVisitor.cpp` that makes a query of the clauses of a SELECT | operators |
| `SolutionSequence` | a SELECT query from its clauses to its answers | composes the six above |
| `MCSolutionSequence` | | clauses and entries for TLC |
| `Readers` | nothing of the code: coroutines that read each other in loops | abstract specification |
| `Generator` | `q/util/generator.hpp` | refines `Readers` |
| `MCGenerator`, `GeneratorProofs`, `GeneratorRefinement` | | allocation for TLC, theorems, the refinement |
| `CInterface` | `libs/ffi/`: handles, error reporting, opening and destroying both kinds of stores | concurrent object |
| `MCCInterface`, `CInterfaceProofs` | | symmetry and a bound for TLC, theorems |

### 2.1 TripleStore

State: `hypertrie` is `*hypertrie_` as a set of triples; `pending` what `inserter_` still holds;
`writer` and `readers` the state of `mutex_`; `pc`, `op`, `goal`, `task`, `seen`, `answer`,
`toRemove` and `toInsert` are the locals of the call each thread is in (`entries_to_remove` and
`entries_to_insert` for updates, the position of a generator as the solutions it has `seen`). `committed`
and `owed` are history variables: the hypertrie when the last writer left, and what a call must be able
to see. Each method is a chain of actions cut at its lock operations, and additionally at every yield of
a generator, at every bulk of `load_ttl`, and between the bulk removal and the bulk insertion of an
update; `Begin...` actions are the calls, `Flushed` is what each method does after its flush.

Abstractions: a triple is opaque; a query is the set of triples it matches (a single pattern), a
template maps a solution to the triples it makes. This keeps every interleaving of the store and
leaves the algebra to the query modules. `contains` and `match` are one call (look up without a flush);
`is_rdf_list` and `get_rdf_list` share the locking of `size`. A bulk inserter (external) commits on its own
when its bulk is full: `AddStatement` allows that at every size.

Discipline assumed of callers, because the code does: a thread that holds a generator or an iterator
makes no other call before it drains or destroys it (with a flushing call it would wait for itself),
and the store is destroyed when no call is running.

### 2.2 NodeTypeStorage

State: `id2data` and `data2id` are the two maps, `next_id` the counters of the `IdGen`, `writer` and
`readers` the mutex; `request`, `local` and `reply` are the arguments, the node under construction or
erasure, and the result of each thread's call. The actions cut each function at its lock operations and
between the updates of the two maps. `data2id` is a set of pairs: the map's keys are pointers and two
backends never compare equal as keys, so only the second look under the exclusive lock
(`FoundMeanwhile`) keeps a value from getting two ids.

Abstractions: a node is an opaque value with the counter its id comes from (the datatype of a
fallback literal; one counter for any other storage); `Reserved` are the IRIs of the
constructor. Hashing and memory allocation are not modelled; a failed allocation ends the program
(the functions are `noexcept`).

### 2.3 SyncedLRUCache

State: `lru_list` is the recency list with the addresses of its nodes, `cache` the map from keys to addresses, `text` what
each thread is parsing, `result` what its last call returned, `calls` how many it made. Every method of the cache is one action,
because each holds the mutex from its first to its last statement; the thread is outside of it between the look-up and the
insertion. So two threads may miss the same key and both insert it: the list then has two nodes for one key, and `prune`, which
erases the key of the last node, may take a key out of the map whose newest node stays in the list. `KeysWithinLimits`
is therefore about the keys of the map: after every call they are fewer than `MaxSize + Elasticity` (at most `MaxSize` without elasticity), and an insertion that takes
a key out leaves at least `MaxSize` of them. No limit holds for the nodes of the list. An address that left the list is used
again (`Fresh`), as an allocator may. A parsed query is identified with its key; `Malformed` keys make the parser throw
between the two calls.

### 2.4 RdfList

`head`, `items` and `links` of the loop, with rdf:first and rdf:rest as functions on the nodes
of a well-formed list. One action per round.

### 2.5 BlankNodeIds

An INSERT template with blank nodes evaluates `bnode_id_++` for each label and solution while its thread holds
the *shared* lock. The member is a plain integer, so the increment is a load and a store with other
threads' loads and stores between them: two actions.

### 2.6 The query modules

**OperandDependencyGraph.** A graph is a record of vertices, their unresolved variables, what they stand for,
labelled edges, and `removed_var_ids_`. The code numbers the vertices of every sub graph anew and keeps the original
positions in a property; here a vertex keeps its number and `Rank` gives the number the code would use, so that every
place where the code mixes up the two kinds of numbers is visible. Reachability is written as the smallest
closed set, without recursion. `QueryOperands` has the operands of the vertices, in the order of the vertices: whenever a graph is made from a
graph, `Extract` must take along those of the vertices that are left. `AddConnection` with a position the graph does not have makes vertices that stand for
nothing, as `boost::add_edge` on a `vecS` graph does.

**QueryUpdateVisitor.** A WHERE clause is a record like `GroupGraphPatternSub`: items (triple patterns and
BINDs), unions, optionals, filters. `GroupGraph` follows `visitGroupGraphPatternSub`: items, unions and filters are distributed over each other by
`combine_and_merge`, in this order, and optionals attached by `combine_optional`. An expression is one variable, or a comparison of two variables or of a variable
and an IRI; a triple pattern names the relation that its constants select, with at most three variables.
A FILTER becomes what the visitor makes of it: the parts of a conjunction are operands of their own with dependencies between
each two (`Conjuncts`, `FilterGraph`); `?x = ?y` is an assignment with a replacement of variables; `?x = IRI` is inline data, an operand of
one row (`FilterIs`); a variable that is out of scope is written as an anonymous one (`Anonymous`), and an equality with it is a `FalseExpression`
without variables (`Never`). A comparison with a literal stays a filter like `!=` and has no form of its own here.

**Operators.** An operator is a coroutine that shares one entry with its caller: what it writes into the entry stays
there. Its meaning is therefore an *outcome*: the entries it yields, the entry it leaves behind, and whether every
assertion on the way held. Each operator has a generating and a counting variant, as the code has two templates; the counting
one runs when no tracked variable is left in the graph. The choice of the next variable
is that of `CardinalityEstimation.hpp`, computed with exact fractions instead of doubles; ties go to the first variable.
`next_op` and the order of its tests are kept. An operator that would take an operand for another
vertex's fails the assertion on its arguments (`Aligned`) instead of reading the wrong table.
External: the hash join and the slice of hypertries are modelled by what the operators need of them.

**Evaluation and QueryEvaluation.** Four steps: parse, generate the operands from the data, prune (the empty operands with all that
depends on them, then the ground triples that are there), evaluate. The data does not change during a query: `TripleStore` shows that
the lock sees to that. The visitor and the operators, which recurse, are constants of `Evaluation` (`GraphOf`, `AnswersOf`), which lets proofs use it;
the configurations of `QueryEvaluation` give them `GroupGraph` of `QueryUpdateVisitor` and `ProjectOperator`, and TLC evaluates that the graphs of all
queries are what `VisitorAssumption` says. Projection keeps the positions of the projected variables; entries of equal key add up.

Variants that some query reaches: all but the counting variants of the left join and of the operator for filters on
optional parts, and the generating variant of the entry generator, which always fails its assertion (section 4).

### 2.7 Nodes, Expressions, SolutionModifiers, SolutionPage, SelectQueryVisitor, SelectEvaluation, SolutionSequence

An expression is a record of its operator, its operands and its state: a variable keeps the value `update_value` put
there, an aggregate what it has accumulated. `UpdateValue`, `Value` and `Clone` are the methods. Nodes are pairs of a
kind and a number; integers, booleans, IRIs and the quotients of a division suffice for the operators that are modelled.

An evaluation begins with the clauses of a SELECT query and the entries of its WHERE clause (what
`QueryEvaluation` ends with). `SelectQueryVisitor` visits GROUP BY, HAVING, SELECT and ORDER BY in the visitor's order, with the replacement of
aliases and the checks that reject a query; `Parse` takes its result. A condition of ORDER BY without a direction may be a bare variable, which stands for a column
or an alias as it is; `ASC(...)` and `DESC(...)` have an expression, whose aliases are replaced and whose variables must be grouped or aggregated. So
`ORDER BY ?g` is accepted and `ORDER BY DESC(?g)` is malformed if `?g` is an alias of GROUP BY, and it is the other way round for the alias of an aggregate. Then `SelectEvaluation` has one action per entry or answer: the projection
with or without sorting, the implicit aggregation (one group, the whole sequence), the explicit one (groups, then HAVING, then sorting), and `DISTINCT`,
`OFFSET` and `LIMIT` as the reader pulls the answers. What becomes of a row on that way, and where ORDER BY inserts an entry, is in
`SolutionPage`. The methods of expressions and the visitor, which recurse, are constants of `SelectEvaluation` (`NodeOf`, `UpdatedBy`, `CopyOf`, `QueryOf`), which
lets proofs use it; the configuration of `SolutionSequence` gives them those of `Expressions` and `SelectQueryVisitor`. `given` is a history variable, what an evaluation has given to
`DISTINCT` and `LIMIT`. A query is evaluated `MaxEvaluations` times from the same parsed
objects, since the parse cache hands them out again; an aggregate that kept anything of the first evaluation would show in the second.
`SolutionModifiers` gives the expected answers from the recommendation: expressions are evaluated over a solution and its
group, without any state. An entry of count zero (LIMIT 0 yields one) has no rows and does not show in the answers that are compared.

### 2.8 Generator

A frame is the memory of a coroutine with its promise. `rootOrLeaf_`, `parent_`, `exception_` and `value_` are the members of the
promise with the same names, except that `exception_` names the awaiter that keeps the exception and `caught` has the awaiters that were given one.
`status` is where the coroutine is suspended; `child` is the one generator a frame (or the consumer,
outside of all coroutines) has in a local or holds as the range of a loop; `stack` the coroutines in execution, each resumed by the one below;
`raising` an exception in flight. `value_[f]` names the coroutine whose object the pointer of `f`'s promise leads to.

There are two ways to read another generator. A loop resumes it (`Begin`, `Increment`) and ends by destroying it (`Destroy`). `co_yield elements_of(sub)` delegates:
the deduction guide (`generator.hpp:170`) makes the argument an `elements_of<generator &>`, so the overload for ranges is chosen (488-495), and what
is nested is an *adapter*, a coroutine that reads `sub` in a loop and yields what it reads (`Delegate` makes it and runs it in the place of its parent).
Only adapters have a parent, and the chain from a root to its leaf is never longer than the operator and its adapter; deeper nesting goes through loops, those of the adapters.

There are two yields, with different places for the pointer. An operator that yields an object it may change (`co_yield entry`) or a temporary suspends with
a holder whose pointer goes into its *own* promise (`YieldObject`, 381-401). A const object, which is all an adapter yields since it reads const references, is
pointed to by the promise of the *root* (`YieldConst`, 375-379). A reader looks at the promise of the generator it holds. The first kind is safe because an operator is
its own root, the second because an adapter's root is the operator; `ValuesAreAlive` is what either gets wrong as soon as adapters yield as operators do.

`FinalSuspend`, `Unwind` and `AwaitResume` are `final_suspend`, `unhandled_exception` and the awaiter of `elements_of`. An exception of an operator leaves `resume()` and goes to its reader;
one of an adapter is kept in the awaiter of its parent, which throws it again. `Catch` is the consumer: the C interface, or a test.
`Readers` is what a reader may believe instead of pointers: operators that read each other in loops, where `co_yield elements_of(g)` means
`for (auto const &v : g) co_yield v`.

A frame holds at most one generator at a time. Not modelled are the overload that nests a generator directly (480-486), which the deduction guide keeps from
being chosen, moves of a generator (they change its holder only), and the allocation of frames.

### 2.9 CInterface

State: `store` is the open store, `named` the named objects in the metall file, `trie`, `known` and `inserter` the data of either kind
of store. `handle` is the object behind a handle in the memory of each client, `freed` how often it was destroyed, `holds` whether the client believes it
owns one; `readers` has the lock shared; `call` is the section a client waits to enter or is in; `reply` what it was told, with errno, the discriminant and the text of the error;
`local_msg_buf` the thread-local buffer of parse errors. Three variables are history: `promised`, what the clients put in and did not take out;
`possible`, that and what may have come back; `racing`, what was added while a client's update was running.

A call enters the store in sections, as the methods behind it take the lock: `Flush` under the exclusive lock, which it gives up, and then its own section, `LoadTtl` or `EvalUpdate` under
the exclusive lock taken again, `Size`, `Match`, `Open` or `Iterate` under the shared one. Between two sections other threads add, flush and update; an update that evaluates a
WHERE clause flushes twice and matches in between. (`TripleStore` has the steps inside the sections.) A statement that is added between the flush of an
update and its exclusive section stays in the bulk inserter while the update removes it from the hypertrie, and is flushed later: as if it had been added after the update. `NothingIsLost` says
that it is not lost, `NothingComesBack` that nothing else returns. Steps in the middle of a call tell the client nothing (`Silently`).

A query's handle is prepared, evaluated for the first time (`Next1`, `Open`), and then suspended and resumed (`Yielded`, `NextN`) until it ended or failed; `Work`
is an operator that passes `check_time_out` with its counter. An exception of the first evaluation is reported and, if it is a timeout, destroys the object; of later ones timeouts are reported and the others
reach the client as exceptions (`Raised`). An iterator stands on a triple or behind the last one. Opening
a persistent store finds or constructs its three objects in order and may fail before each; `destroy_persistent` destroys them in
order and stops at one that is missing. Every failure of a modelled function is a disjunct of its action or an action of its own.

Discipline assumed of clients, because the code needs it (`tentris.h` does not state it): an owner of a handle makes no other call on the store, only advances or destroys the handle, does not advance
one that ended or failed, and destroys it in the end; a store is destroyed when nobody uses it; one store is open at a time.

Left out are the calls that keep no state: terms (`make_iri`, `make_literal`, ..., which set errno as well), ids, the projected variables and the columns of a solution.

## 3. Runs and bounds

| Run | Instance | Shows |
|---|---|---|
| `triplestore_safety` | 2 threads, 2 calls each, 2 triples, 4 updates (DELETE DATA, INSERT DATA, a replacing and a swapping DELETE/INSERT WHERE) | types, lock ownership, fresh reads, whole updates, inductive invariant, refinement of `SnapshotStore` |
| `triplestore_liveness` | 2 threads, 1 call each, the swapping update | every call returns |
| `nodestorage` | 2 threads, 2 calls each, 3 values (one reserved), 2 counters with room for 2 new ids each | all of the node storage's properties, its refinement and liveness |
| `parse_cache` | 2 threads, 4 keys and a malformed one, `MaxSize` 2, elasticity 2, 4 calls each | no dangling entry, results, both limits, a node survives its own insertion |
| `query_evaluation` | 2 nodes, 2 binary relations (256 data sets) and a ground triple, 72 queries over at most 4 variables | types, what is left to evaluate after pruning, no assertion fails, answers are the algebra's |
| `solution_sequence` | 30 queries (12 projections, 13 aggregations, 5 malformed), every sequence of at most 3 entries over 4 keys with counts 1 and 2, each query evaluated twice | types, answers, their order and the page are those of the recommendation |
| `generator` | 5 frames, of which the allocator hands out the first free one | a reader resumes what is suspended and sees live values; nothing leaks; exceptions skip no coroutine, and get to the consumer; refinement of `Readers` |
| `c_interface` | 2 clients, 2 triples, 1 message, counter limit 1, no store in memory while something is in the file | handles destroyed once, nobody stuck, complete iterations, nothing lost and nothing back, a file that can be opened |
| `rdf_list` | lists over 3 nodes, vectors up to 3 | finding (section 4) |
| `blank_node_ids` | 2 threads, 2 labels, 2 solutions | finding |
| `query_filter` | the data of `query_evaluation`, one query | finding |
| `c_timeout` | 1 client, 1 triple, 2 messages, counter limit 1 | finding |

Two triples are enough to tell a partial answer from a whole one and to see a removed triple
replaced; two calls per thread let one thread add, and another flush, update or load, between two
steps of a call. In the node storage, two threads that make the same value, and an erased value that is made again so that
the ids run out, are inside the bounds. In the cache, four calls of each thread are enough for racing insertions of a key to leave a stale node in the list, and for other keys
to reach the hard limit then, so that a prune meets it: the case in which counting nodes and counting keys differ. A soft limit of two lets a prune that goes too far be seen. Two nodes distinguish joined from unjoined, duplicate from
single, and bound from unbound values; since the data is *every* pair of relations, all orders in which the
cardinalities may put the variables occur. The queries of `MCQueries` cover joins (chains, a triangle, a star, repeated variables,
Cartesian products, BIND, triples without variables), unions (alone, of three, joined with a pattern or a union, with a FILTER or an OPTIONAL inside an
alternative, followed by an OPTIONAL), optionals (one, two, nested, of two patterns, after two patterns, unconnected) and
filters (one, two, conjunctions, on required and optional variables, on unions, equalities, comparisons with IRIs and with variables that are out of scope), each
with projections that make components count.

Entries with counts 1 and 2 make offset and limit cut an entry at the front, at the end and at both; three entries over
two values each contain equal keys that are not neighbours, groups of one and of several, unbound values, and the empty sequence. Five
frames contain an operator with its adapter that reads an operator with its adapter that reads a fifth: the least in which a value and an exception pass
two adapters and a loop, and in which a freed frame is used again within a generator. Frames are interchangeable and the free ones are alike, so a fixed choice of
the allocator (`FirstFit`) leaves no behaviour out but by renaming. Two clients let one
wait while the other keeps the lock through a handle; one message is enough for what is checked (two would tell whose message is
reported: section 4). `OneStore` keeps the file empty while a store in memory is open: the two kinds share only the inserter, which is empty whenever a store is closed.

**Fairness.** The `FairSpec` of `TripleStore` and `NodeTypeStorage` assume weak fairness of each thread's steps: the operating
system runs every thread, and a caller goes on to drain or destroy what it opened. Nothing is assumed of the order in
which a `std::shared_mutex` is granted (the C++ standard promises none), which is why the liveness runs
make finitely many calls: with an endless supply of readers a writer may starve. In `Generator` only unwinding is
fair: the code an exception runs (destructors, `unhandled_exception`, the awaiters) waits for nobody, while a
consumer may stop reading whenever it likes.

**Deadlock.** The runs of the concurrent modules check it: the end of all calls is a step of its own, so that
anything else that stops is an error. The generator and the C interface have no end. The query runs and those of
solution sequences do not check it, since a query ends with its answer.

## 4. Findings and divergences

Four runs are refuted by TLC; each is a disagreement of the code with a sentence of the repository.

* `rdf_list`: `get_rdf_list` reads rdf:first and rdf:rest of its *argument* in every round, and goes on from the element.
* `blank_node_ids`: two INSERTs that are evaluated at the same time can use one blank node for two.
* `query_filter`: a filter on required variables is evaluated below the left join, which yields its own entry when the
  filter is false.
* `c_timeout`: the end time that `tentris_triplestore_eval_query` computes is not passed to the evaluation.

The following are no runs. The first group can be reproduced with the modules as they are.

* `ErrorTextIsOfThisError` of `CInterface`: `populate_parse_error` initialises its thread-local buffers at their first use only
  (`libs/ffi/src/dice/ffi/tentris.cpp:226,233`), so a second error of a thread has the text of the first. Add it to the
  invariants of `CTimeout.cfg`.
* `ErrorsAreTold` of `CInterface`, every error with the errno and the discriminant that `tentris.h` lists for its cause: `tentris_triplestore_destroy_persistent`
  returns FAILURE without errno (`tentris.cpp:105-111`, against `tentris.h.in:288-289`), and `tentris_solution_generator_next` catches only timeouts after its first call
  (361-372, against `tentris.h.in:376-378`), so that other exceptions reach the C client. Add it to the invariants of `CTimeout.cfg`.
* `MCQueryEvaluation` defines sets of queries whose answers are not the algebra's; take one of them as `Queries`:
  `JoinedBind` (an assignment that resolves the last variable leaves an empty graph, taken for a pruned one, `q/operators/AssignmentOperator.hpp:166`),
  `UnitedBind` (what an assignment of one alternative has set is still in the solutions of the next, `q/operators/UnionOperator.hpp:47`),
  `CountedProduct` (the count of an eliminated component is read at the component's position, `q/operators/Operator.hpp:185`),
  `CountedOptional` (the counting left join passes the operands of the unpruned graph on with the pruned one,
  `q/operators/LeftJoinOperator.hpp:125`, and an assertion of `CountOperator.hpp:27` fails),
  `UnboundComparison` (comparisons of an unbound optional variable: `FILTER(?a = ?c)` becomes an assignment,
  `QueryUpdateVisitor.cpp:1503-1524`, `FILTER(?c = IRI)` becomes inline data that binds `?c` where the OPTIONAL has no match, 1467-1503,
  and `!=` is true of it).
* In the same way: a FILTER inside an OPTIONAL (values of the failed part stay in the shared
  entry); a UNION inside an OPTIONAL (`combine_optional` takes positions within a component for positions in the
  graph); an OPTIONAL with nothing required before it (treated as required); two OPTIONALs that share a variable the required
  part does not have (multiplied, not joined one after the other); a BIND of the result of another BIND (evaluated before its
  variable has a value).

The second group was read in the code while it was modelled. The queries of `solution_sequence` avoid these cases,
because the recommendation (not this repository) says otherwise:

* `NOT IN` in SELECT, HAVING or ORDER BY: `clone_impl` drops `not_in_` (`sp/expressions/LogicalOperators.cpp:413`).
* Comparisons, IN, sameTerm and the type tests over an unbound variable give a value and no error; the
  effective boolean value of an IRI counts as false.
* SUM and AVG DISTINCT never insert into `rdf_literals_` (`sp/expressions/Aggregates.cpp:127-135`); AVG over
  unbound values only is 0.
* DISTINCT yields 1 for an entry of value 0; LIMIT 0 yields one entry with count 0.
* HAVING is ignored without GROUP BY and aggregates; GROUP BY without an aggregate does not group (`q/operators/Operator.hpp:34-42`);
  aggregates that track no variable reach an assertion (`CountOperator.hpp:19`), and a nested COUNT(*) dereferences a null
  `op_expr_`; implicit aggregation over an empty WHERE clause counts 0 instead of 1 (`ImplicitAggerationOperator.hpp:20`).
* ORDER BY the bare alias of an aggregate, and ORDER BY ASC, DESC or an expression over an alias of GROUP BY, are rejected as malformed
  (`QueryUpdateVisitor.cpp:771-789`, 213-218); `solution_sequence` has such queries as malformed ones.
* Copies of a cached query share the expression objects of their filters and assignments (`q/Expression.hpp:76`), into which
  `update_value` writes: two threads that evaluate the same text race.
* `eval_update` reads `updates[0]` of an empty update (`tentris.cpp:305`). A failure of the persistent
  constructor leaves objects in the file (`ts/TripleStore.cpp:77-90`; `TripleStore.hpp:87` says that no memory is allocated), which
  `PersistentObjectsAreWhole` shows to be usable. `bnode_id_` starts at 0 again in a reopened store (`TripleStore.hpp:68-71`).
* A thread that calls a flushing method while a generator of its own is alive waits for itself.

## 5. Proofs

`TripleStoreProofs` proves for every set of threads, triples and updates: `TypeCorrect`,
`LockCorrect`, `Inductive`, `ReadsAreFresh`, `UpdatesAreWhole` and `Refinement`. `FreshRead` and
`WholeUpdate` are not inductive on their own. The inductive invariant `IInv` adds `GeneratorInv`
(a generator in progress has yielded solutions of the state it holds locked, and the entries of an
update are those of what it has seen), `OwedInv` (what is owed is stored or pending, and stored from
the flush on) and `CommittedInv` (only a write section makes the hypertrie differ from what was
committed, and by what). The proof that a step preserves it has one case per action. The refinement maps
`store` to `committed`, a `view` to the hypertrie while the lock is held shared, and the nested
calls of an update to one update; each action is one abstract action or a stutter.

`NodeTypeStorageProofs` proves `TypeCorrect`, `LockCorrect`, `Inductive`, `ValuesHaveOneId`,
`TablesAreInverse` and `Refinement`. The invariant adds `CounterInv` (ids in use are below their
counter) and `LocalInv` (what a writer between its two updates holds). The refinement maps the table to
`id2data`, where a node under erasure stays until its call returns.

`SyncedLRUCacheProofs` proves `TypeCorrect`, `EntriesNeverDangle`, `ResultsAreTheParse`, `KeysStayWithinLimits` and `InsertedNodesSurvive` for any
number of threads and keys and any limits. The conjunction of the four state properties they need (types, no dangling entry, results, the hard limit) is inductive. The step that needs an argument is
`prune`: the keys it erases are those of the nodes it pops, so an entry that stays leads to a node that stays; it
pops fewer nodes than the list has, because the keys of the map are among those of the list's nodes, and so never the node that was just inserted.
For the lower limit, each popped node takes at most one key out of the map, and pops stop at the first size that is not above `MaxSize`.

`CInterfaceProofs` proves `TypeCorrect`, `Inductive`, `HandlesDestroyedOnce`, `WaitersCanGoOn`, `IterationsAreComplete`, `TriplesAreNotLost`, `TriplesDoNotComeBack`
and `ObjectsAreWhole` for any number of clients, triples and messages. The invariant has five parts. `StorageInv` adds
to the three properties of the store that an open persistent store has all of its objects, a closed one has nothing left to flush, and
what the bulk inserter holds is known to the node storage; the interesting step is `DestroyPersistent`, which loses nothing
although it may stop half way, because a file that misses an object has no triples. `RacingInv` is about the gap in an update: between its flush and its exclusive
section, the bulk inserter holds only statements that were added in the meantime. So whatever is removed from the hypertrie and still waits in the inserter
was added while the update ran, and `NothingComesBack` allows just that to return. `SessionInv` adds who may have the lock: owners of a handle that wait for nothing
and whose handle is an iterator or a query in evaluation; a client that evaluates owns a query; and nobody uses a closed store.
`HandlesAreDestroyedOnce` depends on no evaluation having an end time (`NoTimeOut`): the first call of `next` destroys the object on a timeout and the
client, who was told FAILURE of an existing handle, destroys it again. That branch is not taken only because the end
time is not passed on, the finding of `c_timeout`; repairing one without the other breaks this theorem. The storage needs the sessions (nobody flushes a closed store) and the
sessions the storage (iterators stand on triples of the store), so the two are proved together; `ReplyInv`, the types of replies, needs neither.
`IteratorInv` is what iteration needs at every moment: whoever has an iterator is among the readers, so that no exclusive section can change the store under it, and
what the iterator has given, each triple once, and what it has still to give make up the store, without overlap. What it has still to give includes the
triple it stands on only while that is its first: that is the difference between the first call of `iterator_next` and the others.

`GeneratorProofs` proves `TypeCorrect`, `Inductive`, `ResumesSuspended`, `ValuesLive`, `NothingLeaks` and `ExceptionsPass` for any number of frames
and any depth of nesting. The invariant relates each frame to its neighbours only, and what a frame holds, directly or through others, is the least set closed under `child` (`Held`).
`PromiseInv` says what the promise of a free frame, of an operator and of an adapter looks like: an operator leads to itself or, while its adapter runs, to that; an adapter is held by an
operator that delegates, leads to it, keeps its exceptions there, and holds an operator itself. `HolderInv` says that a generator has one holder, and that the live frames are
the least set that contains what the consumer holds and is closed; `StackInv`, that every executing coroutine was resumed by the holder of its generator;
`ValueInv`, that the value of a generator that waits was yielded by a frame it holds, which waits too. The step that needs an argument for most of it is the destruction of a frame with
what it holds: none of these executes (else its holder would execute, down to the executor's own generator, which waits), and what is left is
still the least closed set around the consumer's generator. For values, the reader of a waiting generator changes nothing it holds by passing its value on, so the
coroutine whose object travels up through loops and adapters stays suspended until the whole chain is resumed.

`GeneratorRefinement` proves `Refinement`: `Generator` implements `Readers`. The mapping takes adapters out: the stack has their parents instead, an operator that delegates reads what its
adapter reads, and it waits when the adapter does. Delegating and the end of an adapter are stutters; `AwaitResume` is the destruction of a generator by its reader; an exception is in flight also while
an awaiter keeps it. Beyond `IInv` the proof needs `FlightInv`: free frames have no value, and only the coroutine that executes can have an exception to throw again, so there is one exception at a time.

`SelectEvaluationProofs` is about `SelectEvaluation`, whatever expressions and the visitor compute, for rows of any kind, any LIMIT and OFFSET, entries of
any counts (zero included, which a counting query without tracked variables yields), and any number of evaluations of a query. `PagesAreSlices`: the answers are those
of the solutions yielded that OFFSET and LIMIT leave, in number and in rows, wherever an entry is cut. `DistinctPagesAreSlices`: with DISTINCT they are
that slice of the rows, counted once, in the order in which they came first. The invariant (`EvaluationInv`) relates the page to `given` by running totals
of what was given and answered: an answer lies within the entry that has its row, `Skipped` further on.
The counters of the code say what the totals are only until the page has ended (`CountersAgree`); it ends when the answers are as many as the limit, and
then nothing more is yielded.

`TypeCorrect` needs two invariants of its own. `QueryInv`: only the grouping key of the parsed query changes, and stays as long, so every evaluation goes the same way.
`StateInv`: what an evaluation works with fits the query, the copies of expressions of each group included, and what is listed are groups that are there.
`EvaluationsAreComplete` and `PagesAreFull` rest on `CountInv`, a conservation of solutions: what was given, what is listed and what remains are together what was due (`Due`: the
solutions of the entries, one for an implicit aggregation, one for each group that passes the filters), through sorting, grouping and yielding. With the
counters of the page it follows that the reader gets exactly what OFFSET and LIMIT leave of what was due, also when a full page ended the evaluation early.

`EvaluationSortsStably` is about ORDER BY without aggregates, with any number of keys, each ascending or descending: the rows that were yielded are the projections of the entries
that a certain permutation of all entries begins with, and what is left to project is its rest; if the ranks of the entries have an order (`Sortable`; quotients have none), the permutation
is sorted, with equal entries in the order in which they came. The invariant (`SortInv`) says that of the entries that have arrived while others
remain. `GroupsSortStably` says the same of groups: those that pass the filters are yielded once each, sorted by the ranks of their own expressions. Both rest
on `InsertionSorts` about `SolutionPage`: the order of nodes is total, so ranks compared key by key are totally ordered; the entries that are not greater form a front
part of a sorted list, so that the place where an entry is inserted, found by counting them, is the end of that part. `InsertedAll`, `Total` and `UpdateOften` are recursive
functions; what they are is proved by least counterexamples over their (finite) domains. TLC evaluates that what the queries of `solution_sequence` order by has an order (`RanksHaveAnOrder`).

`EvaluationProofs` is about the operators on graphs, for graphs of any size and shape, and about `Evaluation`, for any queries and data. A part of a graph
is a graph (`SubGraphIsWellFormed`); what pruning leaves has none of the empty operands and depends on
nothing that was pruned (`PruningLeavesNoDependent`); no operand is pruned that could have stayed
(`PruningIsMinimal`); and with more empty operands no more is left (`PruningIsMonotone`). They rest on one lemma: `Reached`, defined as an
intersection, is itself closed and the least closed set around its start. `OperandsFitParts` and `OperandsFitJoins` say that the operands follow
their vertices, when a graph is made from a graph and when a join resolves a variable. That is the hard part: the code numbers the vertices of each graph anew, and `Rank` and `AtRank` have to be
inverse on any finite set of numbers. With them, `TypeCorrect`: at every moment each vertex has the operand that was looked up for it. And `OnlyTheRestIsEvaluated`
(`EvaluatesWhatIsLeft`): the two prunings together take away exactly the empty operands with their dependents and the ground triples that are there, although the second
works on the numbers the first has given; and the flag `fully_pruned` is set exactly if something empty took everything away, not if all triples were ground and there.

Evaluation splits graphs, and the visitor builds them from parts. `UnionComponentsSplit` says that the union components are a partition of vertices and edges, as fine as the edges allow, in the
order of their first vertices: over links that lead both ways `Reached` is an equivalence, and the components, being apart, have an order by their firsts, from which `InOrder` chooses
each by its position (`DisjointSetsAreOrdered`). `CartesianComponentsSplit` says what an edge between two factors of a product is: it enters the independent strong component without a variable, and
vertices of that component are in different factors only with edges both ways. `IndependentStrongComponentsExist`: a graph that is not empty has an independent strong component,
namely that of a vertex which the fewest vertices reach, so that half of what `isc_operands` asserts holds of every graph; that there is no second one is `NoAssertionFails`.
`MergingKeepsBothGraphs`, `DependenciesStayInside`, `ConnectionsMakeVertices`, `ReplacingKeepsColumns` and `CombinedDependenciesStayInside` say that each step of building
makes a graph of the kind `VisitorAssumption` asks for, with numbers without gaps: merging shifts the numbers of the second graph and connects nothing, and the positions at which
`combine_and_merge` and `combine_optional` add dependencies are inside the merged graph even where the place in a component is taken for the place in the graph. A step of the induction over a pattern
is proved this way; the induction is not, for the visitor is recursive, and TLC evaluates `VisitorAssumption` for the patterns of the runs.

The only assumptions are those on constants of each module (`ConstantsAssumption`, `NoneAssumption`, `FramesAssumption`, `InputsAssumption`, `VisitorAssumption`): constants have
their kinds, `None` is none of the values, and reserved ids lie below the first generated one; LIMIT and OFFSET are numbers or absent, entries have numbers of solutions, and what the visitor
makes of a SELECT has the fields of a query and sequences of expressions in them; the graphs that the visitor makes have as many variables at a vertex as its pattern, or are
expressions, and no edge leaves them. TLC evaluates each of them in the runs of its module.

Model-checked only: liveness (`UnwindingEnds`, `EveryCallReturns`), which the provers do not treat; `NoAssertionFails` and `AnswersAreTheAlgebras` of `QueryEvaluation`; and
`AnswersAreSolutions`, `AnswersAreInOrder` and `ThePageIsFull` of `SolutionSequence`. These are about what operators and expressions compute, which recurse over graphs and
expressions, or compare with reference definitions that do, and modules that reach recursive operators are out of the prover's reach. `EvaluationProofs`
and `SelectEvaluationProofs` prove what does not depend on the values of expressions.

## 6. Not modelled

* EXISTS (evaluated in place with the values of the row), sub queries, VALUES (the inline data of filters are modelled), property paths, CONSTRUCT and the other templates, and the
  caches of derived graphs in a query: the control of these is the evaluation that `QueryEvaluation` models, entered again.
* Built-in calls on strings, numbers and dates: functions of rdf4cpp without a state.
* Hypertrie and its joins, metall and what it recovers after a crash, ANTLR's generated parser, rdf4cpp: external; modelled by what the code asks of them, or left out.
* Values in which only their representation matters: collisions of the 64-bit hashes of DISTINCT and GROUP BY, NaN as a key of the node storage,
  more variables than a `char` can number, the rounding of cardinality estimates.
* The overload of `elements_of` that nests a generator directly (2.8), and the calls of `tentris.h` that keep no state (2.9).
* Memory allocation and template instantiation; the node wrapper and the logger, which have no state.

What would come next: CONSTRUCT and sub queries in `QueryEvaluation`; and two threads that evaluate one cached query, with the expression objects they share.
