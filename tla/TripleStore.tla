----------------------------- MODULE TripleStore -----------------------------
(***************************************************************************)
(* dice::triplestore::TripleStore as a concurrent object: its read-write   *)
(* lock (mutex_), the pending statements of the bulk inserter (inserter_), *)
(* the hypertrie, and the calls that client threads make on it.            *)
(*                                                                         *)
(* A triple is an opaque value.  A query pattern is the set of triples it  *)
(* matches, an update template maps a solution to the triples it makes (a  *)
(* template triple with an unbound part makes none).  Everything the code  *)
(* does with the lock held is one or more steps between the acquisition    *)
(* and the release, so that the interleavings are those of the code.       *)
(***************************************************************************)
EXTENDS Naturals

CONSTANTS Thread,        \* client threads
          Triple,        \* triples
          Update,        \* the SPARQL updates clients may send
          None,          \* no thread, no answer, no update
          MaxCalls       \* bound: calls each thread makes

Template == [Triple -> SUBSET Triple]
UpdateOp == [pattern : BOOLEAN, where : SUBSET Triple, remove : Template, insert : Template]

ASSUME ConstantsAssumption ==
    /\ Update \subseteq UpdateOp
    /\ None \notin Thread \cup Update
    /\ \A S \in SUBSET Triple : S # None
    /\ MaxCalls \in Nat

VARIABLES alive,      \* the object exists
          hypertrie,  \* *hypertrie_
          pending,    \* statements inside inserter_
          writer,     \* mutex_: the exclusive owner, or None
          readers,    \* mutex_: the shared owners
          pc, op,     \* where each thread is, and in which call
          goal,       \* what the call is about: triple, pattern or file
          task,       \* the update being evaluated
          seen,       \* solutions the generator yielded, or triples loaded
          answer,     \* result of the call
          toRemove, toInsert,   \* entries_to_remove, entries_to_insert
          calls,      \* calls made (bounded by MaxCalls)
          committed,  \* history: the hypertrie when a writer last left
          owed        \* history: what a call must be able to see

lock == <<writer, readers>>
store == <<alive, hypertrie, pending, committed>>
call == <<op, goal, task, calls>>
delta == <<toRemove, toInsert>>
vars == <<alive, hypertrie, pending, writer, readers, pc, op, goal, task, seen,
          answer, toRemove, toInsert, calls, committed, owed>>

Instances(template, solutions) == UNION {template[s] : s \in solutions}

(* The calls that run flush() before anything else. *)
Flushing == {"flush", "size", "query", "iterate", "update", "where", "load"}

Init ==
    /\ alive = TRUE
    /\ hypertrie = {} /\ pending = {} /\ committed = {}
    /\ writer = None /\ readers = {}
    /\ pc = [th \in Thread |-> "idle"]
    /\ op = [th \in Thread |-> "none"]
    /\ goal = [th \in Thread |-> {}]
    /\ task = [th \in Thread |-> None]
    /\ seen = [th \in Thread |-> {}]
    /\ answer = [th \in Thread |-> None]
    /\ toRemove = [th \in Thread |-> {}]
    /\ toInsert = [th \in Thread |-> {}]
    /\ calls = [th \in Thread |-> 0]
    /\ owed = [th \in Thread |-> {}]

-----------------------------------------------------------------------------
(* mutex_ is a std::shared_mutex.                                          *)

AcquireExclusive(th) ==
    /\ writer = None /\ readers = {}
    /\ writer' = th
    /\ UNCHANGED readers

ReleaseExclusive(th) ==
    /\ writer = th
    /\ writer' = None
    /\ UNCHANGED readers

AcquireShared(th) ==
    /\ writer = None
    /\ readers' = readers \cup {th}
    /\ UNCHANGED writer

ReleaseShared(th) ==
    /\ readers' = readers \ {th}
    /\ UNCHANGED writer

-----------------------------------------------------------------------------
(* Calls.  What a call owes its caller is fixed when it begins: every      *)
(* statement stored or added by then.                                      *)

Begin(th, name, stage, about, update) ==
    /\ alive /\ pc[th] = "idle" /\ calls[th] < MaxCalls
    /\ pc' = [pc EXCEPT ![th] = stage]
    /\ op' = [op EXCEPT ![th] = name]
    /\ goal' = [goal EXCEPT ![th] = about]
    /\ task' = [task EXCEPT ![th] = update]
    /\ seen' = [seen EXCEPT ![th] = {}]
    /\ answer' = [answer EXCEPT ![th] = None]
    /\ toRemove' = [toRemove EXCEPT ![th] = {}]
    /\ toInsert' = [toInsert EXCEPT ![th] = {}]
    /\ calls' = [calls EXCEPT ![th] = @ + 1]
    /\ owed' = [owed EXCEPT ![th] = hypertrie \cup pending]
    /\ UNCHANGED <<store, lock>>

BeginAdd(th) == \E t \in Triple : Begin(th, "add", "wantWrite", {t}, None)
BeginFlush(th) == Begin(th, "flush", "wantFlush", {}, None)
BeginSize(th) == Begin(th, "size", "wantFlush", Triple, None)
(* contains and match look a triple up without flushing first. *)
BeginContains(th) == \E t \in Triple : Begin(th, "contains", "wantRead", {t}, None)
(* Mutant: a query that evaluates without a flush. *)
BeginQueryUnflushed(th) == \E g \in SUBSET Triple : Begin(th, "query", "wantRead", g, None)
(* The first resumption of the lazy generator eval_sparql_query returns. *)
BeginQuery(th) == \E g \in SUBSET Triple : Begin(th, "query", "wantFlush", g, None)
BeginIterate(th) == Begin(th, "iterate", "wantFlush", Triple, None)
BeginUpdate(th) == \E u \in Update : Begin(th, "update", "wantFlush", u.where, u)
(* load_ttl of a file whose well-formed lines are the triples of f. *)
BeginLoad(th) == \E f \in SUBSET Triple : Begin(th, "load", "wantFlush", f, None)

(* The call is over; the caller may make the next one. *)
Return(th) ==
    /\ pc' = [pc EXCEPT ![th] = "idle"]
    /\ op' = [op EXCEPT ![th] = "none"]
    /\ UNCHANGED <<goal, task, calls>>

Goto(th, stage) ==
    /\ pc' = [pc EXCEPT ![th] = stage]
    /\ UNCHANGED call

-----------------------------------------------------------------------------
(* flush(): every pending statement enters the hypertrie.                  *)

LockForFlush(th) ==
    /\ pc[th] = "wantFlush"
    /\ AcquireExclusive(th)
    /\ Goto(th, "flushing")
    /\ UNCHANGED <<store, seen, answer, delta, owed>>

(* What follows the flush in each method. *)
Flushed(th) ==
    \/ op[th] = "flush" /\ Return(th) /\ UNCHANGED delta
    \/ op[th] \in {"size", "query", "iterate", "where"} /\ Goto(th, "wantRead") /\ UNCHANGED delta
    \/ op[th] = "load" /\ Goto(th, "wantWrite") /\ UNCHANGED delta
    \/ (* eval_sparql_update goes on to eval_sparql_query, which flushes again *)
       /\ op[th] = "update" /\ task[th].pattern
       /\ pc' = [pc EXCEPT ![th] = "wantFlush"]
       /\ op' = [op EXCEPT ![th] = "where"]
       /\ UNCHANGED <<goal, task, calls, delta>>
    \/ (* INSERT DATA and DELETE DATA list their entries *)
       /\ op[th] = "update" /\ ~task[th].pattern
       /\ pc' = [pc EXCEPT ![th] = "wantWrite"]
       /\ op' = [op EXCEPT ![th] = "apply"]
       /\ toRemove' = [toRemove EXCEPT ![th] = Instances(task[th].remove, task[th].where)]
       /\ toInsert' = [toInsert EXCEPT ![th] = Instances(task[th].insert, task[th].where)]
       /\ UNCHANGED <<goal, task, calls>>

(* Mutant: the bulk is cleared before it is inserted. *)
FlushLosing(th) ==
    /\ pc[th] = "flushing"
    /\ pending' = {}
    /\ ReleaseExclusive(th)
    /\ Flushed(th)
    /\ UNCHANGED <<alive, hypertrie, committed, seen, answer, owed>>

Flush(th) ==
    /\ pc[th] = "flushing"
    /\ hypertrie' = hypertrie \cup pending
    /\ pending' = {}
    /\ committed' = hypertrie'
    /\ ReleaseExclusive(th)
    /\ Flushed(th)
    /\ UNCHANGED <<alive, seen, answer, owed>>

-----------------------------------------------------------------------------
(* Reading calls hold the lock shared.  A generator holds it from its      *)
(* first resumption until it is exhausted, throws or is destroyed; an      *)
(* iterator until it is destroyed.                                         *)

(* Mutant: a reader that does not wait for the writer. *)
ReadUnlocked(th) ==
    /\ pc[th] = "wantRead"
    /\ readers' = readers \cup {th} /\ UNCHANGED writer
    /\ Goto(th, "reading")
    /\ UNCHANGED <<store, seen, answer, delta, owed>>

LockForRead(th) ==
    /\ pc[th] = "wantRead"
    /\ AcquireShared(th)
    /\ Goto(th, "reading")
    /\ UNCHANGED <<store, seen, answer, delta, owed>>

(* Mutant: the answer is returned with the lock still held. *)
ReadHolding(th) ==
    /\ pc[th] = "reading" /\ op[th] \in {"size", "contains"}
    /\ answer' = [answer EXCEPT ![th] = hypertrie \cap goal[th]]
    /\ Return(th)
    /\ UNCHANGED <<store, lock, seen, delta, owed>>

(* size, is_rdf_list, get_rdf_list; contains, match *)
Read(th) ==
    /\ pc[th] = "reading" /\ op[th] \in {"size", "contains"}
    /\ answer' = [answer EXCEPT ![th] = hypertrie \cap goal[th]]
    /\ ReleaseShared(th)
    /\ Return(th)
    /\ UNCHANGED <<store, seen, delta, owed>>

(* One solution, in any order.  An update collects what its templates make *)
(* of it.                                                                  *)
Yield(th) ==
    /\ pc[th] = "reading" /\ op[th] \in {"query", "iterate", "where"}
    /\ \E s \in (hypertrie \cap goal[th]) \ seen[th] :
          /\ seen' = [seen EXCEPT ![th] = @ \cup {s}]
          /\ IF op[th] = "where"
             THEN /\ toRemove' = [toRemove EXCEPT ![th] = @ \cup task[th].remove[s]]
                  /\ toInsert' = [toInsert EXCEPT ![th] = @ \cup task[th].insert[s]]
             ELSE UNCHANGED delta
    /\ UNCHANGED <<store, lock, pc, call, answer, owed>>

(* No solution is left. *)
Exhaust(th) ==
    /\ pc[th] = "reading" /\ op[th] \in {"query", "iterate", "where"}
    /\ hypertrie \cap goal[th] \subseteq seen[th]
    /\ answer' = [answer EXCEPT ![th] = seen[th]]
    /\ \/ op[th] = "query" /\ ReleaseShared(th) /\ Return(th)
       \/ op[th] = "iterate" /\ Goto(th, "ended") /\ UNCHANGED lock
       \/ /\ op[th] = "where" /\ ReleaseShared(th)
          /\ pc' = [pc EXCEPT ![th] = "wantWrite"]
          /\ op' = [op EXCEPT ![th] = "apply"]
          /\ UNCHANGED <<goal, task, calls>>
    /\ UNCHANGED <<store, seen, delta, owed>>

(* Mutants: the update swallows the timeout and applies what it has; the   *)
(* timed out call is never left.                                           *)
TimeoutApplying(th) ==
    /\ pc[th] = "reading" /\ op[th] \in {"query", "where"}
    /\ ReleaseShared(th)
    /\ \/ op[th] = "query" /\ Return(th)
       \/ /\ op[th] = "where"
          /\ pc' = [pc EXCEPT ![th] = "wantWrite"]
          /\ op' = [op EXCEPT ![th] = "apply"]
          /\ UNCHANGED <<goal, task, calls>>
    /\ UNCHANGED <<store, seen, answer, delta, owed>>
TimeoutStaying(th) ==
    /\ pc[th] = "reading" /\ op[th] \in {"query", "where"}
    /\ ReleaseShared(th)
    /\ Goto(th, "idle")
    /\ UNCHANGED <<store, seen, answer, delta, owed>>

(* query_timeout: the generator unwinds; an update ends with it. *)
Timeout(th) ==
    /\ pc[th] = "reading" /\ op[th] \in {"query", "where"}
    /\ ReleaseShared(th)
    /\ Return(th)
    /\ UNCHANGED <<store, seen, answer, delta, owed>>

(* Mutant: a destroyed generator leaves the store locked. *)
DropHolding(th) ==
    /\ pc[th] \in {"reading", "ended"} /\ op[th] \in {"query", "iterate"}
    /\ Return(th)
    /\ UNCHANGED <<store, lock, seen, answer, delta, owed>>

(* The caller destroys its generator or iterator. *)
Drop(th) ==
    /\ pc[th] \in {"reading", "ended"} /\ op[th] \in {"query", "iterate"}
    /\ ReleaseShared(th)
    /\ Return(th)
    /\ UNCHANGED <<store, seen, answer, delta, owed>>

-----------------------------------------------------------------------------
(* Writing calls hold the lock exclusively.                                *)

LockForWrite(th) ==
    /\ pc[th] = "wantWrite"
    /\ AcquireExclusive(th)
    /\ \/ op[th] = "add" /\ Goto(th, "adding")
       \/ op[th] = "apply" /\ Goto(th, "removing")
       \/ op[th] = "load" /\ Goto(th, "loading")
    /\ UNCHANGED <<store, seen, answer, delta, owed>>

(* A bulk inserter (external) commits what it holds once its bulk is full; *)
(* how many statements that takes is left open.                            *)
AddStatement(th) ==
    /\ pc[th] = "adding"
    /\ \/ pending' = pending \cup goal[th] /\ UNCHANGED <<hypertrie, committed>>
       \/ /\ hypertrie' = hypertrie \cup pending \cup goal[th]
          /\ pending' = {}
          /\ committed' = hypertrie'
    /\ ReleaseExclusive(th)
    /\ Return(th)
    /\ UNCHANGED <<alive, seen, answer, delta, owed>>

(* The bulk remover, then the bulk inserter.  A removed statement is owed  *)
(* to nobody any more.                                                     *)
BulkRemove(th) ==
    /\ pc[th] = "removing"
    /\ hypertrie' = hypertrie \ toRemove[th]
    /\ Goto(th, "inserting")
    /\ owed' = [t \in Thread |-> owed[t] \ toRemove[th]]
    /\ UNCHANGED <<alive, pending, committed, lock, seen, answer, delta>>

BulkInsert(th) ==
    /\ pc[th] = "inserting"
    /\ hypertrie' = hypertrie \cup toInsert[th]
    /\ committed' = hypertrie'
    /\ ReleaseExclusive(th)
    /\ Return(th)
    /\ UNCHANGED <<alive, pending, seen, answer, delta, owed>>

(* load_ttl commits the file piecemeal, in bulks, under one lock. *)
LoadBulk(th) ==
    /\ pc[th] = "loading"
    /\ \E bulk \in SUBSET (goal[th] \ seen[th]) \ {{}} :
          /\ hypertrie' = hypertrie \cup bulk
          /\ seen' = [seen EXCEPT ![th] = @ \cup bulk]
    /\ UNCHANGED <<alive, pending, committed, lock, pc, call, answer, delta, owed>>

LoadDone(th) ==
    /\ pc[th] = "loading" /\ goal[th] \subseteq seen[th]
    /\ committed' = hypertrie
    /\ ReleaseExclusive(th)
    /\ Return(th)
    /\ UNCHANGED <<alive, hypertrie, pending, seen, answer, delta, owed>>

-----------------------------------------------------------------------------
(* ~TripleStore: only when no call is running. *)
Destruct ==
    /\ alive /\ \A th \in Thread : pc[th] = "idle"
    /\ alive' = FALSE
    /\ hypertrie' = hypertrie \cup pending
    /\ pending' = {}
    /\ committed' = hypertrie'
    /\ UNCHANGED <<lock, pc, call, seen, answer, delta, owed>>

(* Nothing happens to a destructed store. *)
Gone == ~alive /\ UNCHANGED vars

Start(th) ==
    \/ BeginAdd(th) \/ BeginFlush(th) \/ BeginSize(th) \/ BeginContains(th)
    \/ BeginQuery(th) \/ BeginIterate(th) \/ BeginUpdate(th) \/ BeginLoad(th)

Step(th) ==
    \/ LockForFlush(th) \/ Flush(th)
    \/ LockForRead(th) \/ Read(th) \/ Yield(th) \/ Exhaust(th) \/ Timeout(th) \/ Drop(th)
    \/ LockForWrite(th) \/ AddStatement(th) \/ BulkRemove(th) \/ BulkInsert(th)
    \/ LoadBulk(th) \/ LoadDone(th)

Next == Destruct \/ Gone \/ \E th \in Thread : Start(th) \/ Step(th)

Spec == Init /\ [][Next]_vars

(* The operating system runs every thread, and a client drains or destroys *)
(* the generators and iterators it opens.  Nothing is assumed of the order *)
(* in which the lock is granted.                                           *)
FairSpec == Spec /\ \A th \in Thread : WF_vars(Step(th))

-----------------------------------------------------------------------------
(* What the lock, the flushes and the lazy evaluation must add up to.      *)

Stage == {"idle", "wantFlush", "flushing", "wantRead", "reading", "ended",
          "wantWrite", "adding", "removing", "inserting", "loading"}
Method == {"none", "add", "flush", "size", "contains", "query", "iterate",
           "update", "where", "apply", "load"}

HoldsExclusive(th) == pc[th] \in {"flushing", "adding", "removing", "inserting", "loading"}
HoldsShared(th) == pc[th] \in {"reading", "ended"}

(* The stages each method goes through. *)
StageOK(th) ==
    \/ op[th] = "none" /\ pc[th] = "idle"
    \/ op[th] = "add" /\ pc[th] \in {"wantWrite", "adding"}
    \/ op[th] \in {"flush", "update"} /\ pc[th] \in {"wantFlush", "flushing"}
    \/ op[th] \in {"size", "query", "where"} /\ pc[th] \in {"wantFlush", "flushing", "wantRead", "reading"}
    \/ op[th] = "iterate" /\ pc[th] \in {"wantFlush", "flushing", "wantRead", "reading", "ended"}
    \/ op[th] = "contains" /\ pc[th] \in {"wantRead", "reading"}
    \/ op[th] = "load" /\ pc[th] \in {"wantFlush", "flushing", "wantWrite", "loading"}
    \/ op[th] = "apply" /\ pc[th] \in {"wantWrite", "removing", "inserting"}

(* Every variable holds values of its kind, every thread is at a stage of  *)
(* the method it is in, and an update under evaluation is there.           *)
TypeOK ==
    /\ alive \in BOOLEAN
    /\ hypertrie \subseteq Triple /\ pending \subseteq Triple /\ committed \subseteq Triple
    /\ writer \in Thread \cup {None}
    /\ readers \subseteq Thread
    /\ pc \in [Thread -> Stage]
    /\ op \in [Thread -> Method]
    /\ goal \in [Thread -> SUBSET Triple]
    /\ task \in [Thread -> Update \cup {None}]
    /\ seen \in [Thread -> SUBSET Triple]
    /\ answer \in [Thread -> {None} \cup SUBSET Triple]
    /\ toRemove \in [Thread -> SUBSET Triple]
    /\ toInsert \in [Thread -> SUBSET Triple]
    /\ calls \in [Thread -> 0 .. MaxCalls]
    /\ owed \in [Thread -> SUBSET Triple]
    /\ \A th \in Thread :
          /\ StageOK(th)
          /\ op[th] \in {"update", "where", "apply"} => task[th] \in Update

(* mutex_ is owned by exactly the threads whose control is inside a        *)
(* critical section: no path through flush, a generator's end, a timeout,  *)
(* a destroyed generator or an update leaves it locked or unlocks it       *)
(* early, and a writer is alone.                                           *)
LockInv ==
    /\ \A th \in Thread : writer = th <=> HoldsExclusive(th)
    /\ readers = {th \in Thread : HoldsShared(th)}
    /\ writer # None => readers = {}

(* A flushing call that has got to reading, and an update about to apply   *)
(* its entries, sees every statement that was stored or added when the     *)
(* call began, except those an update removed in the meantime: the flush   *)
(* is not undone by whatever happens between it and the second lock.       *)
FreshRead ==
    \A th \in Thread :
        (pc[th] \in {"reading", "ended"} /\ op[th] \in Flushing) \/ op[th] = "apply"
            => owed[th] \subseteq hypertrie

(* An update holds the entries of its whole solution set, taken from one   *)
(* state of the hypertrie, when it comes to the write lock; a generator    *)
(* that threw leaves nothing behind to apply.                              *)
WholeUpdate ==
    \A th \in Thread : op[th] = "apply" =>
        LET sources == IF task[th].pattern THEN answer[th] ELSE task[th].where
        IN  /\ sources # None
            /\ toRemove[th] = Instances(task[th].remove, sources)
            /\ toInsert[th] = Instances(task[th].insert, sources)

(* Every call comes back, with no assumption on who gets the lock first:   *)
(* no cycle of waiting, and no lock left behind.                           *)
EveryCallReturns == \A th \in Thread : pc[th] # "idle" ~> pc[th] = "idle"

-----------------------------------------------------------------------------
(* Why these hold: the parts of the inductive invariant.                   *)

(* A generator or a load in progress, and an update between its two locks. *)
GeneratorInv ==
    \A th \in Thread :
        /\ op[th] \in {"query", "iterate", "where", "size", "contains", "update", "load"} /\ pc[th] # "ended"
              => answer[th] = None
        /\ pc[th] = "reading" => seen[th] \subseteq hypertrie \cap goal[th]
        /\ pc[th] \in {"wantFlush", "flushing", "wantRead", "wantWrite"} /\ op[th] # "apply" => seen[th] = {}
        /\ op[th] = "where" => /\ toRemove[th] = Instances(task[th].remove, seen[th])
                               /\ toInsert[th] = Instances(task[th].insert, seen[th])
        /\ op[th] = "where" => task[th].pattern
        /\ op[th] = "update" => toRemove[th] = {} /\ toInsert[th] = {}

(* A statement is owed only while it is stored or pending. *)
OwedInv ==
    \A th \in Thread :
        /\ owed[th] \subseteq hypertrie \cup pending
        /\ op[th] \in {"where", "apply"}
            \/ (op[th] \in Flushing /\ pc[th] \in {"wantRead", "reading", "ended", "wantWrite", "loading"})
              => owed[th] \subseteq hypertrie

(* The hypertrie differs from what the last writer left only inside a      *)
(* write section, by what that section has done so far.                    *)
CommittedInv ==
    /\ (\A th \in Thread : pc[th] \notin {"inserting", "loading"}) => hypertrie = committed
    /\ \A th \in Thread :
          /\ pc[th] = "inserting" => hypertrie = committed \ toRemove[th]
          /\ pc[th] = "loading" => seen[th] \subseteq goal[th] /\ hypertrie = committed \cup seen[th]

IInv == TypeOK /\ LockInv /\ GeneratorInv /\ WholeUpdate /\ OwedInv /\ CommittedInv

-----------------------------------------------------------------------------
(* The refinement: the store is what the last writer left, a view is the   *)
(* hypertrie as long as the lock is held shared, and the nested calls of   *)
(* an update are one update.                                               *)
KindOf(name) == IF name \in {"where", "apply"} THEN "update" ELSE name

KindMap == [th \in Thread |-> KindOf(op[th])]
ViewMap == [th \in Thread |-> IF th \in readers THEN hypertrie ELSE None]

Abstract == INSTANCE SnapshotStore WITH
    store <- committed, buffer <- pending, kind <- KindMap, view <- ViewMap

(* The store with its lock, flushes and lazy generators behaves like one   *)
(* whose every call reads or changes a single state.                       *)
ImplementsSnapshotStore == Abstract!Spec
=============================================================================
