---------------------------- MODULE SnapshotStore ----------------------------
(***************************************************************************)
(* What a triple store promises to its callers, without locks, phases or   *)
(* lazy evaluation.                                                        *)
(*                                                                         *)
(* A call first says what it wants (Ask).  A reading call then opens a     *)
(* view, which is the whole store at one instant, and later answers with   *)
(* exactly the part of that view it asked for.  A writing call changes the *)
(* store in one step, and only while nobody holds a view.  An update with  *)
(* a WHERE clause is both: it applies the template to the complete answer  *)
(* of one view.  A statement that was added may stay in the buffer until   *)
(* it is needed.                                                           *)
(***************************************************************************)
CONSTANTS Thread,   \* the calling threads
          Triple,   \* the triples
          Update,   \* the SPARQL updates
          None      \* stands for "no view", "no answer", "no update"

VARIABLES store,    \* the triples a view opened now would show
          buffer,   \* statements added, not yet in the store
          kind,     \* the kind of call each thread is in
          goal,     \* the triples each call is about
          task,     \* the update each thread evaluates
          view,     \* the triples each reading call looks at
          answer    \* what each call answered

avars == <<store, buffer, kind, goal, task, view, answer>>

Readers == {"size", "contains", "query", "iterate"}
Writers == {"add", "load"}

Instances(template, solutions) == UNION {template[s] : s \in solutions}

(* The solutions an update instantiates its templates with. *)
Sources(u, ans) == IF u.pattern THEN ans ELSE u.where

Quiet == \A th \in Thread : view[th] = None

-----------------------------------------------------------------------------
Init ==
    /\ store = {}
    /\ buffer = {}
    /\ kind = [th \in Thread |-> "none"]
    /\ goal = [th \in Thread |-> {}]
    /\ task = [th \in Thread |-> None]
    /\ view = [th \in Thread |-> None]
    /\ answer = [th \in Thread |-> None]

Ask(th, k, g, u) ==
    /\ kind[th] = "none"
    /\ kind' = [kind EXCEPT ![th] = k]
    /\ goal' = [goal EXCEPT ![th] = g]
    /\ task' = [task EXCEPT ![th] = u]
    /\ answer' = [answer EXCEPT ![th] = None]
    /\ UNCHANGED <<store, buffer, view>>

(* A call that ends without an effect: a timeout, or a generator or        *)
(* iterator destroyed by its caller.                                       *)
GiveUp(th) ==
    /\ kind[th] \in {"query", "iterate", "update"}
    /\ kind' = [kind EXCEPT ![th] = "none"]
    /\ view' = [view EXCEPT ![th] = None]
    /\ UNCHANGED <<store, buffer, goal, task, answer>>

(* The buffered statements enter the store, together. *)
Sync ==
    /\ Quiet
    /\ store' = store \cup buffer
    /\ buffer' = {}
    /\ UNCHANGED <<goal, task, view, answer>>

(* The explicit flush is the one call whose return is the Sync itself. *)
SyncFor(th) ==
    /\ Sync
    /\ \/ kind' = kind
       \/ kind[th] = "flush" /\ kind' = [kind EXCEPT ![th] = "none"]

Open(th) ==
    /\ kind[th] \in Readers \cup {"update"}
    /\ view[th] = None
    /\ answer[th] = None
    /\ view' = [view EXCEPT ![th] = store]
    /\ UNCHANGED <<store, buffer, kind, goal, task, answer>>

(* The answer is what the view holds of the goal; an iterator answers and  *)
(* keeps its view, every other call gives it up with the answer.           *)
Answer(th) ==
    /\ view[th] # None
    /\ answer[th] = None
    /\ answer' = [answer EXCEPT ![th] = view[th] \cap goal[th]]
    /\ \/ kind[th] = "iterate" /\ UNCHANGED <<kind, view>>
       \/ kind[th] = "update" /\ view' = [view EXCEPT ![th] = None] /\ kind' = kind
       \/ /\ kind[th] \in Readers \ {"iterate"}
          /\ view' = [view EXCEPT ![th] = None]
          /\ kind' = [kind EXCEPT ![th] = "none"]
    /\ UNCHANGED <<store, buffer, goal, task>>

Add(th) ==
    /\ kind[th] = "add"
    /\ \/ buffer' = buffer \cup goal[th] /\ UNCHANGED store
       \/ Quiet /\ store' = store \cup buffer \cup goal[th] /\ buffer' = {}
    /\ kind' = [kind EXCEPT ![th] = "none"]
    /\ UNCHANGED <<goal, task, view, answer>>

Load(th) ==
    /\ kind[th] = "load"
    /\ Quiet
    /\ store' = store \cup goal[th]
    /\ kind' = [kind EXCEPT ![th] = "none"]
    /\ UNCHANGED <<buffer, goal, task, view, answer>>

(* Deletion before insertion, both in one step. *)
Apply(th) ==
    /\ kind[th] = "update"
    /\ task[th].pattern => answer[th] # None
    /\ Quiet
    /\ LET sources == Sources(task[th], answer[th])
       IN  store' = (store \ Instances(task[th].remove, sources))
                        \cup Instances(task[th].insert, sources)
    /\ kind' = [kind EXCEPT ![th] = "none"]
    /\ UNCHANGED <<buffer, goal, task, view, answer>>

-----------------------------------------------------------------------------
Call(th) ==
    \/ \E k \in Readers \cup Writers \cup {"flush", "update"},
          g \in SUBSET Triple, u \in Update \cup {None} : Ask(th, k, g, u)
    \/ GiveUp(th) \/ SyncFor(th) \/ Open(th) \/ Answer(th)
    \/ Add(th) \/ Load(th) \/ Apply(th)

Close == Sync /\ kind' = kind

Next == Close \/ \E th \in Thread : Call(th)

Spec == Init /\ [][Next]_avars
=============================================================================
