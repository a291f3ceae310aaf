--------------------------- MODULE NodeTypeStorage ---------------------------
(***************************************************************************)
(* One MetallNodeTypeStorage (of the IRIs, the blank nodes, the variables, *)
(* the fallback literals or one specialized literal type) and the four     *)
(* things MetallNodeStorageBackendImpl does with it: find_or_make_id,      *)
(* find_id, find_*_backend_view and erase_*.                               *)
(*                                                                         *)
(* A value is the data of a node; an id is a pair of a class and a number, *)
(* where the class is the LiteralType of a fallback literal and is the     *)
(* same for all nodes of any other storage.  data2id is keyed by pointers  *)
(* to backends and two backends are never the same pointer, so the map     *)
(* itself does not keep values apart: it is a set of pairs here.           *)
(***************************************************************************)
EXTENDS Naturals

CONSTANTS Thread,     \* threads that use the storage
          Value,      \* the data of the nodes
          Class,      \* the id counters of the storage's IdGen
          ClassOf,    \* the counter each value takes its id from
          First,      \* min_iri_id, min_bnode_id, min_literal_id
          Width,      \* a number below Width fits into an id
          Reserved,   \* the ids of the values that are there by default
          None,       \* no id, no value, no request
          MaxCalls    \* bound: calls each thread makes

Id == Class \X (0 .. Width - 1)
Request == [call : {"make", "find"}, value : Value] \cup [call : {"view", "erase"}, id : Id]

ASSUME ConstantsAssumption ==
    /\ ClassOf \in [Value -> Class]
    /\ Width \in Nat /\ First \in 0 .. Width
    /\ MaxCalls \in Nat
    /\ Reserved \in [Id -> Value \cup {None}]
    /\ \A i \in Id : Reserved[i] # None => i[2] < First
    /\ \A i, j \in Id : Reserved[i] # None /\ Reserved[i] = Reserved[j] => i = j
    /\ None \notin Thread \cup Value \cup Id \cup Request \cup (Value \X Id)

VARIABLES id2data,        \* the value of each id, or None
          data2id,        \* the <<value, id>> of each backend
          next_id,        \* id_gen: the next number of each counter
          writer, readers,    \* mutex
          terminated,     \* std::terminate was called
          pc,             \* where each thread is
          request,        \* the call it is in
          local,          \* the <<value, id>> it inserts or erases
          reply,          \* what its last call returned
          calls           \* calls made (bounded by MaxCalls)

lock == <<writer, readers>>
tables == <<id2data, data2id, next_id>>
vars == <<id2data, data2id, next_id, writer, readers, terminated, pc, request, local, reply, calls>>

Pairs(table) == {<<table[i], i>> : i \in {j \in Id : table[j] # None}}

(* data2id.find(view) *)
Found(v) == {p \in data2id : p[1] = v}

Init ==
    /\ id2data = Reserved
    /\ data2id = Pairs(Reserved)
    /\ next_id = [c \in Class |-> First]
    /\ writer = None /\ readers = {}
    /\ terminated = FALSE
    /\ pc = [th \in Thread |-> "idle"]
    /\ request = [th \in Thread |-> None]
    /\ local = [th \in Thread |-> None]
    /\ reply = [th \in Thread |-> None]
    /\ calls = [th \in Thread |-> 0]

-----------------------------------------------------------------------------
(* mutex is a std::shared_mutex. *)

AcquireExclusive(th) ==
    /\ writer = None /\ readers = {}
    /\ writer' = th
    /\ UNCHANGED readers

ReleaseExclusive(th) ==
    /\ writer = th
    /\ writer' = None
    /\ UNCHANGED readers

AcquireShared(th) ==
    /\ writer = None
    /\ readers' = readers \cup {th}
    /\ UNCHANGED writer

ReleaseShared(th) ==
    /\ readers' = readers \ {th}
    /\ UNCHANGED writer

Goto(th, stage) ==
    /\ ~terminated
    /\ pc' = [pc EXCEPT ![th] = stage]
    /\ UNCHANGED <<request, reply, calls>>

Return(th, r) ==
    /\ ~terminated
    /\ pc' = [pc EXCEPT ![th] = "idle"]
    /\ request' = [request EXCEPT ![th] = None]
    /\ reply' = [reply EXCEPT ![th] = r]
    /\ UNCHANGED calls

-----------------------------------------------------------------------------
Begin(th) ==
    /\ ~terminated
    /\ pc[th] = "idle" /\ calls[th] < MaxCalls
    /\ \E r \in Request :
          /\ request' = [request EXCEPT ![th] = r]
          /\ pc' = [pc EXCEPT ![th] = CASE r.call \in {"make", "find"} -> "wantProbe"
                                        [] r.call = "view" -> "wantView"
                                        [] r.call = "erase" -> "wantErase"]
    /\ reply' = [reply EXCEPT ![th] = None]
    /\ calls' = [calls EXCEPT ![th] = @ + 1]
    /\ UNCHANGED <<tables, lock, terminated, local>>

(* Mutant: the first look does not wait for a writer. *)
LookUnlocked(th) ==
    /\ pc[th] = "wantProbe"
    /\ readers' = readers \cup {th} /\ UNCHANGED writer
    /\ Goto(th, "probing")
    /\ UNCHANGED <<tables, terminated, local>>

(* lookup_or_insert_impl: look with the lock shared, ... *)
LockToProbe(th) ==
    /\ pc[th] = "wantProbe"
    /\ AcquireShared(th)
    /\ Goto(th, "probing")
    /\ UNCHANGED <<tables, terminated, local>>

(* Mutant: the shared lock is kept while the exclusive one is taken. *)
ProbeUpgrading(th) ==
    /\ pc[th] = "probing"
    /\ \/ \E p \in Found(request[th].value) : Return(th, p[2]) /\ ReleaseShared(th)
       \/ /\ Found(request[th].value) = {}
          /\ \/ request[th].call = "find" /\ Return(th, None) /\ ReleaseShared(th)
             \/ request[th].call = "make" /\ Goto(th, "wantInsert") /\ UNCHANGED lock
    /\ UNCHANGED <<tables, terminated, local>>

Probe(th) ==
    /\ pc[th] = "probing"
    /\ ReleaseShared(th)
    /\ \/ \E p \in Found(request[th].value) : Return(th, p[2])
       \/ /\ Found(request[th].value) = {}
          /\ \/ request[th].call = "find" /\ Return(th, None)
             \/ request[th].call = "make" /\ Goto(th, "wantInsert")
    /\ UNCHANGED <<tables, terminated, local>>

(* ... then, to create the node, with the lock exclusive, again. *)
LockToInsert(th) ==
    /\ pc[th] = "wantInsert"
    /\ AcquireExclusive(th)
    /\ Goto(th, "checking")
    /\ UNCHANGED <<tables, terminated, local>>

FoundMeanwhile(th) ==
    /\ pc[th] = "checking"
    /\ \E p \in Found(request[th].value) : Return(th, p[2])
    /\ ReleaseExclusive(th)
    /\ UNCHANGED <<tables, terminated, local>>

(* Mutants: no second look; a counter that is compared too late. *)
InsertBlindly(th) ==
    /\ pc[th] = "checking"
    /\ LET c == ClassOf[request[th].value]
           p == <<request[th].value, <<c, next_id[c]>>>>
       IN  /\ next_id[c] < Width
           /\ next_id' = [next_id EXCEPT ![c] = @ + 1]
           /\ data2id' = data2id \cup {p}
           /\ local' = [local EXCEPT ![th] = p]
    /\ Goto(th, "linking")
    /\ UNCHANGED <<id2data, lock, terminated>>
InsertOverflowing(th) ==
    /\ pc[th] = "checking" /\ Found(request[th].value) = {}
    /\ LET c == ClassOf[request[th].value]
           p == <<request[th].value, <<c, next_id[c]>>>>
       IN  /\ next_id[c] <= Width
           /\ next_id' = [next_id EXCEPT ![c] = @ + 1]
           /\ data2id' = data2id \cup {p}
           /\ local' = [local EXCEPT ![th] = p]
    /\ Goto(th, "linking")
    /\ UNCHANGED <<id2data, lock, terminated>>

(* A new id, a new backend, and its entry in data2id. *)
Insert(th) ==
    /\ pc[th] = "checking" /\ Found(request[th].value) = {}
    /\ LET c == ClassOf[request[th].value]
           p == <<request[th].value, <<c, next_id[c]>>>>
       IN  /\ next_id[c] < Width
           /\ next_id' = [next_id EXCEPT ![c] = @ + 1]
           /\ data2id' = data2id \cup {p}
           /\ local' = [local EXCEPT ![th] = p]
    /\ Goto(th, "linking")
    /\ UNCHANGED <<id2data, lock, terminated>>

(* IdGen::next_id finds that the number does not fit: the process ends. *)
OutOfIds(th) ==
    /\ pc[th] = "checking" /\ Found(request[th].value) = {}
    /\ next_id[ClassOf[request[th].value]] >= Width
    /\ ~terminated /\ terminated' = TRUE
    /\ UNCHANGED <<tables, lock, pc, request, local, reply, calls>>

Link(th) ==
    /\ pc[th] = "linking"
    /\ id2data' = [id2data EXCEPT ![local[th][2]] = local[th][1]]
    /\ ReleaseExclusive(th)
    /\ Return(th, local[th][2])
    /\ local' = [local EXCEPT ![th] = None]
    /\ UNCHANGED <<data2id, next_id, terminated>>

-----------------------------------------------------------------------------
(* find_backend_view: id2data.at(id), which throws for an unknown id. *)
LockToView(th) ==
    /\ pc[th] = "wantView"
    /\ AcquireShared(th)
    /\ Goto(th, "viewing")
    /\ UNCHANGED <<tables, terminated, local>>

View(th) ==
    /\ pc[th] = "viewing"
    /\ ReleaseShared(th)
    /\ Return(th, id2data[request[th].id])
    /\ UNCHANGED <<tables, terminated, local>>

-----------------------------------------------------------------------------
(* erase_impl *)
LockToErase(th) ==
    /\ pc[th] = "wantErase"
    /\ AcquireExclusive(th)
    /\ Goto(th, "erasing")
    /\ UNCHANGED <<tables, terminated, local>>

EraseUnknown(th) ==
    /\ pc[th] = "erasing" /\ id2data[request[th].id] = None
    /\ ReleaseExclusive(th)
    /\ Return(th, FALSE)
    /\ UNCHANGED <<tables, terminated, local>>

Erase(th) ==
    /\ pc[th] = "erasing" /\ id2data[request[th].id] # None
    /\ \E p \in Found(id2data[request[th].id]) : local' = [local EXCEPT ![th] = p]
    /\ id2data' = [id2data EXCEPT ![request[th].id] = None]
    /\ Goto(th, "unlinking")
    /\ UNCHANGED <<data2id, next_id, lock, terminated>>

(* Mutant: the backend is destroyed and data2id keeps its entry. *)
UnlinkHalf(th) ==
    /\ pc[th] = "unlinking"
    /\ ReleaseExclusive(th)
    /\ Return(th, TRUE)
    /\ local' = [local EXCEPT ![th] = None]
    /\ UNCHANGED <<id2data, data2id, next_id, terminated>>

Unlink(th) ==
    /\ pc[th] = "unlinking"
    /\ data2id' = data2id \ {local[th]}
    /\ ReleaseExclusive(th)
    /\ Return(th, TRUE)
    /\ local' = [local EXCEPT ![th] = None]
    /\ UNCHANGED <<id2data, next_id, terminated>>

-----------------------------------------------------------------------------
Step(th) ==
    \/ LockToProbe(th) \/ Probe(th)
    \/ LockToInsert(th) \/ FoundMeanwhile(th) \/ Insert(th) \/ OutOfIds(th) \/ Link(th)
    \/ LockToView(th) \/ View(th)
    \/ LockToErase(th) \/ EraseUnknown(th) \/ Erase(th) \/ Unlink(th)

(* The program has nothing left to do, or has been terminated. *)
Stop ==
    /\ terminated \/ \A th \in Thread : pc[th] = "idle" /\ calls[th] = MaxCalls
    /\ UNCHANGED vars

Next == Stop \/ \E th \in Thread : Begin(th) \/ Step(th)

Spec == Init /\ [][Next]_vars

(* Threads run; nothing is assumed of the order the mutex is granted in. *)
FairSpec == Spec /\ \A th \in Thread : WF_vars(Step(th))

-----------------------------------------------------------------------------
Stage == {"idle", "wantProbe", "probing", "wantInsert", "checking", "linking",
          "wantView", "viewing", "wantErase", "erasing", "unlinking"}

HoldsExclusive(th) == pc[th] \in {"checking", "linking", "erasing", "unlinking"}
HoldsShared(th) == pc[th] \in {"probing", "viewing"}

(* The call each thread is in fits the stage it is at. *)
StageOK(th) ==
    \/ pc[th] = "idle" /\ request[th] = None
    \/ /\ pc[th] \in {"wantProbe", "probing"}
       /\ request[th] \in [call : {"make", "find"}, value : Value]
    \/ /\ pc[th] \in {"wantInsert", "checking", "linking"}
       /\ request[th] \in [call : {"make"}, value : Value]
    \/ /\ pc[th] \in {"wantView", "viewing"}
       /\ request[th] \in [call : {"view"}, id : Id]
    \/ /\ pc[th] \in {"wantErase", "erasing", "unlinking"}
       /\ request[th] \in [call : {"erase"}, id : Id]

(* Every variable holds values of its kind; every id fits into its bits.   *)
TypeOK ==
    /\ id2data \in [Id -> Value \cup {None}]
    /\ data2id \subseteq Value \X Id
    /\ next_id \in [Class -> First .. Width]
    /\ writer \in Thread \cup {None}
    /\ readers \subseteq Thread
    /\ terminated \in BOOLEAN
    /\ pc \in [Thread -> Stage]
    /\ request \in [Thread -> Request \cup {None}]
    /\ local \in [Thread -> (Value \X Id) \cup {None}]
    /\ calls \in [Thread -> 0 .. MaxCalls]
    /\ \A th \in Thread : StageOK(th) /\ (local[th] # None <=> pc[th] \in {"linking", "unlinking"})

(* The mutex is owned by exactly the threads inside its critical sections: *)
(* in particular a thread that creates a node gave up its shared lock      *)
(* before it asked for the exclusive one.                                  *)
LockInv ==
    /\ \A th \in Thread : writer = th <=> HoldsExclusive(th)
    /\ readers = {th \in Thread : HoldsShared(th)}
    /\ writer # None => readers = {}

(* What the two maps hold in terms of each other: a thread between its two *)
(* updates has entered data2id and not yet id2data, or left id2data and    *)
(* not yet data2id; otherwise they are inverses of each other.  Outside a  *)
(* writer's section no thread sees a half made or a half erased node.      *)
TablesInverse ==
    \A v \in Value, i \in Id :
        <<v, i>> \in data2id <=>
            \/ id2data[i] = v
            \/ \E th \in Thread : pc[th] \in {"linking", "unlinking"} /\ local[th] = <<v, i>>

(* No value has two ids, even if several threads ask for a new node of the *)
(* same value at the same time.                                            *)
OneIdPerValue ==
    \A v \in Value, i, j \in Id : <<v, i>> \in data2id /\ <<v, j>> \in data2id => i = j

(* Every call returns unless the ids ran out, whoever gets the mutex first. *)
EveryCallReturns == \A th \in Thread : pc[th] # "idle" ~> (pc[th] = "idle" \/ terminated)

-----------------------------------------------------------------------------
(* The ids of a counter below its next number are the ones it gave out. *)
CounterInv == \A v \in Value, i \in Id : <<v, i>> \in data2id => i[2] < next_id[i[1]]

(* What a thread is about to enter into id2data, or to drop from data2id. *)
LocalInv ==
    \A th \in Thread :
        /\ pc[th] = "linking" => /\ local[th][1] = request[th].value
                                 /\ id2data[local[th][2]] = None
                                 /\ local[th][2][2] + 1 = next_id[local[th][2][1]]
                                 /\ First <= local[th][2][2]
        /\ pc[th] = "unlinking" => /\ local[th][2] = request[th].id
                                   /\ id2data[local[th][2]] = None

IInv == TypeOK /\ LockInv /\ TablesInverse /\ OneIdPerValue /\ CounterInv /\ LocalInv

-----------------------------------------------------------------------------
(* The refinement: the table is id2data, in which a node under erasure is  *)
(* until its call returns; an id is used once it is in it.                 *)
TableMap == [i \in Id |-> IF writer # None /\ pc[writer] = "unlinking" /\ local[writer][2] = i
                          THEN local[writer][1]
                          ELSE id2data[i]]
UsedMap == {i \in Id : /\ i[2] < next_id[i[1]]
                       /\ ~(writer # None /\ pc[writer] = "linking" /\ local[writer][2] = i)}

Abstract == INSTANCE NodeTable WITH table <- TableMap, used <- UsedMap

(* The storage with its lock, its two maps and its double-checked insert   *)
(* behaves like one table: every call takes effect at one instant, and an  *)
(* id never stands for a second value, not even after an erase.            *)
ImplementsNodeTable == Abstract!Spec
=============================================================================
