---------------------------- MODULE CInterfaceProofs ----------------------------
(***************************************************************************)
(* Theorems about CInterface, for any number of clients, triples and texts *)
(* of messages: what is kept of the triples, and who destroys a handle and *)
(* gives back its lock.                                                    *)
(***************************************************************************)
EXTENDS CInterface, SequenceTheorems, FiniteSetTheorems, TLAPS

-----------------------------------------------------------------------------
(* The store and the file.  A store that is open persistently has all of   *)
(* its objects, nothing is left to flush in a closed one, and what the bulk *)
(* inserter holds is known to the node storage.  While an update is between *)
(* its flush and its exclusive section, the bulk inserter holds only what  *)
(* others have added since.                                                *)
StorageTypes ==
    /\ store \in Kinds \cup {"closed"} /\ named \subseteq Range(Order)
    /\ trie \in [Kinds -> SUBSET Triples] /\ known \in [Kinds -> SUBSET Triples]
    /\ promised \in [Kinds -> SUBSET Triples] /\ possible \in [Kinds -> SUBSET Triples]
    /\ inserter \subseteq Triples /\ racing \in [Clients -> SUBSET Triples]
StorageInv ==
    /\ StorageTypes
    /\ NothingIsLost
    /\ NothingComesBack
    /\ PersistentObjectsAreWhole
    /\ store = "closed" => inserter = {}
    /\ store = "persistent" => named = Range(Order)
    /\ store # "closed" => inserter \subseteq known[store]
BetweenSections(c) == call[c] \in {"where", "matching", "applying"}
RacingInv == \A c \in Clients : BetweenSections(c) => inserter \subseteq racing[c]

(* The first n objects that are found or constructed. *)
LEMMA ObjectsInOrder ==
    /\ Range(Order) = {"context", "hypertrie", "node-storage"}
    /\ \A n \in 0 .. Len(Order) :
           /\ Constructed(n) \subseteq Range(Order)
           /\ "hypertrie" \in Constructed(n) => "context" \in Constructed(n)
           /\ n = Len(Order) => Constructed(n) = Range(Order)
  <1>1. Order \in Seq({"context", "hypertrie", "node-storage"}) /\ Len(Order) = 3
    BY DEF Order
  <1>2. Order[1] = "context" /\ Order[2] = "hypertrie" /\ Order[3] = "node-storage"
    BY DEF Order
  <1>3. Range(Order) = {"context", "hypertrie", "node-storage"}
    BY <1>1, <1>2 DEF Range
  <1>4. ASSUME NEW n \in 0 .. 3
        PROVE  Constructed(n) = {Order[i] : i \in 1 .. n}
    <2> DEFINE s == SubSeq(Order, 1, n)
    <2>1. Len(s) = n /\ \A i \in 1 .. n : s[i] = Order[i]
      BY <1>1, SubSeqProperties
    <2>2. DOMAIN s = 1 .. n
      BY <1>1, <2>1, SubSeqProperties, LenProperties
    <2> QED
      BY <2>1, <2>2 DEF Constructed, Range
  <1> QED
    BY <1>1, <1>2, <1>3, <1>4

LEMMA ApplyKeeps ==
    ASSUME StorageInv, store # "closed", NEW c \in Clients,
           NEW removed \in SUBSET Triples, NEW inserted \in SUBSET Triples, Apply(c, removed, inserted),
           removed = {} \/ inserter \subseteq racing[c]
    PROVE  StorageInv'
  <1>1. store \in Kinds /\ UNCHANGED <<store, named, inserter>>
    BY DEF Apply, StorageInv, StorageTypes
  <1>2. StorageTypes'
    BY DEF Apply, Recorded, StorageInv, StorageTypes
  <1>3. NothingIsLost'
    BY <1>1 DEF Apply, Recorded, NothingIsLost, Contents, StorageInv, StorageTypes
  <1>4. NothingComesBack'
    BY <1>1 DEF Apply, Recorded, NothingComesBack, Contents, StorageInv, StorageTypes
  <1>5. PersistentObjectsAreWhole'
    BY <1>1 DEF Apply, PersistentObjectsAreWhole, StorageInv, StorageTypes, Kinds
  <1>6. inserter' \subseteq known'[store']
    BY <1>1 DEF Apply, StorageInv, StorageTypes
  <1> QED
    BY <1>1, <1>2, <1>3, <1>4, <1>5, <1>6 DEF StorageInv

LEMMA FlushKeeps ==
    ASSUME StorageInv, store # "closed", NEW c \in Clients, Flush(c)
    PROVE  StorageInv'
  <1>1. /\ store \in Kinds /\ UNCHANGED <<store, named, known, promised, possible, racing>>
        /\ inserter' = {} /\ trie' = [trie EXCEPT ![store] = @ \cup inserter]
    BY DEF Flush, history, StorageInv, StorageTypes
  <1>2. StorageTypes'
    BY <1>1 DEF StorageInv, StorageTypes
  <1>3. \A k \in Kinds : Contents(k)' = Contents(k)
    BY <1>1 DEF Contents, StorageInv, StorageTypes
  <1>4. NothingIsLost' /\ NothingComesBack'
    BY <1>1, <1>3 DEF StorageInv, NothingIsLost, NothingComesBack
  <1>5. PersistentObjectsAreWhole'
    BY <1>1 DEF PersistentObjectsAreWhole, StorageInv, StorageTypes, Kinds
  <1> QED
    BY <1>1, <1>2, <1>4, <1>5 DEF StorageInv

LEMMA AddStatementKeeps ==
    ASSUME StorageInv, store # "closed", NEW c \in Clients, AddStatement(c)
    PROVE  StorageInv'
  <1> PICK t \in Triples :
          /\ \/ inserter' = inserter \cup {t} /\ UNCHANGED trie
             \/ inserter' = {} /\ trie' = [trie EXCEPT ![store] = @ \cup inserter \cup {t}]
          /\ known' = [known EXCEPT ![store] = @ \cup {t}]
          /\ promised' = [promised EXCEPT ![store] = @ \cup {t}]
          /\ possible' = [possible EXCEPT ![store] = @ \cup {t}]
          /\ racing' = [d \in Clients |-> IF Updates(d) THEN racing[d] \cup {t} ELSE racing[d]]
    BY DEF AddStatement
  <1>1. store \in Kinds /\ UNCHANGED <<store, named>>
    BY DEF AddStatement, StorageInv, StorageTypes
  <1>2. StorageTypes'
    BY <1>1 DEF StorageInv, StorageTypes
  <1>3. Contents(store)' = Contents(store) \cup {t} /\ \A k \in Kinds \ {store} : Contents(k)' = Contents(k)
    BY <1>1 DEF Contents, StorageInv, StorageTypes
  <1>4. NothingIsLost' /\ NothingComesBack'
    BY <1>1, <1>3 DEF NothingIsLost, NothingComesBack, StorageInv, StorageTypes
  <1>5. PersistentObjectsAreWhole'
    BY <1>1 DEF PersistentObjectsAreWhole, StorageInv, StorageTypes, Kinds
  <1>6. inserter' \subseteq known'[store']
    BY <1>1 DEF StorageInv, StorageTypes
  <1> QED
    BY <1>1, <1>2, <1>4, <1>5, <1>6 DEF StorageInv

LEMMA OpeningKeeps ==
    ASSUME StorageInv, NEW c \in Clients, InitInMemory(c) \/ FindOrConstructPersistent(c)
    PROVE  StorageInv'
  <1>1. CASE InitInMemory(c)
    BY <1>1 DEF InitInMemory, history, StorageInv, StorageTypes, NothingIsLost, NothingComesBack, Contents,
                PersistentObjectsAreWhole, Kinds
  <1>2. CASE FindOrConstructPersistent(c)
    <2>1. /\ store = "closed" /\ inserter = {} /\ UNCHANGED <<trie, known, inserter, promised, possible, racing>>
          /\ store' \in {"closed", "persistent"}
      BY <1>2 DEF FindOrConstructPersistent, history, StorageInv
    <2>2. PICK n \in 0 .. Len(Order) : /\ named' = named \cup Constructed(n)
                                       /\ n # Len(Order) => store' = store
      BY <1>2 DEF FindOrConstructPersistent
    <2>3. named' \subseteq Range(Order) /\ (store' = "persistent" => named' = Range(Order))
      BY <2>1, <2>2, ObjectsInOrder DEF StorageInv, StorageTypes
    <2>4. PersistentObjectsAreWhole'
      BY <2>1, <2>2, <2>3, ObjectsInOrder DEF StorageInv, PersistentObjectsAreWhole, StorageTypes
    <2>5. NothingIsLost' /\ NothingComesBack'
      BY <2>1 DEF StorageInv, NothingIsLost, NothingComesBack, Contents
    <2> QED
      BY <2>1, <2>3, <2>4, <2>5 DEF StorageInv, StorageTypes, Kinds
  <1> QED
    BY <1>1, <1>2

LEMMA DestroyKeeps ==
    ASSUME StorageInv, NEW c \in Clients, Destroy(c)
    PROVE  StorageInv'
  <1>1. store \in Kinds /\ store' = "closed" /\ inserter' = {} /\ named' = named
    BY DEF Destroy, StorageInv, StorageTypes
  <1>2. CASE store = "in_memory"
    BY <1>1, <1>2 DEF Destroy, StorageInv, StorageTypes, NothingIsLost, NothingComesBack, Contents,
                      PersistentObjectsAreWhole, Kinds
  <1>3. CASE store = "persistent"
    <2>1. /\ trie' = [trie EXCEPT !["persistent"] = @ \cup inserter]
          /\ known' = known /\ promised' = promised /\ possible' = possible /\ racing' = racing
      BY <1>3 DEF Destroy, StorageInv, StorageTypes
    <2> QED
      BY <1>1, <1>3, <2>1 DEF StorageInv, StorageTypes, NothingIsLost, NothingComesBack, Contents,
                              PersistentObjectsAreWhole, Kinds
  <1> QED
    BY <1>1, <1>2, <1>3 DEF Kinds

(* A part that is left behind has no triples: they were lost only if the   *)
(* whole store was there, and then all of it is destroyed.                 *)
LEMMA DestroyPersistentKeeps ==
    ASSUME StorageInv, NEW c \in Clients, DestroyPersistent(c)
    PROVE  StorageInv'
  <1>1. /\ store # "persistent" /\ UNCHANGED <<store, inserter>> /\ named' = named \ Destroyed
        /\ trie' = [trie EXCEPT !["persistent"] = IF "hypertrie" \in Destroyed THEN {} ELSE @]
        /\ known' = [known EXCEPT !["persistent"] = IF "node-storage" \in Destroyed THEN {} ELSE @]
        /\ promised' = IF AllDestroyed THEN [promised EXCEPT !["persistent"] = {}] ELSE promised
        /\ possible' = IF AllDestroyed THEN [possible EXCEPT !["persistent"] = {}] ELSE possible
        /\ racing' = racing
    BY DEF DestroyPersistent
  <1>2. /\ Destroyed \in {{}, {"hypertrie"}, {"hypertrie", "context", "node-storage"}}
        /\ Destroyed = {} => "hypertrie" \notin named
        /\ Destroyed = {"hypertrie"} => "context" \notin named
        /\ AllDestroyed => Destroyed = {"hypertrie", "context", "node-storage"}
    BY ObjectsInOrder DEF Destroyed, AllDestroyed
  <1>3. ~AllDestroyed => trie["persistent"] = {} /\ promised["persistent"] = {}
    BY <1>1, ObjectsInOrder DEF AllDestroyed, StorageInv, StorageTypes, PersistentObjectsAreWhole, NothingIsLost,
                                Contents, Kinds
  <1>4. StorageTypes'
    BY <1>1 DEF StorageInv, StorageTypes, Kinds
  <1>5. trie'["persistent"] = {} /\ promised'["persistent"] = {}
    BY <1>1, <1>2, <1>3 DEF StorageInv, StorageTypes, Kinds
  <1>6. NothingIsLost' /\ NothingComesBack'
    BY <1>1, <1>5 DEF StorageInv, StorageTypes, NothingIsLost, NothingComesBack, Contents, Kinds
  <1>7. PersistentObjectsAreWhole'
    BY <1>1, <1>2, <1>5 DEF StorageInv, StorageTypes, PersistentObjectsAreWhole, Kinds
  <1>8. store # "closed" => inserter' \subseteq known'[store']
    BY <1>1 DEF StorageInv, StorageTypes, Kinds
  <1> QED
    BY <1>1, <1>4, <1>6, <1>7, <1>8 DEF StorageInv

-----------------------------------------------------------------------------
(* The clients.  Nobody uses a closed store; a client that evaluates has a *)
(* query; and the lock is kept shared only by owners of handles that wait  *)
(* for nothing.                                                            *)
States == {"prepared", "first", "suspended", "ended", "failed"}
Queries == [kind : {"query"}, state : States, end_time : {"deadline", "max"}, counter : Nat, late : Nat]
Iterators == [kind : {"iterator"}, first : BOOLEAN, at : Triples \cup {None}, todo : SUBSET Triples, given : Seq(Triples)]
Calls == Sections \cup {None}

SessionTypes ==
    /\ readers \subseteq Clients
    /\ call \in [Clients -> Calls]
    /\ handle \in [Clients -> {NoHandle} \cup Queries \cup Iterators]
    /\ holds \in [Clients -> BOOLEAN] /\ freed \in [Clients -> Nat] /\ passed \in [Clients -> BOOLEAN]
Locked(c) == handle[c] \in Iterators \/ (handle[c] \in Queries /\ handle[c].state \in {"first", "suspended"})
Evaluates(c) == call[c] \in {"open", "opening", "evaluate"}
SessionInv ==
    /\ SessionTypes
    /\ HandlesAreDestroyedOnce
    /\ store = "closed" => Unused
    /\ \A c \in Clients : Evaluates(c) => holds[c] /\ handle[c] \in Queries
    /\ \A c \in readers : holds[c] /\ call[c] \in {None, "evaluate"} /\ Locked(c)

(* No evaluation has an end time. *)
LEMMA NoTimeOut == \A c \in Clients : ~HasTimeOut(c) /\ ~MustStop(c) /\ "timeout" \notin Exceptions(c)
  BY DEF MustStop, HasTimeOut, EndTime, Exceptions

(* The sections of a call, in their order. *)
LEMMA SectionsOfCalls ==
    /\ Waits = {"load", "size", "update", "where", "iterate", "open", "add", "loading", "applying"}
    /\ Sections = Waits \cup {"counting", "matching", "beginning", "opening", "evaluate"}
    /\ AfterFlush["load"] = {"loading"} /\ AfterFlush["size"] = {"counting"}
    /\ AfterFlush["update"] = {"applying", "where"} /\ AfterFlush["where"] = {"matching"}
    /\ AfterFlush["iterate"] = {"beginning"} /\ AfterFlush["open"] = {"opening"}
  BY DEF Waits, Sections, AfterFlush

(* A step that leaves the clients alone. *)
LEMMA OthersKeep ==
    ASSUME SessionInv, UNCHANGED <<readers, call, handles>>, store' = "closed" => Unused
    PROVE  SessionInv'
  BY DEF SessionInv, SessionTypes, HandlesAreDestroyedOnce, Unused, Idle, Locked, Evaluates, handles

(* A client begins a call that waits, or a call that waited returns, with  *)
(* nothing else about it changed.                                          *)
LEMMA WaitingKeeps ==
    ASSUME SessionInv, store # "closed", store' = store, UNCHANGED <<readers, handles>>,
           NEW c \in Clients, ~Evaluates(c), c \notin readers,
           NEW op \in (Sections \cup {None}) \ {"open", "opening", "evaluate"}, call' = [call EXCEPT ![c] = op]
    PROVE  SessionInv'
  <1>1. SessionTypes'
    BY DEF SessionInv, SessionTypes, Calls, handles
  <1>2. \A d \in Clients : ~Evaluates(d)' \/ (d # c /\ Evaluates(d))
    BY DEF SessionInv, SessionTypes, Evaluates
  <1>3. \A d \in readers : d # c
    OBVIOUS
  <1> QED
    BY <1>1, <1>2, <1>3 DEF SessionInv, SessionTypes, HandlesAreDestroyedOnce, Locked, Evaluates, handles

(* A query that c owns is evaluated, or its evaluation stops. *)
LEMMA EvaluationKeeps ==
    ASSUME SessionInv, store # "closed", store' = store, UNCHANGED <<holds, freed, passed>>,
           NEW c \in Clients, holds[c], handle[c] \in Queries,
           NEW op \in {"open", "opening", "evaluate", None}, call' = [call EXCEPT ![c] = op],
           NEW query \in Queries, handle' = [handle EXCEPT ![c] = query],
           readers' \in {readers, readers \cup {c}, readers \ {c}},
           c \in readers' => op \in {"evaluate", None} /\ query.state \in {"first", "suspended"}
    PROVE  SessionInv'
  <1>1. SessionTypes'
    BY SectionsOfCalls DEF SessionInv, SessionTypes, Calls
  <1>2. HandlesAreDestroyedOnce'
    BY DEF SessionInv, HandlesAreDestroyedOnce
  <1>3. \A d \in Clients : Evaluates(d)' => holds'[d] /\ handle'[d] \in Queries
    BY DEF SessionInv, SessionTypes, Evaluates
  <1>4. \A d \in readers' : holds'[d] /\ call'[d] \in {None, "evaluate"} /\ Locked(d)'
    BY DEF SessionInv, SessionTypes, Locked
  <1> QED
    BY <1>1, <1>2, <1>3, <1>4 DEF SessionInv

LEMMA EvaluationStepsKeep ==
    ASSUME SessionInv, NEW c \in Clients,
           \/ Next1(c) \/ (Flush(c) /\ call[c] = "open") \/ Open(c) \/ NextN(c)
           \/ Work(c) \/ Yielded(c) \/ Ended(c) \/ Raised(c)
    PROVE  SessionInv'
  <1> DEFINE InState(state) == [handle[c] EXCEPT !.state = state]
  <1>1. holds[c] /\ handle[c] \in Queries
    BY NoneAssumption DEF SessionInv, SessionTypes, Evaluates, Next1, Flush, Open, NextN, Work, Yielded, Ended, Raised,
                          IsQuery, NoHandle, Queries, Iterators
  <1>2. store # "closed"
    BY <1>1 DEF SessionInv, Unused, Idle
  <1>3. \A state \in States : InState(state) \in Queries /\ InState(state).state = state
    BY <1>1 DEF Queries
  <1> HIDE DEF InState
  <1>4. CASE Next1(c)
    <2>1. c \notin readers
      BY <1>4 DEF SessionInv, Next1, IsQuery, Locked, Queries, Iterators
    <2>2. handle' = [handle EXCEPT ![c] = handle[c]]
      BY <1>4 DEF Next1, handles, SessionInv, SessionTypes
    <2> QED
      BY <1>1, <1>2, <1>4, <2>1, <2>2, EvaluationKeeps DEF Next1, handles, storage
  <1>10. CASE Flush(c) /\ call[c] = "open"
    <2>1. c \notin readers
      BY <1>10, NoneAssumption DEF SessionInv
    <2>2. handle' = [handle EXCEPT ![c] = handle[c]]
      BY <1>10 DEF Flush, handles, SessionInv, SessionTypes
    <2>3. call' = [call EXCEPT ![c] = "opening"]
      BY <1>10, SectionsOfCalls DEF Flush
    <2>4. readers' = readers /\ store' = store /\ UNCHANGED <<holds, freed, passed>>
      BY <1>10 DEF Flush, handles
    <2> QED
      BY <1>1, <1>2, <2>1, <2>2, <2>3, <2>4, EvaluationKeeps
  <1>5. CASE Open(c)
    <2>1. handle' = [handle EXCEPT ![c] = InState("first")]
      BY <1>5 DEF Open, InState
    <2>2. readers' = readers \cup {c} /\ store' = store
      BY <1>5 DEF Open, storage
    <2>3. call' = [call EXCEPT ![c] = "evaluate"] /\ UNCHANGED <<holds, freed, passed>>
      BY <1>5 DEF Open
    <2> QED
      BY <1>1, <1>2, <1>3, <2>1, <2>2, <2>3, EvaluationKeeps DEF States
  <1>6. CASE NextN(c)
    <2>1. handle' = [handle EXCEPT ![c] = handle[c]]
      BY <1>6 DEF NextN, handles, SessionInv, SessionTypes
    <2>2. handle[c].state = "suspended" /\ call' = [call EXCEPT ![c] = "evaluate"]
      BY <1>6 DEF NextN, IsQuery
    <2>3. readers' = readers /\ store' = store /\ UNCHANGED <<holds, freed, passed>>
      BY <1>6 DEF NextN, handles, storage
    <2> QED
      BY <1>1, <1>2, <2>1, <2>2, <2>3, EvaluationKeeps
  <1>7. CASE Work(c)
    <2>0. PICK late \in Nat : handle' = [handle EXCEPT ![c].counter = handle[c].counter, ![c].late = late]
      <3>1. (IF passed[c] THEN handle[c].late + 1 ELSE 0) \in Nat
        BY <1>1 DEF Queries
      <3> QED
        BY <1>7, <3>1, NoTimeOut DEF Work
    <2> DEFINE after == [handle[c] EXCEPT !.late = late]
    <2>1. handle' = [handle EXCEPT ![c] = after]
      <3>1. [handle EXCEPT ![c].counter = handle[c].counter] = handle
        BY <1>1 DEF SessionInv, SessionTypes, Queries
      <3>2. handle' = [[handle EXCEPT ![c].counter = handle[c].counter] EXCEPT ![c].late = late]
        BY <2>0
      <3> QED
        BY <3>1, <3>2
    <2>2. after \in Queries /\ after.state = handle[c].state
      BY <1>1 DEF Queries
    <2> HIDE DEF after
    <2>3. c \in readers => handle[c].state \in {"first", "suspended"}
      BY <1>1 DEF SessionInv, Locked, Queries, Iterators
    <2>4. call[c] = "evaluate" /\ call' = [call EXCEPT ![c] = "evaluate"]
      BY <1>7 DEF Work, SessionInv, SessionTypes
    <2>5. readers' = readers /\ store' = store /\ UNCHANGED <<holds, freed, passed>>
      BY <1>7 DEF Work, storage
    <2> QED
      BY <1>1, <1>2, <2>1, <2>2, <2>3, <2>4, <2>5, EvaluationKeeps
  <1>8. CASE Yielded(c)
    <2>1. handle' = [handle EXCEPT ![c] = InState("suspended")] /\ call' = [call EXCEPT ![c] = None]
      BY <1>8 DEF Yielded, InState
    <2>2. readers' = readers /\ store' = store /\ UNCHANGED <<holds, freed, passed>>
      BY <1>8 DEF Yielded, storage
    <2> QED
      BY <1>1, <1>2, <1>3, <2>1, <2>2, NoneAssumption, EvaluationKeeps DEF States
  <1>9. CASE Ended(c) \/ Raised(c)
    <2>1. PICK state \in {"ended", "failed"} : handle' = [handle EXCEPT ![c] = InState(state)]
      BY <1>9 DEF Ended, Raised, Stops, InState
    <2>2. call' = [call EXCEPT ![c] = None] /\ readers' = readers \ {c} /\ store' = store
      BY <1>9 DEF Ended, Raised, Stops, storage
    <2>3. UNCHANGED <<holds, freed, passed>>
      BY <1>9, NoTimeOut DEF Ended, Raised
    <2> QED
      BY <1>1, <1>2, <1>3, <2>1, <2>2, <2>3, EvaluationKeeps DEF States
  <1> QED
    BY <1>4, <1>5, <1>6, <1>7, <1>8, <1>9, <1>10

(* A handle is made or destroyed. *)
LEMMA HandlesKeep ==
    ASSUME SessionInv, store # "closed", store' = store, NEW c \in Clients, ~Evaluates(c)',
           call' \in {call, [call EXCEPT ![c] = None]},
           NEW object \in {NoHandle} \cup Queries \cup Iterators, handle' = [handle EXCEPT ![c] = object],
           NEW kept \in BOOLEAN, holds' = [holds EXCEPT ![c] = kept],
           freed' = [freed EXCEPT ![c] = IF kept THEN 0 ELSE 1],
           passed' \in [Clients -> BOOLEAN],
           readers' \in {readers, readers \cup {c}, readers \ {c}},
           c \in readers' => kept /\ object \in Iterators /\ call'[c] = None
    PROVE  SessionInv'
  <1>1. SessionTypes'
    BY DEF SessionInv, SessionTypes, Calls
  <1>2. HandlesAreDestroyedOnce'
    BY DEF SessionInv, SessionTypes, HandlesAreDestroyedOnce
  <1>3. \A d \in Clients : Evaluates(d)' => holds'[d] /\ handle'[d] \in Queries
    BY DEF SessionInv, SessionTypes, Evaluates
  <1>4. \A d \in readers' : holds'[d] /\ call'[d] \in {None, "evaluate"} /\ Locked(d)'
    BY DEF SessionInv, SessionTypes, Locked
  <1> QED
    BY <1>1, <1>2, <1>3, <1>4 DEF SessionInv

LEMMA AdvancedStaysIterator ==
    ASSUME NEW it \in Iterators, NEW next \in Advanced(it)
    PROVE  next \in Iterators
  <1>1. CASE it.todo = {}
    <2>1. next = [it EXCEPT !.at = None]
      BY <1>1 DEF Advanced
    <2> QED
      BY <2>1 DEF Iterators
  <1>2. CASE it.todo # {}
    <2>1. PICK t \in it.todo : next = [it EXCEPT !.at = t, !.todo = it.todo \ {t}]
      BY <1>2 DEF Advanced
    <2>2. t \in Triples /\ it.todo \ {t} \subseteq Triples
      BY DEF Iterators
    <2>3. [it EXCEPT !.at = t] \in Iterators
      BY <2>2 DEF Iterators
    <2>4. next = [[it EXCEPT !.at = t] EXCEPT !.todo = it.todo \ {t}]
      BY <2>1
    <2> QED
      BY <2>2, <2>3, <2>4 DEF Iterators
  <1> QED
    BY <1>1, <1>2

LEMMA QueryStepsKeep ==
    ASSUME SessionInv, NEW c \in Clients, EvalQuery(c) \/ EvalQueryFails(c) \/ DeadlinePasses(c)
    PROVE  SessionInv'
  <1>1. CASE EvalQuery(c)
    <2>1. PICK end \in {"deadline", "max"} : handle' = [handle EXCEPT ![c] = Query(end)]
      BY <1>1 DEF EvalQuery
    <2>2. Query(end) \in Queries
      BY DEF Query, Queries, States
    <2>3. c \notin readers /\ ~Evaluates(c)'
      BY <1>1, NoneAssumption DEF EvalQuery, Idle, SessionInv, Evaluates
    <2>4. store # "closed" /\ UNCHANGED <<store, readers, call>>
      BY <1>1 DEF EvalQuery, storage
    <2>5. passed' \in [Clients -> BOOLEAN]
      BY <1>1 DEF EvalQuery, SessionInv, SessionTypes
    <2> HIDE DEF Query
    <2>6. holds' = [holds EXCEPT ![c] = TRUE] /\ freed' = [freed EXCEPT ![c] = IF TRUE THEN 0 ELSE 1]
      BY <1>1 DEF EvalQuery
    <2> QED
      BY <2>1, <2>2, <2>3, <2>4, <2>5, <2>6, HandlesKeep
  <1>2. CASE EvalQueryFails(c)
    <2>1. freed' = freed
      BY <1>2 DEF EvalQueryFails, Idle, SessionInv, SessionTypes, HandlesAreDestroyedOnce
    <2> QED
      BY <1>2, <2>1, OthersKeep DEF EvalQueryFails, handles, storage
  <1>3. CASE DeadlinePasses(c)
    BY <1>3 DEF DeadlinePasses, SessionInv, SessionTypes, HandlesAreDestroyedOnce, Unused, Idle, Locked, Evaluates, storage
  <1> QED
    BY <1>1, <1>2, <1>3

LEMMA IteratorStepsKeep ==
    ASSUME SessionInv, StorageInv, NEW c \in Clients, Iterate(c) \/ IteratorNext(c) \/ DestroyHandle(c)
    PROVE  SessionInv'
  <1>1. CASE Iterate(c)
    <2> DEFINE start == [kind |-> "iterator", first |-> TRUE, at |-> None, todo |-> trie[store], given |-> <<>>]
    <2>1. store # "closed"
      BY <1>1, NoneAssumption DEF Iterate, Return, SessionInv, Unused, Idle
    <2>2. trie[store] \subseteq Triples
      BY <2>1 DEF StorageInv, StorageTypes
    <2>3. start \in Iterators
      BY <2>2 DEF Iterators
    <2>4. PICK it \in Advanced(start) : handle' = [handle EXCEPT ![c] = it]
      BY <1>1 DEF Iterate
    <2>5. it \in Iterators
      BY <2>3, <2>4, AdvancedStaysIterator
    <2>6. readers' = readers \cup {c} /\ store' = store /\ passed' = passed
      BY <1>1 DEF Iterate, storage
    <2>7. call' = [call EXCEPT ![c] = None] /\ call'[c] = None /\ ~Evaluates(c)'
      BY <1>1, NoneAssumption DEF Iterate, Return, SessionInv, SessionTypes, Evaluates
    <2>8. holds' = [holds EXCEPT ![c] = TRUE] /\ freed' = [freed EXCEPT ![c] = IF TRUE THEN 0 ELSE 1]
      BY <1>1 DEF Iterate
    <2>9. passed \in [Clients -> BOOLEAN]
      BY DEF SessionInv, SessionTypes
    <2> HIDE DEF start
    <2> QED
      BY <2>1, <2>4, <2>5, <2>6, <2>7, <2>8, <2>9, HandlesKeep
  <1>2. CASE IteratorNext(c)
    <2>1. holds[c] /\ handle[c] \in Iterators /\ store # "closed"
      BY <1>2, NoneAssumption DEF IteratorNext, SessionInv, SessionTypes, Unused, Idle, NoHandle, Queries, Iterators
    <2>2. PICK it \in Moved(handle[c]) :
              handle' = [handle EXCEPT ![c] = IF it.at = None THEN it ELSE [it EXCEPT !.given = Append(@, it.at)]]
      BY <1>2 DEF IteratorNext
    <2>3. it \in Iterators
      <3>1. [handle[c] EXCEPT !.first = FALSE] \in Iterators
        BY <2>1 DEF Iterators
      <3> QED
        BY <2>1, <2>2, <3>1, AdvancedStaysIterator DEF Moved
    <2> DEFINE moved == IF it.at = None THEN it ELSE [it EXCEPT !.given = Append(@, it.at)]
    <2>4. moved \in Iterators
      <3>1. it.at # None => Append(it.given, it.at) \in Seq(Triples)
        BY <2>3, AppendProperties DEF Iterators
      <3> QED
        BY <2>3, <3>1 DEF Iterators
    <2>5. handle' = [handle EXCEPT ![c] = moved] /\ UNCHANGED <<store, readers, call, holds, freed, passed>>
      BY <1>2, <2>2 DEF IteratorNext, storage
    <2> HIDE DEF moved
    <2>6. SessionTypes'
      BY <2>4, <2>5 DEF SessionInv, SessionTypes
    <2>7. \A d \in Clients : Evaluates(d)' => holds'[d] /\ handle'[d] \in Queries
      <3>1. handle[c] \notin Queries
        BY <2>1 DEF Queries, Iterators
      <3> QED
        BY <2>5, <3>1 DEF SessionInv, SessionTypes, Evaluates
    <2>8. \A d \in readers' : holds'[d] /\ call'[d] \in {None, "evaluate"} /\ Locked(d)'
      BY <2>4, <2>5 DEF SessionInv, SessionTypes, Locked
    <2> QED
      BY <2>1, <2>5, <2>6, <2>7, <2>8 DEF SessionInv, HandlesAreDestroyedOnce
  <1>3. CASE DestroyHandle(c)
    <2>1. holds[c] /\ freed[c] = 0 /\ call[c] = None /\ store # "closed"
      BY <1>3 DEF DestroyHandle, SessionInv, HandlesAreDestroyedOnce, Unused, Idle
    <2>2. /\ readers' = readers \ {c} /\ UNCHANGED <<store, call>> /\ holds' = [holds EXCEPT ![c] = FALSE]
          /\ handle' = [handle EXCEPT ![c] = NoHandle]
      BY <1>3 DEF DestroyHandle, Freed, storage
    <2>3. freed' = [freed EXCEPT ![c] = IF FALSE THEN 0 ELSE 1]
      BY <1>3, <2>1 DEF DestroyHandle, Freed
    <2>4. passed' \in [Clients -> BOOLEAN] /\ ~Evaluates(c)'
      BY <1>3, <2>1, <2>2, NoneAssumption DEF DestroyHandle, SessionInv, SessionTypes, Evaluates
    <2> QED
      BY <2>1, <2>2, <2>3, <2>4, HandlesKeep
  <1> QED
    BY <1>1, <1>2, <1>3

-----------------------------------------------------------------------------
(* What the clients are told: a message comes with every error of the      *)
(* parser.                                                                 *)
Results == {"none", "SUCCESS", "FAILURE", "YIELDED", "ENDED", "thrown"}
ReplyInv ==
    /\ reply.cause \in ParseErrors => reply.text \in Texts
    /\ reply.result \in Results
    /\ local_msg_buf \in [Clients -> Texts \cup {None}]

LEMMA ReplyKeeps == ASSUME ReplyInv, NEW result \in Results, Reply(result) PROVE ReplyInv'
  <1>1. reply'.cause = None /\ reply'.result = result /\ local_msg_buf' = local_msg_buf
    BY DEF Reply, Answer
  <1> QED
    BY <1>1, NoneAssumption DEF ReplyInv, ParseErrors

Causes == {"no_memory", "no_file", "timeout", "internal", "composed", "not_found"}
LEMMA FailKeeps ==
    ASSUME ReplyInv, NEW what \in Causes, NEW errno, NEW discriminant,
           Fail(what, errno, discriminant) \/ Throws(what)
    PROVE  ReplyInv'
  <1>1. reply'.cause = what /\ reply'.result \in {"FAILURE", "thrown"} /\ local_msg_buf' = local_msg_buf
    BY DEF Fail, Throws, Answer
  <1> QED
    BY <1>1 DEF ReplyInv, ParseErrors, Causes, Results

LEMMA FailToParseKeeps ==
    ASSUME ReplyInv, NEW c \in Clients, NEW what \in ParseErrors, NEW text \in Texts, FailToParse(c, what, text)
    PROVE  ReplyInv'
  <1>1. Buffered(c, text) \in Texts
    BY DEF Buffered, ReplyInv
  <1>2. /\ reply'.result = "FAILURE" /\ reply'.text = Buffered(c, text)
        /\ local_msg_buf' = [local_msg_buf EXCEPT ![c] = Buffered(c, text)]
    BY DEF FailToParse, Answer
  <1> QED
    BY <1>1, <1>2 DEF ReplyInv, Results

(* Every step makes one of these replies. *)
LEMMA StepKeepsReplies ==
    ASSUME ReplyInv, [Next]_vars
    PROVE  ReplyInv'
  <1>0. CASE UNCHANGED vars
    BY <1>0 DEF vars, replies, ReplyInv
  <1> SUFFICES ASSUME NEW c \in Clients,
        \/ InitInMemory(c) \/ FindOrConstructPersistent(c) \/ Destroy(c) \/ DestroyPersistent(c)
        \/ \E op \in {"load", "add", "size", "update", "iterate"} : Begin(c, op)
        \/ LoadUnreadable(c) \/ UpdateUnparsable(c)
        \/ Flush(c) \/ LoadTtl(c) \/ AddStatement(c) \/ Size(c) \/ Match(c) \/ MatchFails(c) \/ EvalUpdate(c)
        \/ EvalQuery(c) \/ EvalQueryFails(c) \/ DeadlinePasses(c) \/ Next1(c) \/ Open(c) \/ NextN(c)
        \/ Work(c) \/ Yielded(c) \/ Ended(c) \/ Raised(c)
        \/ Iterate(c) \/ IteratorNext(c) \/ DestroyHandle(c)
      PROVE ReplyInv'
    BY <1>0 DEF Next
  <1>1. \/ \E result \in Results : Reply(result)
        \/ \E what \in ParseErrors, text \in Texts : FailToParse(c, what, text)
        \/ \E what \in Causes : Throws(what) \/ \E errno, discriminant : Fail(what, errno, discriminant)
    <2>1. CASE InitInMemory(c) \/ FindOrConstructPersistent(c) \/ Destroy(c) \/ DestroyPersistent(c)
      BY <2>1 DEF InitInMemory, FindOrConstructPersistent, Destroy, DestroyPersistent, Results, Causes
    <2>2. CASE LoadUnreadable(c) \/ UpdateUnparsable(c) \/ EvalQueryFails(c)
      BY <2>2 DEF LoadUnreadable, UpdateUnparsable, EvalQueryFails, Causes
    <2>3. CASE LoadTtl(c) \/ AddStatement(c) \/ Size(c) \/ MatchFails(c) \/ EvalUpdate(c)
      BY <2>3 DEF LoadTtl, AddStatement, Size, MatchFails, EvalUpdate, Results, Causes
    <2>4. CASE EvalQuery(c) \/ Yielded(c) \/ Ended(c) \/ Iterate(c) \/ IteratorNext(c) \/ DestroyHandle(c)
      BY <2>4 DEF EvalQuery, Yielded, Ended, Iterate, IteratorNext, DestroyHandle, Results
    <2>5. CASE Raised(c)
      BY <2>5 DEF Raised, Exceptions, Causes
    <2>6. CASE (\E op \in {"load", "add", "size", "update", "iterate"} : Begin(c, op)) \/ Flush(c) \/ Match(c)
               \/ DeadlinePasses(c) \/ Next1(c) \/ Open(c) \/ NextN(c) \/ Work(c)
      BY <2>6 DEF Begin, Flush, Match, DeadlinePasses, Next1, Open, NextN, Work, Silently, Results
    <2> QED
      BY <2>1, <2>2, <2>3, <2>4, <2>5, <2>6
  <1> QED
    BY <1>1, ReplyKeeps, FailToParseKeeps, FailKeeps

-----------------------------------------------------------------------------
LEMMA StepKeepsSessions ==
    ASSUME StorageInv, SessionInv, [Next]_vars
    PROVE  SessionInv'
  <1>1. CASE UNCHANGED vars
    BY <1>1, OthersKeep DEF vars, storage, SessionInv
  <1> SUFFICES ASSUME NEW c \in Clients,
           \/ InitInMemory(c) \/ FindOrConstructPersistent(c) \/ Destroy(c) \/ DestroyPersistent(c)
           \/ \E op \in {"load", "add", "size", "update", "iterate"} : Begin(c, op)
           \/ LoadUnreadable(c) \/ UpdateUnparsable(c)
           \/ Flush(c) \/ LoadTtl(c) \/ AddStatement(c) \/ Size(c) \/ Match(c) \/ MatchFails(c) \/ EvalUpdate(c)
           \/ EvalQuery(c) \/ EvalQueryFails(c) \/ DeadlinePasses(c) \/ Next1(c) \/ Open(c) \/ NextN(c)
           \/ Work(c) \/ Yielded(c) \/ Ended(c) \/ Raised(c)
           \/ Iterate(c) \/ IteratorNext(c) \/ DestroyHandle(c)
      PROVE SessionInv'
    BY <1>1 DEF Next
  <1>2. CASE InitInMemory(c) \/ FindOrConstructPersistent(c) \/ Destroy(c) \/ DestroyPersistent(c)
    <2>1. UNCHANGED <<readers, call, handles>>
      BY <1>2 DEF InitInMemory, FindOrConstructPersistent, Destroy, DestroyPersistent
    <2>2. store' = "closed" => Unused
      BY <1>2 DEF InitInMemory, FindOrConstructPersistent, Destroy, DestroyPersistent, SessionInv
    <2> QED
      BY <2>1, <2>2, OthersKeep
  <1>3. CASE LoadUnreadable(c) \/ UpdateUnparsable(c)
    <2>1. UNCHANGED <<store, readers, call, handles>>
      BY <1>3 DEF LoadUnreadable, UpdateUnparsable, storage
    <2> QED
      BY <2>1, OthersKeep DEF SessionInv
  <1>4. ASSUME NEW op \in {"load", "add", "size", "update", "iterate"}, Begin(c, op)
        PROVE  SessionInv'
    <2>1. ~Evaluates(c) /\ c \notin readers /\ store # "closed"
      BY <1>4, NoneAssumption DEF Begin, Idle, Evaluates, SessionInv
    <2>2. UNCHANGED <<store, readers, handles>> /\ call' = [call EXCEPT ![c] = op]
      BY <1>4 DEF Begin, storage
    <2>3. op \in (Sections \cup {None}) \ {"open", "opening", "evaluate"}
      BY SectionsOfCalls
    <2> QED
      BY <2>1, <2>2, <2>3, WaitingKeeps
  <1>5. CASE LoadTtl(c) \/ AddStatement(c) \/ Size(c) \/ Match(c) \/ MatchFails(c) \/ EvalUpdate(c)
             \/ (Flush(c) /\ call[c] # "open")
    <2>1. /\ call[c] \in (Sections \cup {None}) \ {None, "open", "opening", "evaluate"}
          /\ UNCHANGED <<store, readers, handles>>
      BY <1>5, NoneAssumption, SectionsOfCalls DEF LoadTtl, AddStatement, Size, Match, MatchFails, EvalUpdate, Flush,
                                 Enter, Return, Apply, storage, Waits
    <2>2. ~Evaluates(c) /\ store # "closed" /\ c \notin readers
      BY <2>1, NoneAssumption DEF Evaluates, SessionInv, Unused, Idle
    <2>3. PICK op \in (Sections \cup {None}) \ {"open", "opening", "evaluate"} : call' = [call EXCEPT ![c] = op]
      <3>1. CASE LoadTtl(c) \/ AddStatement(c) \/ Size(c) \/ Match(c) \/ MatchFails(c) \/ EvalUpdate(c)
        BY <3>1, NoneAssumption, SectionsOfCalls
           DEF LoadTtl, AddStatement, Size, Match, MatchFails, EvalUpdate, Enter, Return
      <3>2. CASE Flush(c) /\ call[c] # "open"
        <4>1. call[c] \in {"load", "size", "update", "where", "iterate"}
          BY <3>2, SectionsOfCalls DEF Flush, AfterFlush
        <4>2. PICK section \in AfterFlush[call[c]] : call' = [call EXCEPT ![c] = section]
          BY <3>2 DEF Flush
        <4>3. section \in {"loading", "counting", "applying", "where", "matching", "beginning"}
          BY <4>1, <4>2, SectionsOfCalls
        <4> QED
          BY <4>2, <4>3, SectionsOfCalls
      <3> QED
        BY <1>5, <3>1, <3>2
    <2> QED
      BY <2>1, <2>2, <2>3, WaitingKeeps
  <1> QED
    BY <1>2, <1>3, <1>4, <1>5, EvaluationStepsKeep, QueryStepsKeep, IteratorStepsKeep

(* Most steps leave the store alone, flush it or add to it; only an update *)
(* takes triples out, of a store whose bulk inserter holds what was added  *)
(* since the flush.                                                        *)
LEMMA StepKeepsStorage ==
    ASSUME StorageInv, RacingInv, SessionInv, [Next]_vars
    PROVE  StorageInv'
  <1>1. ASSUME UNCHANGED storage PROVE StorageInv'
    BY <1>1 DEF storage, history, StorageInv, StorageTypes, NothingIsLost, NothingComesBack, Contents,
                PersistentObjectsAreWhole
  <1> SUFFICES ASSUME NEW c \in Clients, ~UNCHANGED storage,
           \/ InitInMemory(c) \/ FindOrConstructPersistent(c) \/ Destroy(c) \/ DestroyPersistent(c)
           \/ Flush(c) \/ LoadTtl(c) \/ AddStatement(c) \/ MatchFails(c) \/ EvalUpdate(c)
      PROVE StorageInv'
    <2>1. CASE UNCHANGED vars
      BY <1>1, <2>1 DEF vars
    <2>2. CASE Next
      BY <1>1, <2>2 DEF Next, Begin, LoadUnreadable, UpdateUnparsable, Size, Match, EvalQuery, EvalQueryFails,
                        DeadlinePasses, Next1, Open, NextN, Work, Yielded, Ended, Raised, Iterate, IteratorNext,
                        DestroyHandle
    <2> QED
      BY <2>1, <2>2
  <1>2. CASE Flush(c) \/ LoadTtl(c) \/ AddStatement(c) \/ EvalUpdate(c)
    <2>1. call[c] # None
      BY <1>2, NoneAssumption DEF Flush, LoadTtl, AddStatement, EvalUpdate, Enter, AfterFlush
    <2>2. store # "closed"
      BY <2>1 DEF SessionInv, Unused, Idle
    <2>3. CASE LoadTtl(c)
      <3>1. PICK ts \in SUBSET Triples : Apply(c, {}, ts)
        BY <2>3 DEF LoadTtl
      <3>2. {} \in SUBSET Triples
        OBVIOUS
      <3> QED
        BY <2>2, <3>1, <3>2, ApplyKeeps
    <2>4. CASE EvalUpdate(c)
      <3>1. PICK removed \in SUBSET Triples, inserted \in SUBSET Triples : Apply(c, removed, inserted)
        BY <2>4 DEF EvalUpdate
      <3>2. inserter \subseteq racing[c]
        BY <2>4 DEF EvalUpdate, Enter, RacingInv, BetweenSections
      <3> QED
        BY <2>2, <3>1, <3>2, ApplyKeeps
    <2> QED
      BY <1>2, <2>2, <2>3, <2>4, FlushKeeps, AddStatementKeeps
  <1>3. CASE MatchFails(c)
    <2>1. /\ UNCHANGED <<store, named, trie, known, inserter, promised, possible>>
          /\ racing' = [racing EXCEPT ![c] = {}]
      BY <1>3 DEF MatchFails
    <2> QED
      BY <2>1 DEF StorageInv, StorageTypes, NothingIsLost, NothingComesBack, Contents, PersistentObjectsAreWhole
  <1> QED
    BY <1>2, <1>3, OpeningKeeps, DestroyKeeps, DestroyPersistentKeeps

(* What comes into the bulk inserter while an update runs is recorded.     *)
LEMMA StepKeepsRacing ==
    ASSUME StorageInv, RacingInv, SessionInv, [Next]_vars
    PROVE  RacingInv'
  <1> USE NoneAssumption
  <1>1. ASSUME inserter' = {} PROVE RacingInv'
    BY <1>1 DEF RacingInv
  <1>2. ASSUME UNCHANGED <<inserter, racing>>, NEW c \in Clients, NEW op, call' = [call EXCEPT ![c] = op],
               op \in {"where", "matching", "applying"} => BetweenSections(c)
        PROVE  RacingInv'
    BY <1>2 DEF RacingInv, BetweenSections, SessionInv, SessionTypes
  <1>3. ASSUME UNCHANGED <<inserter, racing, call>> PROVE RacingInv'
    BY <1>3 DEF RacingInv, BetweenSections
  <1>4. ASSUME UNCHANGED inserter, NEW c \in Clients, racing' = [racing EXCEPT ![c] = {}],
               call' = [call EXCEPT ![c] = None]
        PROVE  RacingInv'
    BY <1>4 DEF RacingInv, BetweenSections, SessionInv, SessionTypes, StorageInv, StorageTypes
  <1>5. CASE UNCHANGED vars
    BY <1>3, <1>5 DEF vars, storage, history
  <1> SUFFICES ASSUME NEW c \in Clients,
           \/ InitInMemory(c) \/ FindOrConstructPersistent(c) \/ Destroy(c) \/ DestroyPersistent(c)
           \/ \E op \in {"load", "add", "size", "update", "iterate"} : Begin(c, op)
           \/ LoadUnreadable(c) \/ UpdateUnparsable(c)
           \/ Flush(c) \/ LoadTtl(c) \/ AddStatement(c) \/ Size(c) \/ Match(c) \/ MatchFails(c) \/ EvalUpdate(c)
           \/ EvalQuery(c) \/ EvalQueryFails(c) \/ DeadlinePasses(c) \/ Next1(c) \/ Open(c) \/ NextN(c)
           \/ Work(c) \/ Yielded(c) \/ Ended(c) \/ Raised(c)
           \/ Iterate(c) \/ IteratorNext(c) \/ DestroyHandle(c)
      PROVE RacingInv'
    BY <1>5 DEF Next
  <1>6. CASE Flush(c) \/ Destroy(c)
    BY <1>1, <1>6 DEF Flush, Destroy
  <1>7. CASE InitInMemory(c) \/ FindOrConstructPersistent(c) \/ DestroyPersistent(c) \/ LoadUnreadable(c)
             \/ UpdateUnparsable(c) \/ EvalQuery(c) \/ EvalQueryFails(c) \/ DeadlinePasses(c) \/ Work(c)
             \/ IteratorNext(c) \/ DestroyHandle(c)
    BY <1>3, <1>7 DEF InitInMemory, FindOrConstructPersistent, DestroyPersistent, LoadUnreadable, UpdateUnparsable,
                      EvalQuery, EvalQueryFails, DeadlinePasses, Work, IteratorNext, DestroyHandle, storage, history
  <1>8. CASE (\E op \in {"load", "add", "size", "update", "iterate"} : Begin(c, op)) \/ Size(c) \/ Match(c)
             \/ Next1(c) \/ Open(c) \/ NextN(c) \/ Yielded(c) \/ Ended(c) \/ Raised(c) \/ Iterate(c)
    <2>1. UNCHANGED <<inserter, racing>>
      BY <1>8 DEF Begin, Size, Match, Next1, Open, NextN, Yielded, Ended, Raised, Iterate, storage, history
    <2>2. PICK op : /\ call' = [call EXCEPT ![c] = op]
                    /\ op \in {"where", "matching", "applying"} => BetweenSections(c)
      BY <1>8 DEF Begin, Size, Match, Next1, Open, NextN, Yielded, Ended, Raised, Iterate, Return, BetweenSections
    <2> QED
      BY <1>2, <2>1, <2>2
  <1>9. CASE LoadTtl(c) \/ MatchFails(c) \/ EvalUpdate(c)
    <2>1. UNCHANGED inserter /\ racing' = [racing EXCEPT ![c] = {}] /\ call' = [call EXCEPT ![c] = None]
      BY <1>9 DEF LoadTtl, MatchFails, EvalUpdate, Apply, Recorded, Enter, Return
    <2> QED
      BY <1>4, <2>1
  <1>10. CASE AddStatement(c)
    <2>1. PICK t \in Triples :
              /\ inserter' \subseteq inserter \cup {t}
              /\ racing' = [d \in Clients |-> IF Updates(d) THEN racing[d] \cup {t} ELSE racing[d]]
      BY <1>10 DEF AddStatement
    <2>2. call' = [call EXCEPT ![c] = None]
      BY <1>10 DEF AddStatement, Enter
    <2>3. ASSUME NEW d \in Clients, BetweenSections(d)' PROVE inserter' \subseteq racing'[d]
      <3>1. BetweenSections(d)
        BY <2>2, <2>3 DEF BetweenSections, SessionInv, SessionTypes
      <3>2. racing'[d] = racing[d] \cup {t}
        BY <2>1, <3>1 DEF BetweenSections, Updates
      <3> QED
        BY <2>1, <3>1, <3>2 DEF RacingInv
    <2> QED
      BY <2>3 DEF RacingInv
  <1> QED
    BY <1>6, <1>7, <1>8, <1>9, <1>10

-----------------------------------------------------------------------------
(* The iterations.  Between the triples that were given and those that are *)
(* still to come nothing is lost and nothing comes twice; the iterator     *)
(* keeps the lock, so the store cannot change under it.                    *)
Pending(it) == it.todo \cup (IF it.first THEN {it.at} \ {None} ELSE {})
Delivers(it, triples) ==
    /\ Range(it.given) \cup Pending(it) = triples
    /\ Range(it.given) \cap Pending(it) = {}
    /\ IsInjective(it.given)
    /\ it.at \notin it.todo
    /\ it.at = None => it.todo = {}
IteratorInv ==
    \A c \in Clients : handle[c] \in Iterators => c \in readers /\ Delivers(handle[c], trie[store])

(* The fields of an iterator that is advanced. *)
LEMMA AdvancedFields ==
    ASSUME NEW it \in Iterators, NEW next \in Advanced(it)
    PROVE  /\ next \in Iterators /\ next.first = it.first /\ next.given = it.given
           /\ next.at \notin next.todo /\ (next.at = None => next.todo = {})
           /\ it.todo = next.todo \cup ({next.at} \ {None})
  <1> USE NoneAssumption
  <1>1. next \in Iterators
    BY AdvancedStaysIterator
  <1>2. CASE it.todo = {}
    <2>1. next = [it EXCEPT !.at = None]
      BY <1>2 DEF Advanced
    <2> QED
      BY <1>1, <1>2, <2>1 DEF Iterators
  <1>3. CASE it.todo # {}
    <2>1. PICK t \in it.todo : next = [it EXCEPT !.at = t, !.todo = it.todo \ {t}]
      BY <1>3 DEF Advanced
    <2>2. t \in Triples /\ t # None /\ it.todo \subseteq Triples
      BY DEF Iterators
    <2>3. next.at = t /\ next.todo = it.todo \ {t} /\ next.first = it.first /\ next.given = it.given
      BY <2>1 DEF Iterators
    <2> QED
      BY <1>1, <2>2, <2>3
  <1> QED
    BY <1>2, <1>3

LEMMA RangeOfAppend ==
    ASSUME NEW S, NEW s \in Seq(S), NEW x \in S
    PROVE  /\ Range(Append(s, x)) = Range(s) \cup {x}
           /\ IsInjective(s) /\ x \notin Range(s) => IsInjective(Append(s, x))
  <1> DEFINE a == Append(s, x)  n == Len(s)
  <1>1. /\ n \in Nat /\ DOMAIN s = 1 .. n /\ DOMAIN a = 1 .. n + 1
        /\ \A i \in 1 .. n : a[i] = s[i]
        /\ a[n + 1] = x
    BY AppendProperties, LenProperties
  <1> HIDE DEF a, n
  <1>2. Range(a) = Range(s) \cup {x}
    <2>1. \A i \in 1 .. n + 1 : i \in 1 .. n \/ i = n + 1
      BY <1>1
    <2>2. n + 1 \in 1 .. n + 1 /\ 1 .. n \subseteq 1 .. n + 1
      BY <1>1
    <2> QED
      BY <1>1, <2>1, <2>2 DEF Range
  <1>3. ASSUME IsInjective(s), x \notin Range(s)
        PROVE  IsInjective(a)
    <2> SUFFICES ASSUME NEW i \in 1 .. n + 1, NEW j \in 1 .. n + 1, a[i] = a[j]
                 PROVE  i = j
      BY <1>1 DEF IsInjective
    <2>1. CASE i \in 1 .. n /\ j \in 1 .. n
      BY <1>1, <1>3, <2>1 DEF IsInjective
    <2>2. CASE i = n + 1 /\ j # n + 1
      <3>1. j \in 1 .. n
        BY <1>1, <2>2
      <3> QED
        BY <1>1, <1>3, <2>2, <3>1 DEF Range
    <2>3. CASE j = n + 1 /\ i # n + 1
      <3>1. i \in 1 .. n
        BY <1>1, <2>3
      <3> QED
        BY <1>1, <1>3, <2>3, <3>1 DEF Range
    <2> QED
      BY <1>1, <2>1, <2>2, <2>3
  <1> QED
    BY <1>2, <1>3 DEF a

(* An injective sequence is as long as the set of its items. *)
LEMMA LengthIsCardinality ==
    ASSUME NEW S, NEW s \in Seq(S), IsInjective(s)
    PROVE  Len(s) = Cardinality(Range(s))
  <1>1. Len(s) \in Nat /\ s \in [1 .. Len(s) -> Range(s)] /\ DOMAIN s = 1 .. Len(s)
    BY LenProperties DEF Range
  <1>2. s \in Bijection(1 .. Len(s), Range(s))
    BY <1>1 DEF Bijection, Injection, Surjection, Range
  <1> QED
    BY <1>1, <1>2, FS_CountingElements DEF ExistsBijection

(* Iterate and IteratorNext. *)
LEMMA IterationKeeps ==
    ASSUME StorageInv, SessionInv, IteratorInv, NEW c \in Clients, Iterate(c) \/ IteratorNext(c)
    PROVE  IteratorInv'
  <1> USE NoneAssumption
  <1>0. store \in Kinds
    BY DEF Iterate, IteratorNext, Return, SessionInv, Unused, Idle, StorageInv, StorageTypes
  <1>1. CASE Iterate(c)
    <2> DEFINE start == [kind |-> "iterator", first |-> TRUE, at |-> None, todo |-> trie[store], given |-> <<>>]
    <2>1. trie[store] \subseteq Triples /\ UNCHANGED <<store, trie>>
      BY <1>0, <1>1 DEF Iterate, storage, StorageInv, StorageTypes
    <2>2. start \in Iterators /\ start.todo = trie[store] /\ start.first = TRUE /\ start.given = <<>>
      BY <2>1 DEF Iterators
    <2>3. PICK it \in Advanced(start) : handle' = [handle EXCEPT ![c] = it]
      BY <1>1 DEF Iterate
    <2> HIDE DEF start
    <2>4. Range(<<>>) = {} /\ IsInjective(<<>>)
      BY DEF Range, IsInjective
    <2>5. Delivers(it, trie[store])
      BY <2>2, <2>3, <2>4, AdvancedFields DEF Delivers, Pending
    <2>6. readers' = readers \cup {c}
      BY <1>1 DEF Iterate
    <2> QED
      BY <2>1, <2>3, <2>5, <2>6 DEF IteratorInv, SessionInv, SessionTypes
  <1>2. CASE IteratorNext(c)
    <2>1. handle[c] \in Iterators /\ ~HasEnded(handle[c])
      BY <1>2 DEF IteratorNext, SessionInv, SessionTypes, NoHandle, Queries
    <2>2. PICK it \in Moved(handle[c]) :
              handle' = [handle EXCEPT ![c] = IF it.at = None THEN it ELSE [it EXCEPT !.given = Append(@, it.at)]]
      BY <1>2 DEF IteratorNext
    <2> DEFINE moved == IF it.at = None THEN it ELSE [it EXCEPT !.given = Append(it.given, it.at)]
               old == handle[c]
    <2>3. Delivers(old, trie[store])
      BY <2>1 DEF IteratorInv
    <2>4. /\ it \in Iterators /\ it.first = FALSE /\ it.given = old.given
          /\ it.at \notin it.todo /\ (it.at = None => it.todo = {})
          /\ Pending(old) = it.todo \cup ({it.at} \ {None})
      <3>1. CASE old.first
        <4>1. it = [old EXCEPT !.first = FALSE]
          BY <2>2, <3>1 DEF Moved
        <4> QED
          BY <2>1, <2>3, <3>1, <4>1 DEF Iterators, Delivers, Pending
      <3>2. CASE ~old.first
        <4>1. it \in Advanced(old)
          BY <2>2, <3>2 DEF Moved
        <4> QED
          BY <2>1, <3>2, <4>1, AdvancedFields DEF Pending, Iterators
      <3> QED
        BY <3>1, <3>2
    <2>5. Delivers(moved, trie[store])
      <3>1. CASE it.at = None
        BY <2>3, <2>4, <3>1 DEF Delivers, Pending
      <3>2. CASE it.at # None
        <4>1. it.given \in Seq(Triples) /\ it.at \in Triples
          BY <2>4, <3>2 DEF Iterators
        <4>2. /\ moved.given = Append(it.given, it.at) /\ moved.todo = it.todo
              /\ moved.at = it.at /\ moved.first = FALSE
          BY <2>4, <3>2 DEF Iterators
        <4> HIDE DEF moved
        <4>3. Range(moved.given) = Range(it.given) \cup {it.at}
          BY <4>1, <4>2, RangeOfAppend
        <4>4. it.at \notin Range(it.given)
          BY <2>3, <2>4, <3>2 DEF Delivers
        <4>5. IsInjective(moved.given)
          BY <2>3, <2>4, <4>1, <4>2, <4>4, RangeOfAppend DEF Delivers
        <4> QED
          BY <2>3, <2>4, <3>2, <4>2, <4>3, <4>5 DEF Delivers, Pending
      <3> QED
        BY <3>1, <3>2
    <2>6. UNCHANGED <<store, trie, readers>> /\ handle' = [handle EXCEPT ![c] = moved]
      BY <1>2, <2>2 DEF IteratorNext, storage
    <2> HIDE DEF moved
    <2> QED
      BY <2>1, <2>5, <2>6 DEF IteratorInv, SessionInv, SessionTypes
  <1> QED
    BY <1>1, <1>2

(* Who else changes handles has no iterator, or destroys it. *)
LEMMA OtherHandlesKeep ==
    ASSUME SessionInv, IteratorInv, NEW c \in Clients,
           UNCHANGED <<store, trie>>, readers' \in {readers, readers \ {c}, readers \cup {c}},
           \/ handle'= handle /\ handle[c] \notin Iterators
           \/ \E object : object \notin Iterators /\ handle' = [handle EXCEPT ![c] = object]
    PROVE  IteratorInv'
  BY DEF IteratorInv, SessionInv, SessionTypes

LEMMA StepKeepsIterations ==
    ASSUME StorageInv, SessionInv, IteratorInv, [Next]_vars
    PROVE  IteratorInv'
  <1> USE NoneAssumption
  <1>1. ASSUME UNCHANGED <<handle, readers>>, store' = store, trie'[store] = trie[store]
        PROVE  IteratorInv'
    BY <1>1 DEF IteratorInv
  <1>2. CASE UNCHANGED vars
    BY <1>1, <1>2 DEF vars, storage, handles
  <1> SUFFICES ASSUME NEW c \in Clients,
           \/ InitInMemory(c) \/ FindOrConstructPersistent(c) \/ Destroy(c) \/ DestroyPersistent(c)
           \/ \E op \in {"load", "add", "size", "update", "iterate"} : Begin(c, op)
           \/ LoadUnreadable(c) \/ UpdateUnparsable(c)
           \/ Flush(c) \/ LoadTtl(c) \/ AddStatement(c) \/ Size(c) \/ Match(c) \/ MatchFails(c) \/ EvalUpdate(c)
           \/ EvalQuery(c) \/ EvalQueryFails(c) \/ DeadlinePasses(c) \/ Next1(c) \/ Open(c) \/ NextN(c)
           \/ Work(c) \/ Yielded(c) \/ Ended(c) \/ Raised(c)
           \/ DestroyHandle(c)
      PROVE IteratorInv'
    BY <1>2, IterationKeeps DEF Next
  <1>3. Unused => \A d \in Clients : handle[d] \notin Iterators
    BY DEF IteratorInv, SessionInv, Unused, Idle
  <1>4. readers = {} => \A d \in Clients : handle[d] \notin Iterators
    BY DEF IteratorInv
  <1>5. CASE InitInMemory(c) \/ FindOrConstructPersistent(c) \/ Destroy(c)
    <2>1. Unused /\ handle' = handle
      BY <1>5 DEF InitInMemory, FindOrConstructPersistent, Destroy, SessionInv, handles
    <2> QED
      BY <1>3, <2>1 DEF IteratorInv
  <1>6. CASE DestroyPersistent(c)
    <2>1. UNCHANGED <<handle, readers, store>>
      BY <1>6 DEF DestroyPersistent, handles
    <2>2. trie'[store] = trie[store] \/ store = "closed"
      BY <1>6 DEF DestroyPersistent, StorageInv, StorageTypes, Kinds
    <2> QED
      BY <1>1, <1>3, <2>1, <2>2 DEF SessionInv, IteratorInv
  <1>7. CASE (\E op \in {"load", "add", "size", "update", "iterate"} : Begin(c, op)) \/ LoadUnreadable(c)
             \/ UpdateUnparsable(c) \/ EvalQueryFails(c) \/ DeadlinePasses(c) \/ Next1(c) \/ NextN(c)
             \/ Size(c) \/ Match(c) \/ MatchFails(c)
    <2>1. UNCHANGED <<handle, readers, store, trie>>
      BY <1>7 DEF Begin, LoadUnreadable, UpdateUnparsable, EvalQueryFails, DeadlinePasses, Next1, NextN,
                  Size, Match, MatchFails, storage, handles
    <2> QED
      BY <1>1, <2>1
  <1>8. CASE Flush(c) \/ LoadTtl(c) \/ AddStatement(c) \/ EvalUpdate(c)
    <2>1. readers = {} /\ handle' = handle
      BY <1>8 DEF Flush, LoadTtl, AddStatement, EvalUpdate, Enter, handles
    <2> QED
      BY <1>4, <2>1 DEF IteratorInv
  <1>9. CASE Open(c) \/ Work(c) \/ Yielded(c) \/ Ended(c) \/ Raised(c)
    <2>1. handle[c] \in Queries
      BY <1>9 DEF Open, Work, Yielded, Ended, Raised, SessionInv, Evaluates
    <2>2. UNCHANGED <<store, trie>> /\ readers' \in {readers, readers \ {c}, readers \cup {c}}
      BY <1>9 DEF Open, Work, Yielded, Ended, Raised, Stops, storage
    <2>3. \A q : (\E state : q = [handle[c] EXCEPT !.state = state]) => q \notin Iterators
      BY <2>1 DEF Queries, Iterators
    <2>4. \A q : (\E counter, late : q = [handle[c] EXCEPT !.counter = counter, !.late = late]) => q \notin Iterators
      BY <2>1 DEF Queries, Iterators
    <2>5. CASE Work(c)
      <3>1. \E counter, late : handle' = [handle EXCEPT ![c].counter = counter, ![c].late = late]
        BY <2>5 DEF Work
      <3> PICK counter, late : handle' = [handle EXCEPT ![c].counter = counter, ![c].late = late]
        BY <3>1
      <3>2. handle' = [handle EXCEPT ![c] = [handle[c] EXCEPT !.counter = counter, !.late = late]]
        BY <2>1 DEF SessionInv, SessionTypes
      <3> QED
        BY <2>2, <2>4, <3>2, OtherHandlesKeep
    <2>6. CASE Open(c) \/ Yielded(c) \/ Ended(c) \/ Raised(c)
      <3>1. PICK state : handle' = [handle EXCEPT ![c].state = state]
        BY <2>6 DEF Open, Yielded, Ended, Raised, Stops
      <3>2. handle' = [handle EXCEPT ![c] = [handle[c] EXCEPT !.state = state]]
        BY <2>1, <3>1 DEF SessionInv, SessionTypes
      <3> QED
        BY <2>2, <2>3, <3>2, OtherHandlesKeep
    <2> QED
      BY <1>9, <2>5, <2>6
  <1>10. CASE EvalQuery(c)
    <2>1. \E end : handle' = [handle EXCEPT ![c] = Query(end)]
      BY <1>10 DEF EvalQuery
    <2>2. \A end : Query(end) \notin Iterators
      BY DEF Query, Iterators
    <2> QED
      BY <1>10, <2>1, <2>2, OtherHandlesKeep DEF EvalQuery, storage
  <1>11. CASE DestroyHandle(c)
    <2>1. NoHandle \notin Iterators
      BY DEF NoHandle, Iterators
    <2> QED
      BY <1>11, <2>1, OtherHandlesKeep DEF DestroyHandle, Freed, storage
  <1> QED
    BY <1>5, <1>6, <1>7, <1>8, <1>9, <1>10, <1>11

IInv == StorageInv /\ RacingInv /\ SessionInv /\ IteratorInv /\ ReplyInv

LEMMA InitInvariant == Init => IInv
  <1> SUFFICES ASSUME Init PROVE IInv
    OBVIOUS
  <1>1. StorageInv
    BY DEF Init, StorageInv, StorageTypes, NothingIsLost, NothingComesBack, Contents, PersistentObjectsAreWhole, Kinds
  <1>2. SessionInv
    BY NoneAssumption DEF Init, SessionInv, SessionTypes, Calls, HandlesAreDestroyedOnce, Unused, Idle, Evaluates
  <1>3. ReplyInv
    BY NoneAssumption DEF Init, Answer, ReplyInv, ParseErrors, Results
  <1>4. IteratorInv
    BY NoneAssumption DEF Init, IteratorInv, NoHandle, Iterators
  <1>5. RacingInv
    BY DEF Init, RacingInv
  <1> QED
    BY <1>1, <1>2, <1>3, <1>4, <1>5 DEF IInv

(* The invariant holds in every state: clients keep to what they were told *)
(* about their handles, whatever the others do in between.                 *)
THEOREM Inductive == Spec => []IInv
  <1>1. IInv /\ [Next]_vars => IInv'
    BY StepKeepsStorage, StepKeepsRacing, StepKeepsSessions, StepKeepsIterations, StepKeepsReplies DEF IInv
  <1> QED
    BY <1>1, InitInvariant, PTL DEF Spec

(* Every variable keeps its type, for any number of clients. *)
THEOREM TypeCorrect == Spec => []TypeOK
  <1>1. IInv => TypeOK
    <2> SUFFICES ASSUME IInv PROVE TypeOK
      OBVIOUS
    <2>1. \A c \in Clients : handle[c].kind \in {"query", "iterator", None}
      BY DEF IInv, SessionInv, SessionTypes, Queries, Iterators, NoHandle
    <2> QED
      BY <2>1 DEF IInv, StorageInv, StorageTypes, SessionInv, SessionTypes, ReplyInv, Results, Calls, TypeOK
  <1> QED
    BY <1>1, Inductive, PTL

(* Between the library, which destroys an object when it reports that there *)
(* is no handle, and the client, which destroys it when there is one, each *)
(* object of eval_query and iterator is destroyed once.                    *)
THEOREM HandlesDestroyedOnce == Spec => []HandlesAreDestroyedOnce
  <1> QED
    BY Inductive, PTL DEF IInv, SessionInv

(* Whoever waits for the lock of the store waits for the owner of a handle *)
(* who can give it back: the lock has no owner that nobody answers for.    *)
THEOREM WaitersCanGoOn == Spec => []WaitersWaitForAHandle
  <1>1. IInv => WaitersWaitForAHandle
    <2> SUFFICES ASSUME IInv, readers # {} PROVE \E d \in readers : holds[d] /\ call[d] \notin Waits
      BY DEF WaitersWaitForAHandle
    <2>1. PICK d \in readers : TRUE
      OBVIOUS
    <2> QED
      BY <2>1, NoneAssumption, SectionsOfCalls DEF IInv, SessionInv
  <1> QED
    BY <1>1, Inductive, PTL

(* An iteration that has ended gave every triple of the store, and each of *)
(* them once, whatever the others tried to do to the store meanwhile.      *)
THEOREM IterationsAreComplete == Spec => []IteratorsGiveEveryTriple
  <1>1. IInv => IteratorsGiveEveryTriple
    <2> SUFFICES ASSUME IInv, NEW c \in Clients, handle[c].kind = "iterator", HasEnded(handle[c])
                 PROVE  /\ Range(handle[c].given) = trie[store]
                        /\ Len(handle[c].given) = Cardinality(trie[store])
      BY DEF IteratorsGiveEveryTriple
    <2>1. handle[c] \in Iterators
      BY NoneAssumption DEF IInv, SessionInv, SessionTypes, NoHandle, Queries
    <2>2. handle[c].given \in Seq(Triples) /\ IsInjective(handle[c].given)
      BY <2>1 DEF IInv, IteratorInv, Delivers, Iterators
    <2>3. Delivers(handle[c], trie[store])
      BY <2>1 DEF IInv, IteratorInv
    <2>4. Range(handle[c].given) = trie[store]
      BY <2>3 DEF Delivers, Pending, HasEnded
    <2> QED
      BY <2>2, <2>4, LengthIsCardinality
  <1> QED
    BY <1>1, Inductive, PTL

(* load_ttl, add_statement and updates lose no triple in any sequence of   *)
(* flushes, sections, closings and openings of the two kinds of stores,    *)
(* also not one that is added between the sections of an update.           *)
THEOREM TriplesAreNotLost == Spec => []NothingIsLost
  <1> QED
    BY Inductive, PTL DEF IInv, StorageInv

(* A triple that an update took out comes back only when somebody puts it  *)
(* in, at the earliest while the update runs: the flush before it leaves   *)
(* nothing older in the bulk inserter.                                     *)
THEOREM TriplesDoNotComeBack == Spec => []NothingComesBack
  <1> QED
    BY Inductive, PTL DEF IInv, StorageInv

(* An opening that fails half way and a destroy_persistent that stops at a *)
(* missing name leave a file that can be opened.                           *)
THEOREM ObjectsAreWhole == Spec => []PersistentObjectsAreWhole
  <1> QED
    BY Inductive, PTL DEF IInv, StorageInv
=============================================================================
