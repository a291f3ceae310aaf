-------------------------- MODULE TripleStoreProofs --------------------------
(***************************************************************************)
(* Proofs about TripleStore for every set of threads and triples: its      *)
(* inductive invariant, the invariants it implies, and the refinement of   *)
(* SnapshotStore.                                                          *)
(***************************************************************************)
EXTENDS TripleStore, TLAPS

(* An update's templates make triples. *)
LEMMA InstancesType ==
    ASSUME NEW f \in Template, NEW S \in SUBSET Triple
    PROVE  Instances(f, S) \in SUBSET Triple
  BY DEF Instances, Template

LEMMA UpdateType ==
    ASSUME NEW u \in Update
    PROVE  /\ u.pattern \in BOOLEAN
           /\ u.where \in SUBSET Triple
           /\ u.remove \in Template /\ u.insert \in Template
           /\ u # None
  BY ConstantsAssumption DEF UpdateOp

(* The calls a client can begin, each with the stage it begins at. *)
CallShape(name, stage, update) ==
    \/ name = "add" /\ stage = "wantWrite"
    \/ name \in {"flush", "size", "query", "iterate", "load"} /\ stage = "wantFlush"
    \/ name = "update" /\ stage = "wantFlush" /\ update \in Update
    \/ name = "contains" /\ stage = "wantRead"

-----------------------------------------------------------------------------
(* Typing. *)

(* Whatever the call, beginning it keeps every variable typed. *)
LEMMA BeginType ==
    ASSUME TypeOK, NEW th \in Thread, NEW name \in Method, NEW stage \in Stage,
           NEW about \in SUBSET Triple, NEW update \in Update \cup {None},
           Begin(th, name, stage, about, update),
           CallShape(name, stage, update)
    PROVE  TypeOK'
  <1> USE ConstantsAssumption
  <1>1. calls' \in [Thread -> 0 .. MaxCalls]
    BY DEF TypeOK, Begin
  <1>2. /\ alive' \in BOOLEAN
        /\ hypertrie' \subseteq Triple /\ pending' \subseteq Triple /\ committed' \subseteq Triple
        /\ writer' \in Thread \cup {None}
        /\ readers' \subseteq Thread
    BY DEF TypeOK, Begin, store, lock
  <1>3. /\ pc' \in [Thread -> Stage]
        /\ op' \in [Thread -> Method]
        /\ goal' \in [Thread -> SUBSET Triple]
        /\ task' \in [Thread -> Update \cup {None}]
    BY DEF TypeOK, Begin
  <1>4. /\ seen' \in [Thread -> SUBSET Triple]
        /\ answer' \in [Thread -> {None} \cup SUBSET Triple]
        /\ toRemove' \in [Thread -> SUBSET Triple]
        /\ toInsert' \in [Thread -> SUBSET Triple]
        /\ owed' \in [Thread -> SUBSET Triple]
    BY DEF TypeOK, Begin
  <1>5. ASSUME NEW t \in Thread
        PROVE  /\ StageOK(t)'
               /\ op'[t] \in {"update", "where", "apply"} => task'[t] \in Update
    BY DEF TypeOK, Begin, StageOK, CallShape
  <1> QED
    BY <1>1, <1>2, <1>3, <1>4, <1>5 DEF TypeOK

LEMMA TypeInit == Init => TypeOK
  BY ConstantsAssumption DEF Init, TypeOK, Stage, Method, StageOK

LEMMA TypeStep ==
    ASSUME TypeOK, NEW th \in Thread, Step(th)
    PROVE  TypeOK'
  <1> USE ConstantsAssumption DEF TypeOK, store, lock, call, delta, Goto, Return, StageOK, Stage, Method,
          AcquireExclusive, ReleaseExclusive, AcquireShared, ReleaseShared
  <1>1. CASE LockForFlush(th)
    BY <1>1 DEF LockForFlush
  <1>2. CASE Flush(th)
    BY <1>2, UpdateType, InstancesType DEF Flush, Flushed
  <1>3. CASE LockForRead(th)
    BY <1>3 DEF LockForRead
  <1>4. CASE Read(th)
    BY <1>4 DEF Read
  <1>5. CASE Yield(th)
    BY <1>5, UpdateType DEF Yield, Template
  <1>6. CASE Exhaust(th)
    BY <1>6 DEF Exhaust
  <1>7. CASE Timeout(th)
    BY <1>7 DEF Timeout
  <1>8. CASE Drop(th)
    BY <1>8 DEF Drop
  <1>9. CASE LockForWrite(th)
    BY <1>9 DEF LockForWrite
  <1>10. CASE AddStatement(th)
    BY <1>10 DEF AddStatement
  <1>11. CASE BulkRemove(th)
    BY <1>11 DEF BulkRemove
  <1>12. CASE BulkInsert(th)
    BY <1>12 DEF BulkInsert
  <1>13. CASE LoadBulk(th)
    BY <1>13 DEF LoadBulk
  <1>14. CASE LoadDone(th)
    BY <1>14 DEF LoadDone
  <1> QED
    BY <1>1, <1>2, <1>3, <1>4, <1>5, <1>6, <1>7, <1>8, <1>9, <1>10, <1>11, <1>12, <1>13, <1>14 DEF Step

(* Each call that can begin is one of the shapes of BeginType. *)
LEMMA StartShape ==
    ASSUME NEW th \in Thread, Start(th)
    PROVE  \E name \in Method, stage \in Stage, about \in SUBSET Triple, update \in Update \cup {None} :
             Begin(th, name, stage, about, update) /\ CallShape(name, stage, update)
  <1> USE DEF Method, Stage, CallShape
  <1>1. CASE BeginUpdate(th)
    BY <1>1, UpdateType DEF BeginUpdate
  <1>2. CASE ~BeginUpdate(th)
    BY <1>2 DEF Start, BeginAdd, BeginFlush, BeginSize, BeginContains, BeginQuery, BeginIterate, BeginLoad
  <1> QED
    BY <1>1, <1>2

LEMMA TypeNext == TypeOK /\ [Next]_vars => TypeOK'
  <1> SUFFICES ASSUME TypeOK, [Next]_vars
               PROVE  TypeOK'
    OBVIOUS
  <1>1. CASE Destruct
    BY <1>1 DEF Destruct, TypeOK, StageOK, lock, call, delta
  <1>2. CASE UNCHANGED vars
    BY <1>2 DEF vars, TypeOK, StageOK
  <1>3. ASSUME NEW th \in Thread, Start(th)
        PROVE  TypeOK'
    BY <1>3, StartShape, BeginType
  <1>4. ASSUME NEW th \in Thread, Step(th)
        PROVE  TypeOK'
    BY <1>4, TypeStep
  <1> QED
    BY <1>1, <1>2, <1>3, <1>4 DEF Next, Gone

(* Every reachable state of every instance is well typed, and every thread *)
(* is at a stage of the method it is in.                                   *)
THEOREM TypeCorrect == Spec => []TypeOK
  BY TypeInit, TypeNext, PTL DEF Spec

-----------------------------------------------------------------------------
(* The lock. *)

LEMMA LockNext == TypeOK /\ LockInv /\ [Next]_vars => LockInv'
  <1> SUFFICES ASSUME TypeOK, LockInv, [Next]_vars
               PROVE  LockInv'
    OBVIOUS
  <1> USE ConstantsAssumption DEF TypeOK, LockInv, HoldsExclusive, HoldsShared, StageOK,
          store, lock, call, delta, Goto, Return,
          AcquireExclusive, ReleaseExclusive, AcquireShared, ReleaseShared
  <1>1. CASE Destruct
    BY <1>1 DEF Destruct
  <1>2. CASE UNCHANGED vars
    BY <1>2 DEF vars
  <1>3. ASSUME NEW th \in Thread, Start(th)
        PROVE  LockInv'
    <2>1. PICK name \in Method, stage \in Stage, about \in SUBSET Triple, update \in Update \cup {None} :
            Begin(th, name, stage, about, update) /\ CallShape(name, stage, update)
      BY <1>3, StartShape
    <2> QED
      BY <2>1 DEF Begin, CallShape
  <1>4. ASSUME NEW th \in Thread, Step(th)
        PROVE  LockInv'
    <2>1. CASE LockForFlush(th)
      BY <2>1 DEF LockForFlush
    <2>2. CASE Flush(th)
      BY <2>2 DEF Flush, Flushed
    <2>3. CASE LockForRead(th)
      BY <2>3 DEF LockForRead
    <2>4. CASE Read(th)
      BY <2>4 DEF Read
    <2>5. CASE Yield(th)
      BY <2>5 DEF Yield
    <2>6. CASE Exhaust(th)
      BY <2>6 DEF Exhaust
    <2>7. CASE Timeout(th)
      BY <2>7 DEF Timeout
    <2>8. CASE Drop(th)
      BY <2>8 DEF Drop
    <2>9. CASE LockForWrite(th)
      BY <2>9 DEF LockForWrite
    <2>10. CASE AddStatement(th)
      BY <2>10 DEF AddStatement
    <2>11. CASE BulkRemove(th)
      BY <2>11 DEF BulkRemove
    <2>12. CASE BulkInsert(th)
      BY <2>12 DEF BulkInsert
    <2>13. CASE LoadBulk(th)
      BY <2>13 DEF LoadBulk
    <2>14. CASE LoadDone(th)
      BY <2>14 DEF LoadDone
    <2> QED
      BY <1>4, <2>1, <2>2, <2>3, <2>4, <2>5, <2>6, <2>7, <2>8, <2>9, <2>10, <2>11, <2>12, <2>13, <2>14 DEF Step
  <1> QED
    BY <1>1, <1>2, <1>3, <1>4 DEF Next, Gone

(* In every reachable state the lock is owned by exactly the threads whose *)
(* control is inside a critical section, and a writer is alone.            *)
THEOREM LockCorrect == Spec => []LockInv
  <1>1. Init => LockInv
    BY ConstantsAssumption DEF Init, LockInv, HoldsExclusive, HoldsShared
  <1> QED
    BY <1>1, LockNext, TypeCorrect, PTL DEF Spec

-----------------------------------------------------------------------------
(* The store between the lock acquisitions. *)

(* Only a write section can make the hypertrie differ from what was committed. *)
LEMMA CommittedNext == TypeOK /\ LockInv /\ GeneratorInv /\ CommittedInv /\ [Next]_vars => CommittedInv'
  <1> SUFFICES ASSUME TypeOK, LockInv, GeneratorInv, CommittedInv, [Next]_vars
               PROVE  CommittedInv'
    OBVIOUS
  <1> USE ConstantsAssumption DEF TypeOK, LockInv, HoldsExclusive, HoldsShared, StageOK, GeneratorInv, CommittedInv,
          store, lock, call, delta, Goto, Return,
          AcquireExclusive, ReleaseExclusive, AcquireShared, ReleaseShared
  <1>1. CASE Destruct
    BY <1>1 DEF Destruct
  <1>2. CASE UNCHANGED vars
    BY <1>2 DEF vars
  <1>3. ASSUME NEW th \in Thread, Start(th)
        PROVE  CommittedInv'
    <2>1. PICK name \in Method, stage \in Stage, about \in SUBSET Triple, update \in Update \cup {None} :
            Begin(th, name, stage, about, update) /\ CallShape(name, stage, update)
      BY <1>3, StartShape
    <2> QED
      BY <2>1 DEF Begin, CallShape
  <1>4. ASSUME NEW th \in Thread, Step(th)
        PROVE  CommittedInv'
    <2>1. CASE LockForFlush(th)
      BY <2>1 DEF LockForFlush
    <2>2. CASE Flush(th)
      BY <2>2 DEF Flush, Flushed
    <2>3. CASE LockForRead(th)
      BY <2>3 DEF LockForRead
    <2>4. CASE Read(th)
      BY <2>4 DEF Read
    <2>5. CASE Yield(th)
      BY <2>5 DEF Yield
    <2>6. CASE Exhaust(th)
      BY <2>6 DEF Exhaust
    <2>7. CASE Timeout(th)
      BY <2>7 DEF Timeout
    <2>8. CASE Drop(th)
      BY <2>8 DEF Drop
    <2>9. CASE LockForWrite(th)
      BY <2>9 DEF LockForWrite
    <2>10. CASE AddStatement(th)
      BY <2>10 DEF AddStatement
    <2>11. CASE BulkRemove(th)
      BY <2>11 DEF BulkRemove
    <2>12. CASE BulkInsert(th)
      BY <2>12 DEF BulkInsert
    <2>13. CASE LoadBulk(th)
      BY <2>13 DEF LoadBulk
    <2>14. CASE LoadDone(th)
      BY <2>14 DEF LoadDone
    <2> QED
      BY <1>4, <2>1, <2>2, <2>3, <2>4, <2>5, <2>6, <2>7, <2>8, <2>9, <2>10, <2>11, <2>12, <2>13, <2>14 DEF Step
  <1> QED
    BY <1>1, <1>2, <1>3, <1>4 DEF Next, Gone

(* What a call is owed does not get lost between its flush and its lock. *)
LEMMA OwedNext == TypeOK /\ LockInv /\ OwedInv /\ [Next]_vars => OwedInv'
  <1> SUFFICES ASSUME TypeOK, LockInv, OwedInv, [Next]_vars
               PROVE  OwedInv'
    OBVIOUS
  <1> USE ConstantsAssumption DEF TypeOK, LockInv, HoldsExclusive, HoldsShared, StageOK, OwedInv, Flushing,
          store, lock, call, delta, Goto, Return,
          AcquireExclusive, ReleaseExclusive, AcquireShared, ReleaseShared
  <1>1. CASE Destruct
    BY <1>1 DEF Destruct
  <1>2. CASE UNCHANGED vars
    BY <1>2 DEF vars
  <1>3. ASSUME NEW th \in Thread, Start(th)
        PROVE  OwedInv'
    <2>1. PICK name \in Method, stage \in Stage, about \in SUBSET Triple, update \in Update \cup {None} :
            Begin(th, name, stage, about, update) /\ CallShape(name, stage, update)
      BY <1>3, StartShape
    <2> QED
      BY <2>1 DEF Begin, CallShape
  <1>4. ASSUME NEW th \in Thread, Step(th)
        PROVE  OwedInv'
    <2>1. CASE LockForFlush(th)
      BY <2>1 DEF LockForFlush
    <2>2. CASE Flush(th)
      BY <2>2 DEF Flush, Flushed
    <2>3. CASE LockForRead(th)
      BY <2>3 DEF LockForRead
    <2>4. CASE Read(th)
      BY <2>4 DEF Read
    <2>5. CASE Yield(th)
      BY <2>5 DEF Yield
    <2>6. CASE Exhaust(th)
      BY <2>6 DEF Exhaust
    <2>7. CASE Timeout(th)
      BY <2>7 DEF Timeout
    <2>8. CASE Drop(th)
      BY <2>8 DEF Drop
    <2>9. CASE LockForWrite(th)
      BY <2>9 DEF LockForWrite
    <2>10. CASE AddStatement(th)
      BY <2>10 DEF AddStatement
    <2>11. CASE BulkRemove(th)
      BY <2>11 DEF BulkRemove
    <2>12. CASE BulkInsert(th)
      BY <2>12 DEF BulkInsert
    <2>13. CASE LoadBulk(th)
      BY <2>13 DEF LoadBulk
    <2>14. CASE LoadDone(th)
      BY <2>14 DEF LoadDone
    <2> QED
      BY <1>4, <2>1, <2>2, <2>3, <2>4, <2>5, <2>6, <2>7, <2>8, <2>9, <2>10, <2>11, <2>12, <2>13, <2>14 DEF Step
  <1> QED
    BY <1>1, <1>2, <1>3, <1>4 DEF Next, Gone

(* A generator has yielded solutions of the state it holds locked. *)
LEMMA GeneratorNext == TypeOK /\ LockInv /\ GeneratorInv /\ [Next]_vars => GeneratorInv'
  <1> SUFFICES ASSUME TypeOK, LockInv, GeneratorInv, [Next]_vars
               PROVE  GeneratorInv'
    OBVIOUS
  <1> USE ConstantsAssumption DEF TypeOK, LockInv, HoldsExclusive, HoldsShared, StageOK, GeneratorInv, Instances,
          store, lock, call, delta, Goto, Return,
          AcquireExclusive, ReleaseExclusive, AcquireShared, ReleaseShared
  <1>1. CASE Destruct
    BY <1>1 DEF Destruct
  <1>2. CASE UNCHANGED vars
    BY <1>2 DEF vars
  <1>3. ASSUME NEW th \in Thread, Start(th)
        PROVE  GeneratorInv'
    <2>1. PICK name \in Method, stage \in Stage, about \in SUBSET Triple, update \in Update \cup {None} :
            Begin(th, name, stage, about, update) /\ CallShape(name, stage, update)
      BY <1>3, StartShape
    <2> QED
      BY <2>1 DEF Begin, CallShape
  <1>4. ASSUME NEW th \in Thread, Step(th)
        PROVE  GeneratorInv'
    <2>1. CASE LockForFlush(th)
      BY <2>1 DEF LockForFlush
    <2>2. CASE Flush(th)
      BY <2>2 DEF Flush, Flushed
    <2>3. CASE LockForRead(th)
      BY <2>3 DEF LockForRead
    <2>4. CASE Read(th)
      BY <2>4 DEF Read
    <2>5. CASE Yield(th)
      BY <2>5 DEF Yield
    <2>6. CASE Exhaust(th)
      BY <2>6 DEF Exhaust
    <2>7. CASE Timeout(th)
      BY <2>7 DEF Timeout
    <2>8. CASE Drop(th)
      BY <2>8 DEF Drop
    <2>9. CASE LockForWrite(th)
      BY <2>9 DEF LockForWrite
    <2>10. CASE AddStatement(th)
      BY <2>10 DEF AddStatement
    <2>11. CASE BulkRemove(th)
      BY <2>11 DEF BulkRemove
    <2>12. CASE BulkInsert(th)
      BY <2>12 DEF BulkInsert
    <2>13. CASE LoadBulk(th)
      BY <2>13 DEF LoadBulk
    <2>14. CASE LoadDone(th)
      BY <2>14 DEF LoadDone
    <2> QED
      BY <1>4, <2>1, <2>2, <2>3, <2>4, <2>5, <2>6, <2>7, <2>8, <2>9, <2>10, <2>11, <2>12, <2>13, <2>14 DEF Step
  <1> QED
    BY <1>1, <1>2, <1>3, <1>4 DEF Next, Gone

(* An update reaches its write lock with the entries of one whole answer. *)
LEMMA WholeUpdateNext == TypeOK /\ GeneratorInv /\ WholeUpdate /\ [Next]_vars => WholeUpdate'
  <1> SUFFICES ASSUME TypeOK, GeneratorInv, WholeUpdate, [Next]_vars
               PROVE  WholeUpdate'
    OBVIOUS
  <1> USE ConstantsAssumption DEF TypeOK, StageOK, GeneratorInv, WholeUpdate,
          store, lock, call, delta, Goto, Return
  <1>1. CASE Destruct
    BY <1>1 DEF Destruct
  <1>2. CASE UNCHANGED vars
    BY <1>2 DEF vars
  <1>3. ASSUME NEW th \in Thread, Start(th)
        PROVE  WholeUpdate'
    <2>1. PICK name \in Method, stage \in Stage, about \in SUBSET Triple, update \in Update \cup {None} :
            Begin(th, name, stage, about, update) /\ CallShape(name, stage, update)
      BY <1>3, StartShape
    <2> QED
      BY <2>1 DEF Begin, CallShape
  <1>4. ASSUME NEW th \in Thread, Step(th)
        PROVE  WholeUpdate'
    <2>1. CASE LockForFlush(th)
      BY <2>1 DEF LockForFlush
    <2>2. CASE Flush(th)
      BY <2>2, UpdateType DEF Flush, Flushed
    <2>3. CASE LockForRead(th)
      BY <2>3 DEF LockForRead
    <2>4. CASE Read(th)
      BY <2>4 DEF Read
    <2>5. CASE Yield(th)
      BY <2>5 DEF Yield
    <2>6. CASE Exhaust(th)
      BY <2>6 DEF Exhaust
    <2>7. CASE Timeout(th)
      BY <2>7 DEF Timeout
    <2>8. CASE Drop(th)
      BY <2>8 DEF Drop
    <2>9. CASE LockForWrite(th)
      BY <2>9 DEF LockForWrite
    <2>10. CASE AddStatement(th)
      BY <2>10 DEF AddStatement
    <2>11. CASE BulkRemove(th)
      BY <2>11 DEF BulkRemove
    <2>12. CASE BulkInsert(th)
      BY <2>12 DEF BulkInsert
    <2>13. CASE LoadBulk(th)
      BY <2>13 DEF LoadBulk
    <2>14. CASE LoadDone(th)
      BY <2>14 DEF LoadDone
    <2> QED
      BY <1>4, <2>1, <2>2, <2>3, <2>4, <2>5, <2>6, <2>7, <2>8, <2>9, <2>10, <2>11, <2>12, <2>13, <2>14 DEF Step
  <1> QED
    BY <1>1, <1>2, <1>3, <1>4 DEF Next, Gone

-----------------------------------------------------------------------------
(* The inductive invariant. *)

THEOREM Inductive == Spec => []IInv
  <1>1. Init => IInv
    <2>1. Init => TypeOK
      BY TypeInit
    <2>2. Init => LockInv
      BY ConstantsAssumption DEF Init, LockInv, HoldsExclusive, HoldsShared
    <2>3. Init => GeneratorInv /\ WholeUpdate /\ OwedInv /\ CommittedInv
      BY DEF Init, GeneratorInv, WholeUpdate, OwedInv, CommittedInv, Flushing
    <2> QED
      BY <2>1, <2>2, <2>3 DEF IInv
  <1>2. IInv /\ [Next]_vars => IInv'
    BY TypeNext, LockNext, GeneratorNext, WholeUpdateNext, OwedNext, CommittedNext DEF IInv
  <1> QED
    BY <1>1, <1>2, PTL DEF Spec

(* A flushing call reads, and an update applies, at a state that holds     *)
(* every statement stored or added before the call began, except those an  *)
(* update removed since.                                                   *)
THEOREM ReadsAreFresh == Spec => []FreshRead
  <1>1. IInv => FreshRead
    BY DEF IInv, OwedInv, FreshRead, Flushing
  <1> QED
    BY <1>1, Inductive, PTL

(* No update applies the entries of a part of its answer. *)
THEOREM UpdatesAreWhole == Spec => []WholeUpdate
  <1>1. IInv => WholeUpdate
    BY DEF IInv
  <1> QED
    BY <1>1, Inductive, PTL

-----------------------------------------------------------------------------
(* The refinement: every step is a step of SnapshotStore or none.          *)

LEMMA RefineInit == Init => Abstract!Init
  BY DEF Init, Abstract!Init, KindMap, ViewMap, KindOf

LEMMA RefineStart ==
    ASSUME IInv, NEW th \in Thread, Start(th)
    PROVE  Abstract!Call(th)
  <1>1. PICK name \in Method, stage \in Stage, about \in SUBSET Triple, update \in Update \cup {None} :
          Begin(th, name, stage, about, update) /\ CallShape(name, stage, update)
    BY StartShape
  <1>2. KindOf(name) = name /\ name \in Abstract!Readers \cup Abstract!Writers \cup {"flush", "update"}
    BY <1>1 DEF CallShape, KindOf, Abstract!Readers, Abstract!Writers
  <1>3. KindMap[th] = "none" /\ KindMap' = [KindMap EXCEPT ![th] = name]
    BY <1>1, <1>2 DEF Begin, IInv, TypeOK, StageOK, KindMap, KindOf
  <1>4. Abstract!Ask(th, name, about, update)
    BY <1>1, <1>3 DEF Abstract!Ask, Begin, ViewMap, store, lock
  <1> QED
    BY <1>2, <1>4 DEF Abstract!Call

LEMMA RefineFlush ==
    ASSUME IInv, NEW th \in Thread, Flush(th)
    PROVE  Abstract!SyncFor(th)
  <1>1. readers = {} /\ readers' = {} /\ hypertrie = committed
    BY ConstantsAssumption
    DEF IInv, TypeOK, LockInv, HoldsExclusive, HoldsShared, CommittedInv, Flush, ReleaseExclusive
  <1>2. ViewMap = [t \in Thread |-> None] /\ ViewMap' = ViewMap
    BY <1>1 DEF ViewMap
  <1>3. Abstract!Sync
    BY <1>1, <1>2 DEF Abstract!Sync, Abstract!Quiet, Flush, Flushed, Return, Goto, call
  <1>4. \/ KindMap' = KindMap
        \/ KindMap[th] = "flush" /\ KindMap' = [KindMap EXCEPT ![th] = "none"]
    BY DEF IInv, TypeOK, Flush, Flushed, Return, Goto, call, KindMap, KindOf
  <1> QED
    BY <1>3, <1>4 DEF Abstract!SyncFor

LEMMA RefineRead ==
    ASSUME IInv, NEW th \in Thread,
           LockForRead(th) \/ Read(th) \/ Yield(th) \/ Exhaust(th) \/ Timeout(th) \/ Drop(th)
    PROVE  Abstract!Call(th) \/ UNCHANGED Abstract!avars
  <1> USE DEF IInv, TypeOK, StageOK, KindMap, KindOf, ViewMap
  <1>1. CASE LockForRead(th)
    <2>1. readers' = readers \cup {th} /\ th \notin readers /\ hypertrie' = hypertrie /\ hypertrie = committed
          /\ answer[th] = None
      BY <1>1, ConstantsAssumption DEF LockForRead, AcquireShared, LockInv, HoldsShared, HoldsExclusive,
         store, CommittedInv, GeneratorInv, Goto
    <2>2. KindMap' = KindMap /\ KindMap[th] \in Abstract!Readers \cup {"update"}
      BY <1>1 DEF LockForRead, Goto, call, Abstract!Readers
    <2>3. ViewMap[th] = None /\ ViewMap' = [ViewMap EXCEPT ![th] = committed]
      BY <2>1
    <2>4. Abstract!Open(th)
      BY <1>1, <2>1, <2>2, <2>3 DEF Abstract!Open, LockForRead, Goto, call, store
    <2> QED
      BY <2>4 DEF Abstract!Call
  <1>2. ASSUME NEW name \in {"size", "contains", "query"}, op[th] = name, pc[th] = "reading",
               answer' = [answer EXCEPT ![th] = hypertrie \cap goal[th]],
               ReleaseShared(th), Return(th), UNCHANGED store
        PROVE  Abstract!Answer(th)
    <2>1. th \in readers /\ answer[th] = None
      BY <1>2 DEF LockInv, HoldsShared, GeneratorInv
    <2>2. KindMap[th] = name /\ KindMap' = [KindMap EXCEPT ![th] = "none"]
      BY <1>2 DEF Return
    <2>3. ViewMap[th] = hypertrie /\ ViewMap' = [ViewMap EXCEPT ![th] = None]
      BY <1>2, <2>1 DEF ReleaseShared, store
    <2> QED
      BY <1>2, <2>1, <2>2, <2>3, ConstantsAssumption DEF Abstract!Answer, Abstract!Readers, Return, store
  <1>3. CASE Read(th)
    BY <1>2, <1>3 DEF Read, Abstract!Call
  <1>4. CASE Yield(th)
    BY <1>4 DEF Yield, Abstract!avars, store, lock, call
  <1>5. CASE Exhaust(th)
    <2>1. seen[th] = hypertrie \cap goal[th]
      BY <1>5 DEF Exhaust, GeneratorInv
    <2>2. CASE op[th] = "query"
      BY <1>2, <1>5, <2>1, <2>2 DEF Exhaust, Abstract!Call
    <2>3. th \in readers /\ answer[th] = None /\ ViewMap[th] = hypertrie
      BY <1>5 DEF Exhaust, LockInv, HoldsShared, GeneratorInv
    <2>4. CASE op[th] = "iterate"
      <3>1. KindMap' = KindMap /\ KindMap[th] = "iterate" /\ ViewMap' = ViewMap
        BY <1>5, <2>4 DEF Exhaust, Goto, call, lock, store
      <3> QED
        BY <1>5, <2>1, <2>3, <2>4, <3>1, ConstantsAssumption
        DEF Exhaust, Goto, call, store, Abstract!Call, Abstract!Answer
    <2>5. CASE op[th] = "where"
      <3>1. KindMap' = KindMap /\ KindMap[th] = "update"
        BY <1>5, <2>5 DEF Exhaust
      <3>2. ViewMap' = [ViewMap EXCEPT ![th] = None]
        BY <1>5, <2>5 DEF Exhaust, ReleaseShared, store
      <3> QED
        BY <1>5, <2>1, <2>3, <2>5, <3>1, <3>2, ConstantsAssumption
        DEF Exhaust, store, Abstract!Call, Abstract!Answer
    <2> QED
      BY <1>5, <2>2, <2>4, <2>5 DEF Exhaust
  <1>6. ASSUME op[th] \in {"query", "iterate", "where"}, ReleaseShared(th), Return(th),
               UNCHANGED <<store, answer>>
        PROVE  Abstract!GiveUp(th)
    <2>1. KindMap[th] \in {"query", "iterate", "update"} /\ KindMap' = [KindMap EXCEPT ![th] = "none"]
      BY <1>6 DEF Return
    <2>2. ViewMap' = [ViewMap EXCEPT ![th] = None]
      BY <1>6 DEF ReleaseShared, store
    <2> QED
      BY <1>6, <2>1, <2>2 DEF Abstract!GiveUp, Return, store
  <1>7. CASE Timeout(th)
    BY <1>6, <1>7 DEF Timeout, Abstract!Call
  <1>8. CASE Drop(th)
    BY <1>6, <1>8 DEF Drop, Abstract!Call
  <1> QED
    BY <1>1, <1>3, <1>4, <1>5, <1>7, <1>8

LEMMA RefineWrite ==
    ASSUME IInv, NEW th \in Thread,
           \/ AddStatement(th) \/ BulkRemove(th) \/ BulkInsert(th) \/ LoadBulk(th) \/ LoadDone(th)
    PROVE  Abstract!Call(th) \/ UNCHANGED Abstract!avars
  <1> USE DEF IInv, TypeOK, StageOK
  <1>1. readers = {} /\ readers' = {} /\ writer = th
    BY ConstantsAssumption DEF LockInv, HoldsExclusive, HoldsShared, AddStatement, BulkRemove, BulkInsert,
       LoadBulk, LoadDone, ReleaseExclusive, lock
  <1>2. ViewMap = [t \in Thread |-> None] /\ ViewMap' = ViewMap
    BY <1>1 DEF ViewMap
  <1>3. CASE AddStatement(th)
    <2>1. KindMap[th] = "add" /\ KindMap' = [KindMap EXCEPT ![th] = "none"]
      BY <1>3 DEF AddStatement, Return, KindMap, KindOf
    <2>2. hypertrie = committed
      BY <1>3 DEF AddStatement, CommittedInv, LockInv, HoldsExclusive
    <2> QED
      BY <1>2, <1>3, <2>1, <2>2 DEF AddStatement, Return, Abstract!Quiet, Abstract!Add, Abstract!Call
  <1>4. CASE BulkRemove(th)
    BY <1>2, <1>4 DEF BulkRemove, Goto, call, KindMap, Abstract!avars
  <1>5. CASE BulkInsert(th)
    <2>1. KindMap[th] = "update" /\ KindMap' = [KindMap EXCEPT ![th] = "none"]
      BY <1>5 DEF BulkInsert, Return, KindMap, KindOf
    <2>2. task[th].pattern => answer[th] # None
      BY <1>5 DEF BulkInsert, WholeUpdate
    <2>3. /\ toRemove[th] = Instances(task[th].remove, Abstract!Sources(task[th], answer[th]))
          /\ toInsert[th] = Instances(task[th].insert, Abstract!Sources(task[th], answer[th]))
      BY <1>5 DEF BulkInsert, WholeUpdate, Abstract!Sources
    <2>4. hypertrie = committed \ toRemove[th]
      BY <1>5 DEF BulkInsert, CommittedInv
    <2>5. Abstract!Quiet
      BY <1>2 DEF Abstract!Quiet
    <2> QED
      BY <1>2, <1>5, <2>1, <2>2, <2>3, <2>4, <2>5
      DEF BulkInsert, Return, Instances, Abstract!Instances, Abstract!Apply, Abstract!Call
  <1>6. CASE LoadBulk(th)
    BY <1>2, <1>6 DEF LoadBulk, call, KindMap, Abstract!avars
  <1>7. CASE LoadDone(th)
    <2>1. KindMap[th] = "load" /\ KindMap' = [KindMap EXCEPT ![th] = "none"]
      BY <1>7 DEF LoadDone, Return, KindMap, KindOf
    <2>2. hypertrie = committed \cup goal[th]
      BY <1>7 DEF LoadDone, CommittedInv
    <2> QED
      BY <1>2, <1>7, <2>1, <2>2 DEF LoadDone, Return, Abstract!Quiet, Abstract!Load, Abstract!Call
  <1> QED
    BY <1>3, <1>4, <1>5, <1>6, <1>7

(* Taking the exclusive lock is invisible. *)
LEMMA RefineLock ==
    ASSUME NEW th \in Thread, LockForFlush(th) \/ LockForWrite(th)
    PROVE  UNCHANGED Abstract!avars
  BY DEF LockForFlush, LockForWrite, AcquireExclusive, Goto, call, store, KindMap, ViewMap, Abstract!avars

LEMMA RefineDestruct == IInv /\ Destruct => Abstract!Close
  <1> SUFFICES ASSUME IInv, Destruct
               PROVE  Abstract!Close
    OBVIOUS
  <1>1. readers = {} /\ hypertrie = committed
    BY DEF IInv, LockInv, HoldsShared, CommittedInv, Destruct
  <1>2. ViewMap = [t \in Thread |-> None] /\ ViewMap' = ViewMap /\ KindMap' = KindMap
    BY <1>1 DEF ViewMap, KindMap, Destruct, lock, call
  <1> QED
    BY <1>1, <1>2 DEF Destruct, call, Abstract!Close, Abstract!Sync, Abstract!Quiet

(* The locked, flushing, lazily evaluating store implements the one whose  *)
(* every call reads or changes a single state.                             *)
THEOREM Refinement == Spec => ImplementsSnapshotStore
  <1>1. IInv /\ [Next]_vars => [Abstract!Next]_(Abstract!avars)
    <2> SUFFICES ASSUME IInv, [Next]_vars
                 PROVE  [Abstract!Next]_(Abstract!avars)
      OBVIOUS
    <2>1. CASE Destruct
      BY <2>1, RefineDestruct DEF Abstract!Next
    <2>2. CASE UNCHANGED vars
      BY <2>2 DEF vars, KindMap, ViewMap, Abstract!avars
    <2>3. ASSUME NEW th \in Thread, Start(th) \/ Step(th)
          PROVE  Abstract!Call(th) \/ UNCHANGED Abstract!avars
      <3>1. CASE Start(th)
        BY <3>1, RefineStart
      <3>2. CASE Flush(th)
        BY <3>2, RefineFlush DEF Abstract!Call
      <3>3. CASE Step(th) /\ ~Flush(th)
        BY <3>3, RefineLock, RefineRead, RefineWrite DEF Step
      <3> QED
        BY <2>3, <3>1, <3>2, <3>3
    <2> QED
      BY <2>1, <2>2, <2>3 DEF Next, Gone, Abstract!Next
  <1> QED
    BY <1>1, RefineInit, Inductive, PTL DEF Spec, ImplementsSnapshotStore, Abstract!Spec
=============================================================================
