------------------------ MODULE NodeTypeStorageProofs ------------------------
(***************************************************************************)
(* Proofs about NodeTypeStorage for every set of threads, values and ids:  *)
(* its inductive invariant and the refinement of NodeTable.                *)
(***************************************************************************)
EXTENDS NodeTypeStorage, TLAPS

-----------------------------------------------------------------------------
(* Typing. *)

LEMMA TypeInit == Init => TypeOK
  <1> SUFFICES ASSUME Init
               PROVE  TypeOK
    OBVIOUS
  <1>1. id2data \in [Id -> Value \cup {None}]
    BY ConstantsAssumption DEF Init
  <1>2. data2id \subseteq Value \X Id
    BY ConstantsAssumption DEF Init, Pairs
  <1>3. next_id \in [Class -> First .. Width] /\ calls \in [Thread -> 0 .. MaxCalls]
    BY ConstantsAssumption DEF Init
  <1> QED
    BY <1>1, <1>2, <1>3 DEF Init, TypeOK, Stage, StageOK

LEMMA TypeStep ==
    ASSUME TypeOK, NEW th \in Thread, Step(th)
    PROVE  TypeOK'
  <1> USE ConstantsAssumption DEF TypeOK, tables, lock, Goto, Return, StageOK, Stage,
          AcquireExclusive, ReleaseExclusive, AcquireShared, ReleaseShared, Found
  <1>1. CASE LockToProbe(th)
    BY <1>1 DEF LockToProbe
  <1>2. CASE Probe(th)
    BY <1>2 DEF Probe
  <1>3. CASE LockToInsert(th)
    BY <1>3 DEF LockToInsert
  <1>4. CASE FoundMeanwhile(th)
    BY <1>4 DEF FoundMeanwhile
  <1>5. CASE Insert(th)
    <2> DEFINE c == ClassOf[request[th].value]
               p == <<request[th].value, <<c, next_id[c]>>>>
    <2>1. request[th].value \in Value /\ c \in Class
      BY <1>5 DEF Insert
    <2>2. next_id[c] \in 0 .. Width - 1 /\ next_id[c] + 1 \in First .. Width
      BY <1>5, <2>1 DEF Insert
    <2>3. p \in Value \X Id /\ p # None
      BY <2>1, <2>2 DEF Id
    <2>4. /\ next_id' = [next_id EXCEPT ![c] = @ + 1]
          /\ data2id' = data2id \cup {p}
          /\ local' = [local EXCEPT ![th] = p]
      BY <1>5 DEF Insert
    <2> HIDE DEF p, c
    <2>5. next_id' \in [Class -> First .. Width] /\ data2id' \subseteq Value \X Id
      BY <2>1, <2>2, <2>3, <2>4
    <2>6. local' \in [Thread -> (Value \X Id) \cup {None}]
      BY <2>3, <2>4
    <2> QED
      BY <1>5, <2>3, <2>4, <2>5, <2>6 DEF Insert
  <1>6. CASE OutOfIds(th)
    BY <1>6 DEF OutOfIds
  <1>7. CASE Link(th)
    BY <1>7 DEF Link
  <1>8. CASE LockToView(th)
    BY <1>8 DEF LockToView
  <1>9. CASE View(th)
    BY <1>9 DEF View
  <1>10. CASE LockToErase(th)
    BY <1>10 DEF LockToErase
  <1>11. CASE EraseUnknown(th)
    BY <1>11 DEF EraseUnknown
  <1>12. CASE Erase(th)
    BY <1>12 DEF Erase
  <1>13. CASE Unlink(th)
    BY <1>13 DEF Unlink
  <1> QED
    BY <1>1, <1>2, <1>3, <1>4, <1>5, <1>6, <1>7, <1>8, <1>9, <1>10, <1>11, <1>12, <1>13 DEF Step

(* A call begins at the stage that fits what it asks for. *)
LEMMA BeginShape ==
    ASSUME NEW th \in Thread, Begin(th)
    PROVE  \E rq \in Request :
             /\ request' = [request EXCEPT ![th] = rq]
             /\ \/ rq \in [call : {"make", "find"}, value : Value] /\ pc' = [pc EXCEPT ![th] = "wantProbe"]
                \/ rq \in [call : {"view"}, id : Id] /\ pc' = [pc EXCEPT ![th] = "wantView"]
                \/ rq \in [call : {"erase"}, id : Id] /\ pc' = [pc EXCEPT ![th] = "wantErase"]
  <1>1. PICK rq \in Request :
          /\ request' = [request EXCEPT ![th] = rq]
          /\ pc' = [pc EXCEPT ![th] = CASE rq.call \in {"make", "find"} -> "wantProbe"
                                        [] rq.call = "view" -> "wantView"
                                        [] rq.call = "erase" -> "wantErase"]
    BY DEF Begin
  <1>2. CASE rq \in [call : {"make", "find"}, value : Value]
    BY <1>1, <1>2
  <1>3. CASE rq \in [call : {"view", "erase"}, id : Id]
    <2>1. CASE rq.call = "view"
      BY <1>1, <1>3, <2>1
    <2>2. CASE rq.call = "erase"
      BY <1>1, <1>3, <2>2
    <2> QED
      BY <1>3, <2>1, <2>2
  <1> QED
    BY <1>1, <1>2, <1>3 DEF Request

LEMMA TypeBegin ==
    ASSUME TypeOK, NEW th \in Thread, Begin(th)
    PROVE  TypeOK'
  <1>1. PICK rq \in Request :
             /\ request' = [request EXCEPT ![th] = rq]
             /\ \/ rq \in [call : {"make", "find"}, value : Value] /\ pc' = [pc EXCEPT ![th] = "wantProbe"]
                \/ rq \in [call : {"view"}, id : Id] /\ pc' = [pc EXCEPT ![th] = "wantView"]
                \/ rq \in [call : {"erase"}, id : Id] /\ pc' = [pc EXCEPT ![th] = "wantErase"]
    BY BeginShape
  <1>2. /\ id2data' = id2data /\ data2id' = data2id /\ next_id' = next_id
        /\ writer' = writer /\ readers' = readers /\ terminated' = terminated /\ local' = local
    BY DEF Begin, tables, lock
  <1>3. calls' \in [Thread -> 0 .. MaxCalls]
    BY ConstantsAssumption DEF Begin, TypeOK
  <1>4. request' \in [Thread -> Request \cup {None}] /\ pc' \in [Thread -> Stage]
    BY <1>1 DEF TypeOK, Stage
  <1>5. \A t \in Thread : StageOK(t)'
    BY <1>1 DEF TypeOK, StageOK, Stage
  <1>6. \A t \in Thread : local'[t] # None <=> pc'[t] \in {"linking", "unlinking"}
    BY <1>1, <1>2 DEF TypeOK, Begin
  <1> QED
    BY <1>2, <1>3, <1>4, <1>5, <1>6 DEF TypeOK

LEMMA TypeNext == TypeOK /\ [Next]_vars => TypeOK'
  <1> SUFFICES ASSUME TypeOK, [Next]_vars
               PROVE  TypeOK'
    OBVIOUS
  <1>1. CASE UNCHANGED vars
    BY <1>1 DEF vars, TypeOK, StageOK
  <1> QED
    BY <1>1, TypeBegin, TypeStep DEF Next, Stop

(* Every reachable state of every instance is well typed: no id outgrows   *)
(* its bits, and every thread is at a stage of the call it is in.          *)
THEOREM TypeCorrect == Spec => []TypeOK
  BY TypeInit, TypeNext, PTL DEF Spec

-----------------------------------------------------------------------------
(* The mutex. *)

LEMMA LockNext == TypeOK /\ LockInv /\ [Next]_vars => LockInv'
  <1> SUFFICES ASSUME TypeOK, LockInv, [Next]_vars
               PROVE  LockInv'
    OBVIOUS
  <1> USE ConstantsAssumption DEF TypeOK, LockInv, HoldsExclusive, HoldsShared, tables, lock, Goto, Return,
          AcquireExclusive, ReleaseExclusive, AcquireShared, ReleaseShared
  <1>1. CASE UNCHANGED vars
    BY <1>1 DEF vars
  <1>2. ASSUME NEW th \in Thread, Begin(th)
        PROVE  LockInv'
    <2>1. pc[th] = "idle" /\ \E stage \in {"wantProbe", "wantView", "wantErase"} : pc' = [pc EXCEPT ![th] = stage]
      BY <1>2, BeginShape DEF Begin
    <2>2. writer' = writer /\ readers' = readers
      BY <1>2 DEF Begin
    <2>3. \A t \in Thread : (HoldsExclusive(t)' <=> HoldsExclusive(t)) /\ (HoldsShared(t)' <=> HoldsShared(t))
      BY <2>1
    <2> QED
      BY <2>2, <2>3
  <1>3. ASSUME NEW th \in Thread, Step(th)
        PROVE  LockInv'
    <2>1. CASE LockToProbe(th) \/ LockToView(th)
      BY <2>1 DEF LockToProbe, LockToView
    <2>2. CASE Probe(th)
      BY <2>2 DEF Probe
    <2>3. CASE View(th)
      BY <2>3 DEF View
    <2>4. CASE LockToInsert(th) \/ LockToErase(th)
      BY <2>4 DEF LockToInsert, LockToErase
    <2>5. CASE FoundMeanwhile(th) \/ EraseUnknown(th)
      BY <2>5 DEF FoundMeanwhile, EraseUnknown
    <2>6. CASE Insert(th)
      BY <2>6 DEF Insert
    <2>7. CASE Erase(th)
      BY <2>7 DEF Erase
    <2>8. CASE OutOfIds(th)
      BY <2>8 DEF OutOfIds
    <2>9. CASE Link(th) \/ Unlink(th)
      BY <2>9 DEF Link, Unlink
    <2> QED
      BY <1>3, <2>1, <2>2, <2>3, <2>4, <2>5, <2>6, <2>7, <2>8, <2>9 DEF Step
  <1> QED
    BY <1>1, <1>2, <1>3 DEF Next, Stop

(* The mutex is owned by exactly the threads inside its critical sections. *)
THEOREM LockCorrect == Spec => []LockInv
  <1>1. Init => LockInv
    BY ConstantsAssumption DEF Init, LockInv, HoldsExclusive, HoldsShared
  <1> QED
    BY <1>1, LockNext, TypeCorrect, PTL DEF Spec

-----------------------------------------------------------------------------
(* The two maps. *)

Busy(th) == pc[th] \in {"linking", "unlinking"}
MapInv == TablesInverse /\ OneIdPerValue /\ CounterInv /\ LocalInv

(* A step that touches neither a map nor a thread between two updates. *)
LEMMA MapQuiet ==
    ASSUME TypeOK, MapInv,
           id2data' = id2data, data2id' = data2id, next_id' = next_id, local' = local,
           \A t \in Thread : \/ pc'[t] = pc[t] /\ request'[t] = request[t]
                            \/ /\ pc[t] \notin {"linking", "unlinking"}
                               /\ pc'[t] \notin {"linking", "unlinking"}
    PROVE  MapInv'
  <1>1. TablesInverse'
    BY DEF MapInv, TablesInverse
  <1>2. OneIdPerValue' /\ CounterInv'
    BY DEF MapInv, OneIdPerValue, CounterInv
  <1>3. LocalInv'
    BY DEF MapInv, LocalInv
  <1> QED
    BY <1>1, <1>2, <1>3 DEF MapInv

LEMMA MapInsert ==
    ASSUME TypeOK, LockInv, MapInv, NEW th \in Thread, Insert(th)
    PROVE  MapInv'
  <1> DEFINE v == request[th].value
             c == ClassOf[v]
             i == <<c, next_id[c]>>
  <1>1. v \in Value /\ c \in Class /\ next_id[c] \in First .. Width /\ i \in Id
    BY ConstantsAssumption DEF Insert, TypeOK, StageOK, Id
  <1>2. /\ pc[th] = "checking" /\ pc' = [pc EXCEPT ![th] = "linking"]
        /\ data2id' = data2id \cup {<<v, i>>}
        /\ next_id' = [next_id EXCEPT ![c] = @ + 1]
        /\ local' = [local EXCEPT ![th] = <<v, i>>]
        /\ id2data' = id2data /\ request' = request
        /\ Found(v) = {}
    BY DEF Insert, Goto
  <1>3. \A j \in Id : <<v, j>> \notin data2id
    BY <1>2 DEF Found
  <1> HIDE DEF v
  <1>4. \A t \in Thread : ~Busy(t)
    BY <1>2 DEF LockInv, HoldsExclusive, Busy, TypeOK
  <1>5. TablesInverse'
    <2>1. local'[th] = <<v, i>> /\ pc'[th] = "linking"
      BY <1>2 DEF TypeOK
    <2>2. \A t \in Thread : t # th => pc'[t] \notin {"linking", "unlinking"}
      BY <1>2, <1>4 DEF Busy, TypeOK
    <2>3. \A u \in Value, j \in Id : <<u, j>> \in data2id <=> id2data[j] = u
      BY <1>4 DEF MapInv, TablesInverse, Busy
    <2> QED
      BY <1>2, <2>1, <2>2, <2>3 DEF TablesInverse
  <1>6. OneIdPerValue'
    BY <1>1, <1>2, <1>3 DEF MapInv, OneIdPerValue
  <1>7. CounterInv'
    <2> SUFFICES ASSUME NEW u \in Value, NEW j \in Id, <<u, j>> \in data2id'
                 PROVE  j[2] < next_id'[j[1]]
      BY DEF CounterInv
    <2>1. j[1] \in Class /\ j[2] \in Nat /\ next_id[j[1]] \in Nat
      BY ConstantsAssumption DEF Id, TypeOK
    <2>2. CASE <<u, j>> \in data2id
      BY <1>1, <1>2, <2>1, <2>2, ConstantsAssumption DEF MapInv, CounterInv, TypeOK
    <2>3. CASE j = i
      BY <1>1, <1>2, <2>3, ConstantsAssumption DEF TypeOK
    <2> QED
      BY <1>2, <2>2, <2>3
  <1>8. LocalInv'
    <2>1. id2data[i] = None
      <3>1. \A u \in Value : <<u, i>> \notin data2id
        BY <1>1, ConstantsAssumption DEF MapInv, CounterInv
      <3> QED
        BY <1>1, <3>1 DEF MapInv, TablesInverse, TypeOK
    <2>2. next_id'[c] = next_id[c] + 1
      BY <1>1, <1>2 DEF TypeOK
    <2>3. local'[th] = <<v, i>> /\ pc'[th] = "linking"
      BY <1>2 DEF TypeOK
    <2>4. First <= next_id[c]
      BY <1>1, ConstantsAssumption
    <2>5. \A t \in Thread : t # th => pc'[t] \notin {"linking", "unlinking"}
      BY <1>2, <1>4 DEF Busy, TypeOK
    <2>6. local'[th][1] = request'[th].value /\ id2data'[local'[th][2]] = None
      BY <1>2, <2>1, <2>3 DEF v
    <2>7. local'[th][2][2] + 1 = next_id'[local'[th][2][1]] /\ First <= local'[th][2][2]
      BY <2>2, <2>3, <2>4
    <2> QED
      BY <2>3, <2>5, <2>6, <2>7 DEF LocalInv
  <1> QED
    BY <1>5, <1>6, <1>7, <1>8 DEF MapInv

LEMMA MapLink ==
    ASSUME TypeOK, LockInv, MapInv, NEW th \in Thread, Link(th)
    PROVE  MapInv'
  <1> USE ConstantsAssumption
  <1>1. PICK v \in Value, i \in Id : local[th] = <<v, i>>
    BY DEF Link, TypeOK
  <1>2. /\ pc[th] = "linking" /\ pc' = [pc EXCEPT ![th] = "idle"]
        /\ id2data' = [id2data EXCEPT ![i] = v]
        /\ local' = [local EXCEPT ![th] = None]
        /\ data2id' = data2id /\ next_id' = next_id
    BY <1>1 DEF Link, Return
  <1>3. id2data[i] = None /\ <<v, i>> \in data2id
    BY <1>1, <1>2 DEF MapInv, LocalInv, TablesInverse
  <1>4. \A t \in Thread : t # th => ~Busy(t)
    BY <1>2 DEF LockInv, HoldsExclusive, Busy, TypeOK
  <1>5. \A t \in Thread : ~Busy(t)'
    BY <1>2, <1>4 DEF Busy, TypeOK
  <1>6. TablesInverse'
    <2> SUFFICES ASSUME NEW u \in Value, NEW j \in Id
                 PROVE  <<u, j>> \in data2id <=> id2data'[j] = u
      BY <1>2, <1>5 DEF TablesInverse, Busy
    <2>1. <<u, j>> \in data2id <=> (id2data[j] = u \/ <<u, j>> = <<v, i>>)
      BY <1>1, <1>2, <1>4 DEF MapInv, TablesInverse, Busy
    <2>2. CASE j = i
      <3>1. \A x \in Value : <<x, i>> \in data2id => x = v
        BY <1>1, <1>2, <1>3, <1>4 DEF MapInv, TablesInverse, Busy
      <3> QED
        BY <1>2, <1>3, <2>2, <3>1 DEF TypeOK
    <2>3. CASE j # i
      BY <1>2, <2>1, <2>3 DEF TypeOK
    <2> QED
      BY <2>2, <2>3
  <1>7. OneIdPerValue' /\ CounterInv'
    BY <1>2 DEF MapInv, OneIdPerValue, CounterInv
  <1>8. LocalInv'
    BY <1>5 DEF LocalInv, Busy
  <1> QED
    BY <1>6, <1>7, <1>8 DEF MapInv

LEMMA MapErase ==
    ASSUME TypeOK, LockInv, MapInv, NEW th \in Thread, Erase(th)
    PROVE  MapInv' /\ local'[th] = <<id2data[request[th].id], request[th].id>>
  <1> USE ConstantsAssumption
  <1> DEFINE i == request[th].id
             v == id2data[i]
  <1>1. i \in Id /\ v \in Value
    BY DEF Erase, TypeOK, StageOK
  <1>2. /\ pc[th] = "erasing" /\ pc' = [pc EXCEPT ![th] = "unlinking"]
        /\ id2data' = [id2data EXCEPT ![i] = None]
        /\ data2id' = data2id /\ next_id' = next_id /\ request' = request
    BY DEF Erase, Goto
  <1>3. \A t \in Thread : ~Busy(t)
    BY <1>2 DEF LockInv, HoldsExclusive, Busy, TypeOK
  <1>4. local' = [local EXCEPT ![th] = <<v, i>>]
    <2>1. <<v, i>> \in data2id
      BY <1>1 DEF MapInv, TablesInverse
    <2>2. \A p \in Found(v) : p = <<v, i>>
      BY <1>1, <2>1 DEF Found, MapInv, OneIdPerValue, TypeOK
    <2> QED
      BY <2>2 DEF Erase
  <1> HIDE DEF v
  <1>5. TablesInverse'
    <2> SUFFICES ASSUME NEW u \in Value, NEW j \in Id
                 PROVE  <<u, j>> \in data2id <=> (id2data'[j] = u \/ <<u, j>> = <<v, i>>)
      <3>1. local'[th] = <<v, i>> /\ pc'[th] = "unlinking" /\ \A t \in Thread : t # th => pc'[t] \notin {"linking", "unlinking"}
        BY <1>2, <1>3, <1>4 DEF Busy, TypeOK
      <3> QED
        BY <1>2, <3>1 DEF TablesInverse
    <2>1. <<u, j>> \in data2id <=> id2data[j] = u
      BY <1>3 DEF MapInv, TablesInverse, Busy
    <2> QED
      BY <1>1, <1>2, <2>1 DEF TypeOK, v
  <1>6. OneIdPerValue' /\ CounterInv'
    BY <1>2 DEF MapInv, OneIdPerValue, CounterInv
  <1>7. LocalInv'
    <2>1. local'[th] = <<v, i>> /\ pc'[th] = "unlinking" /\ id2data'[i] = None
      BY <1>1, <1>2, <1>4 DEF TypeOK
    <2>2. \A t \in Thread : t # th => pc'[t] \notin {"linking", "unlinking"}
      BY <1>2, <1>3 DEF Busy, TypeOK
    <2> QED
      BY <1>2, <2>1, <2>2 DEF LocalInv
  <1> QED
    BY <1>4, <1>5, <1>6, <1>7 DEF MapInv, v, TypeOK

LEMMA MapUnlink ==
    ASSUME TypeOK, LockInv, MapInv, NEW th \in Thread, Unlink(th)
    PROVE  MapInv'
  <1> USE ConstantsAssumption
  <1>1. PICK v \in Value, i \in Id : local[th] = <<v, i>>
    BY DEF Unlink, TypeOK
  <1>2. /\ pc[th] = "unlinking" /\ pc' = [pc EXCEPT ![th] = "idle"]
        /\ data2id' = data2id \ {<<v, i>>}
        /\ local' = [local EXCEPT ![th] = None]
        /\ id2data' = id2data /\ next_id' = next_id
    BY <1>1 DEF Unlink, Return
  <1>3. id2data[i] = None
    BY <1>1, <1>2 DEF MapInv, LocalInv
  <1>4. \A t \in Thread : t # th => ~Busy(t)
    BY <1>2 DEF LockInv, HoldsExclusive, Busy, TypeOK
  <1>5. \A t \in Thread : ~Busy(t)'
    BY <1>2, <1>4 DEF Busy, TypeOK
  <1>6. TablesInverse'
    <2> SUFFICES ASSUME NEW u \in Value, NEW j \in Id
                 PROVE  <<u, j>> \in data2id' <=> id2data[j] = u
      BY <1>2, <1>5 DEF TablesInverse, Busy
    <2>1. <<u, j>> \in data2id <=> (id2data[j] = u \/ <<u, j>> = <<v, i>>)
      BY <1>1, <1>2, <1>4 DEF MapInv, TablesInverse, Busy
    <2> QED
      BY <1>2, <1>3, <2>1
  <1>7. OneIdPerValue' /\ CounterInv'
    BY <1>2 DEF MapInv, OneIdPerValue, CounterInv
  <1>8. LocalInv'
    BY <1>5 DEF LocalInv, Busy
  <1> QED
    BY <1>6, <1>7, <1>8 DEF MapInv

LEMMA MapNext == TypeOK /\ LockInv /\ MapInv /\ [Next]_vars => MapInv'
  <1> SUFFICES ASSUME TypeOK, LockInv, MapInv, [Next]_vars
               PROVE  MapInv'
    OBVIOUS
  <1>1. CASE UNCHANGED vars
    BY <1>1, MapQuiet DEF vars
  <1>2. ASSUME NEW th \in Thread, Begin(th)
        PROVE  MapInv'
    <2>1. PICK stage \in {"wantProbe", "wantView", "wantErase"} :
            pc[th] = "idle" /\ pc' = [pc EXCEPT ![th] = stage]
      BY <1>2, BeginShape DEF Begin
    <2>2. id2data' = id2data /\ data2id' = data2id /\ next_id' = next_id /\ local' = local
      BY <1>2 DEF Begin, tables
    <2>3. \A t \in Thread : t # th => pc'[t] = pc[t] /\ request'[t] = request[t]
      BY <1>2, <2>1 DEF Begin, TypeOK
    <2>4. pc[th] \notin {"linking", "unlinking"} /\ pc'[th] \notin {"linking", "unlinking"}
      BY <2>1 DEF TypeOK
    <2> QED
      BY <2>2, <2>3, <2>4, MapQuiet
  <1>3. ASSUME NEW th \in Thread,
               \/ LockToProbe(th) \/ Probe(th) \/ LockToInsert(th) \/ FoundMeanwhile(th) \/ OutOfIds(th)
               \/ LockToView(th) \/ View(th) \/ LockToErase(th) \/ EraseUnknown(th)
        PROVE  MapInv'
    <2>1. id2data' = id2data /\ data2id' = data2id /\ next_id' = next_id /\ local' = local
      BY <1>3 DEF LockToProbe, Probe, LockToInsert, FoundMeanwhile, OutOfIds, LockToView, View, LockToErase,
         EraseUnknown, tables
    <2>2. \A t \in Thread : t # th => pc'[t] = pc[t] /\ request'[t] = request[t]
      BY <1>3 DEF LockToProbe, Probe, LockToInsert, FoundMeanwhile, OutOfIds, LockToView, View, LockToErase,
         EraseUnknown, Goto, Return, TypeOK
    <2>3. \/ pc'[th] = pc[th] /\ request'[th] = request[th]
          \/ pc[th] \notin {"linking", "unlinking"} /\ pc'[th] \notin {"linking", "unlinking"}
      BY <1>3 DEF LockToProbe, Probe, LockToInsert, FoundMeanwhile, OutOfIds, LockToView, View, LockToErase,
         EraseUnknown, Goto, Return, TypeOK
    <2> QED
      BY <2>1, <2>2, <2>3, MapQuiet
  <1> QED
    BY <1>1, <1>2, <1>3, MapInsert, MapLink, MapErase, MapUnlink DEF Next, Stop, Step

THEOREM Inductive == Spec => []IInv
  <1>1. Init => IInv
    <2> SUFFICES ASSUME Init
                 PROVE  IInv
      OBVIOUS
    <2> USE ConstantsAssumption
    <2>1. TypeOK
      BY TypeInit
    <2>2. LockInv
      BY DEF Init, LockInv, HoldsExclusive, HoldsShared
    <2>3. \A v \in Value, i \in Id : <<v, i>> \in data2id <=> id2data[i] = v
      BY DEF Init, Pairs
    <2>4. TablesInverse
      BY <2>3 DEF Init, TablesInverse
    <2>5. OneIdPerValue
      BY <2>3 DEF Init, OneIdPerValue
    <2>6. CounterInv
      BY <2>3 DEF Init, CounterInv, Id
    <2>7. LocalInv
      BY DEF Init, LocalInv
    <2> QED
      BY <2>1, <2>2, <2>4, <2>5, <2>6, <2>7 DEF IInv
  <1>2. IInv /\ [Next]_vars => IInv'
    BY TypeNext, LockNext, MapNext DEF IInv, MapInv
  <1> QED
    BY <1>1, <1>2, PTL DEF Spec

(* However many threads make nodes of the same value at the same time, and *)
(* whatever is erased in between, the value has one id.                    *)
THEOREM ValuesHaveOneId == Spec => []OneIdPerValue
  BY Inductive, PTL DEF IInv

(* Outside a writer's section the two maps are inverses of each other.     *)
THEOREM TablesAreInverse == Spec => []TablesInverse
  BY Inductive, PTL DEF IInv

-----------------------------------------------------------------------------
(* The refinement. *)

(* Between the writers' sections the table is id2data, and data2id is its  *)
(* inverse.                                                                *)
LEMMA AtRest ==
    ASSUME IInv, \A t \in Thread : pc[t] \notin {"linking", "unlinking"}
    PROVE  /\ TableMap = id2data
           /\ UsedMap = {i \in Id : i[2] < next_id[i[1]]}
           /\ \A v \in Value, i \in Id : <<v, i>> \in data2id <=> TableMap[i] = v
  <1> USE DEF IInv, TypeOK
  <1>1. writer # None => pc[writer] \notin {"linking", "unlinking"}
    OBVIOUS
  <1>2. TableMap = id2data
    BY <1>1 DEF TableMap
  <1>3. UsedMap = {i \in Id : i[2] < next_id[i[1]]}
    BY <1>1 DEF UsedMap
  <1> QED
    BY <1>2, <1>3 DEF TablesInverse

LEMMA RefineInit == Init => Abstract!Init
  <1> SUFFICES ASSUME Init
               PROVE  Abstract!Init
    OBVIOUS
  <1>1. TableMap = Reserved /\ UsedMap = {i \in Id : i[2] < First}
    <2>1. TableMap = Reserved
      BY ConstantsAssumption DEF Init, TableMap
    <2>2. \A i \in Id : next_id[i[1]] = First
      BY DEF Init, Id
    <2> QED
      BY <2>1, <2>2 DEF Init, UsedMap
  <1> QED
    BY <1>1, ConstantsAssumption DEF Init, Abstract!Init

LEMMA RefineBegin ==
    ASSUME IInv, NEW th \in Thread, Begin(th)
    PROVE  Abstract!Ask(th)
  <1> USE DEF IInv, TypeOK
  <1>1. request[th] = None
    BY DEF Begin, StageOK
  <1>2. /\ id2data' = id2data /\ next_id' = next_id /\ local' = local /\ writer' = writer
        /\ reply' = [reply EXCEPT ![th] = None]
        /\ pc[th] = "idle"
    BY DEF Begin, tables, lock
  <1>3. \E rq \in Request : request' = [request EXCEPT ![th] = rq]
    BY DEF Begin
  <1>4. writer # None => pc'[writer] = pc[writer]
    <2>1. writer # th
      BY <1>2 DEF LockInv, HoldsExclusive
    <2> QED
      BY <2>1, BeginShape
  <1>5. TableMap' = TableMap /\ UsedMap' = UsedMap
    BY <1>2, <1>4 DEF TableMap, UsedMap
  <1> QED
    BY <1>1, <1>2, <1>3, <1>5 DEF Abstract!Ask, Abstract!Request, Request

(* Taking the mutex, the first of a writer's two updates, and the end of   *)
(* the ids are invisible.                                                  *)
LEMMA RefineSilent ==
    ASSUME IInv, NEW th \in Thread,
           \/ LockToProbe(th) \/ LockToView(th) \/ LockToInsert(th) \/ LockToErase(th)
           \/ Insert(th) \/ Erase(th) \/ OutOfIds(th)
    PROVE  UNCHANGED Abstract!avars
  <1> USE ConstantsAssumption DEF IInv, TypeOK
  <1>1. CASE LockToProbe(th) \/ LockToView(th)
    <2>1. writer = None /\ writer' = None /\ id2data' = id2data /\ next_id' = next_id /\ request' = request /\ reply' = reply
      BY <1>1 DEF LockToProbe, LockToView, AcquireShared, Goto, tables
    <2> QED
      BY <2>1 DEF TableMap, UsedMap, Abstract!avars
  <1>2. CASE LockToInsert(th) \/ LockToErase(th)
    <2>1. writer = None /\ writer' = th /\ id2data' = id2data /\ next_id' = next_id /\ request' = request /\ reply' = reply
          /\ pc'[th] \in {"checking", "erasing"}
      BY <1>2 DEF LockToInsert, LockToErase, AcquireExclusive, Goto, tables
    <2> QED
      BY <2>1 DEF TableMap, UsedMap, Abstract!avars
  <1>3. CASE Insert(th)
    <2> DEFINE v == request[th].value
               c == ClassOf[v]
               i == <<c, next_id[c]>>
    <2>1. v \in Value /\ c \in Class /\ next_id[c] \in First .. Width /\ i \in Id
      BY <1>3 DEF Insert, StageOK, Id
    <2>2. /\ pc[th] = "checking" /\ pc'[th] = "linking" /\ writer = th /\ writer' = th
          /\ next_id' = [next_id EXCEPT ![c] = @ + 1]
          /\ local'[th] = <<v, i>>
          /\ id2data' = id2data /\ request' = request /\ reply' = reply
      BY <1>3 DEF Insert, Goto, LockInv, HoldsExclusive, lock
    <2> HIDE DEF v
    <2>3. TableMap' = TableMap
      BY <2>2 DEF TableMap
    <2>4. \A j \in Id : (j[2] < next_id'[j[1]] /\ i # j) <=> j[2] < next_id[j[1]]
      <3> SUFFICES ASSUME NEW j \in Id
                   PROVE  (j[2] < next_id'[j[1]] /\ i # j) <=> j[2] < next_id[j[1]]
        OBVIOUS
      <3>1. j[1] \in Class /\ j[2] \in Nat /\ next_id[j[1]] \in Nat /\ j = <<j[1], j[2]>>
        BY DEF Id
      <3>2. CASE j[1] = c
        <4>1. next_id'[c] = next_id[c] + 1
          BY <2>1, <2>2
        <4>2. i = j <=> j[2] = next_id[c]
          BY <3>1, <3>2
        <4>3. next_id[c] \in Nat /\ j[2] \in Nat
          BY <2>1, <3>1
        <4>4. (j[2] < next_id[c] + 1 /\ j[2] # next_id[c]) <=> j[2] < next_id[c]
          BY <4>3
        <4> QED
          BY <3>2, <4>1, <4>2, <4>4
      <3>3. CASE j[1] # c
        BY <2>1, <2>2, <3>1, <3>3
      <3> QED
        BY <3>2, <3>3
    <2>5. UsedMap' = UsedMap
      BY <2>2, <2>4 DEF UsedMap
    <2> QED
      BY <2>2, <2>3, <2>5 DEF Abstract!avars
  <1>4. CASE Erase(th)
    <2> DEFINE i == request[th].id
    <2>1. local'[th] = <<id2data[i], i>>
      BY <1>4, MapErase DEF MapInv
    <2>2. /\ pc[th] = "erasing" /\ pc'[th] = "unlinking" /\ writer = th /\ writer' = th
          /\ id2data' = [id2data EXCEPT ![i] = None] /\ i \in Id
          /\ next_id' = next_id /\ request' = request /\ reply' = reply
      BY <1>4 DEF Erase, Goto, StageOK, LockInv, HoldsExclusive, lock
    <2>3. TableMap' = TableMap
      BY <2>1, <2>2 DEF TableMap
    <2>4. UsedMap' = UsedMap
      BY <2>2 DEF UsedMap
    <2> QED
      BY <2>2, <2>3, <2>4 DEF Abstract!avars
  <1>5. CASE OutOfIds(th)
    BY <1>5 DEF OutOfIds, tables, lock, TableMap, UsedMap, Abstract!avars
  <1> QED
    BY <1>1, <1>2, <1>3, <1>4, <1>5

(* A look-up answers with what the table holds at that instant. *)
LEMMA RefineLookup ==
    ASSUME IInv, NEW th \in Thread, Probe(th) \/ FoundMeanwhile(th)
    PROVE  Abstract!Find(th) \/ Abstract!Miss(th) \/ UNCHANGED Abstract!avars
  <1> USE ConstantsAssumption DEF IInv, TypeOK
  <1>1. \A t \in Thread : pc[t] \notin {"linking", "unlinking"}
    BY DEF Probe, FoundMeanwhile, LockInv, HoldsExclusive, HoldsShared
  <1>2. TableMap = id2data /\ \A v \in Value, i \in Id : <<v, i>> \in data2id <=> TableMap[i] = v
    BY <1>1, AtRest
  <1>3. TableMap' = TableMap /\ UsedMap' = UsedMap
    <2>1. writer' = None /\ id2data' = id2data /\ next_id' = next_id
      BY DEF Probe, FoundMeanwhile, ReleaseShared, ReleaseExclusive, LockInv, HoldsShared, tables
    <2>2. UsedMap = {i \in Id : i[2] < next_id[i[1]]}
      BY <1>1, AtRest
    <2> QED
      BY <1>2, <2>1, <2>2 DEF TableMap, UsedMap
  <1>4. request[th] \in Request /\ request[th] # None /\ request[th].call \in {"make", "find"} /\ request[th].value \in Value
    BY DEF Probe, FoundMeanwhile, StageOK, Request
  <1>5. ASSUME NEW p \in Found(request[th].value), Return(th, p[2])
        PROVE  Abstract!Find(th)
    <2>1. p[2] \in Id /\ TableMap[p[2]] = request[th].value
      BY <1>2, <1>4, <1>5 DEF Found
    <2>2. p[2] \in Abstract!IdsOf(request[th].value)
      BY <2>1 DEF Abstract!IdsOf
    <2>3. Abstract!Reply(th, p[2])
      BY <1>5 DEF Return, Abstract!Reply
    <2> QED
      BY <1>3, <1>4, <2>2, <2>3 DEF Abstract!Find
  <1>6. ASSUME Found(request[th].value) = {}, request[th].call = "find", Return(th, None)
        PROVE  Abstract!Miss(th)
    <2>1. \A i \in Id : <<request[th].value, i>> \notin data2id
      BY <1>6 DEF Found
    <2>2. Abstract!IdsOf(request[th].value) = {}
      BY <1>2, <1>4, <2>1 DEF Abstract!IdsOf
    <2> QED
      BY <1>3, <1>4, <1>6, <2>2 DEF Abstract!Miss, Abstract!Reply, Return
  <1>7. CASE Probe(th)
    BY <1>3, <1>5, <1>6, <1>7 DEF Probe, Goto, Abstract!avars
  <1> QED
    BY <1>5, <1>7 DEF FoundMeanwhile

LEMMA RefineLink ==
    ASSUME IInv, NEW th \in Thread, Link(th)
    PROVE  Abstract!Make(th)
  <1> USE ConstantsAssumption DEF IInv, TypeOK
  <1>1. PICK v \in Value, i \in Id : local[th] = <<v, i>>
    BY DEF Link
  <1>2. /\ pc[th] = "linking" /\ writer = th /\ writer' = None
        /\ id2data' = [id2data EXCEPT ![i] = v] /\ next_id' = next_id
        /\ Return(th, i)
    BY <1>1 DEF Link, ReleaseExclusive
  <1>3. v = request[th].value /\ id2data[i] = None /\ i[2] + 1 = next_id[i[1]] /\ <<v, i>> \in data2id
    BY <1>1, <1>2 DEF LocalInv, TablesInverse
  <1>4. request[th] # None /\ request[th].call = "make"
    BY <1>2 DEF StageOK, Request
  <1>5. TableMap = id2data /\ TableMap' = [TableMap EXCEPT ![i] = v]
    BY <1>2 DEF TableMap
  <1>6. i \notin UsedMap /\ UsedMap' = UsedMap \cup {i}
    <2>1. i[2] < next_id[i[1]]
      BY <1>3 DEF Id
    <2>2. UsedMap = {j \in Id : j[2] < next_id[j[1]]} \ {i}
      BY <1>1, <1>2 DEF UsedMap
    <2>3. UsedMap' = {j \in Id : j[2] < next_id[j[1]]}
      BY <1>2 DEF UsedMap
    <2> QED
      BY <2>1, <2>2, <2>3
  <1>7. Abstract!IdsOf(request[th].value) = {}
    <2>1. \A j \in Id : id2data[j] = v => <<v, j>> \in data2id
      BY DEF TablesInverse
    <2>2. \A j \in Id : id2data[j] # v
      BY <1>3, <2>1 DEF OneIdPerValue
    <2> QED
      BY <1>3, <1>5, <2>2 DEF Abstract!IdsOf
  <1>8. Abstract!Reply(th, i)
    BY <1>2 DEF Return, Abstract!Reply
  <1> QED
    BY <1>3, <1>4, <1>5, <1>6, <1>7, <1>8 DEF Abstract!Make

LEMMA RefineView ==
    ASSUME IInv, NEW th \in Thread, View(th)
    PROVE  Abstract!View(th)
  <1> USE DEF IInv, TypeOK
  <1>1. writer = None /\ writer' = None /\ id2data' = id2data /\ next_id' = next_id
    BY DEF View, LockInv, HoldsShared, ReleaseShared, tables
  <1>2. TableMap = id2data /\ TableMap' = id2data /\ UsedMap' = UsedMap
    BY <1>1 DEF TableMap, UsedMap
  <1>3. request[th] # None /\ request[th].call = "view" /\ request[th].id \in Id
    BY ConstantsAssumption DEF View, StageOK, Request
  <1> QED
    BY <1>2, <1>3 DEF View, Return, Abstract!View, Abstract!Reply

LEMMA RefineErase ==
    ASSUME IInv, NEW th \in Thread, EraseUnknown(th) \/ Unlink(th)
    PROVE  Abstract!Erase(th)
  <1> USE ConstantsAssumption DEF IInv, TypeOK
  <1> DEFINE i == request[th].id
  <1>1. writer = th /\ writer' = None /\ id2data' = id2data /\ next_id' = next_id
    BY DEF EraseUnknown, Unlink, ReleaseExclusive, tables
  <1>2. request[th] # None /\ request[th].call = "erase" /\ i \in Id
    BY DEF EraseUnknown, Unlink, StageOK, Request
  <1>3. TableMap' = id2data /\ UsedMap' = UsedMap
    BY <1>1 DEF TableMap, UsedMap, EraseUnknown, Unlink
  <1>4. CASE EraseUnknown(th)
    <2>1. TableMap = id2data /\ id2data[i] = None
      BY <1>1, <1>4 DEF TableMap, EraseUnknown
    <2>2. id2data = [TableMap EXCEPT ![i] = None]
      BY <1>2, <2>1
    <2> QED
      BY <1>2, <1>3, <1>4, <2>1, <2>2 DEF EraseUnknown, Return, Abstract!Erase, Abstract!Reply
  <1>5. CASE Unlink(th)
    <2>1. pc[th] = "unlinking" /\ local[th] \in Value \X Id /\ local[th][2] = i /\ id2data[i] = None
      BY <1>5 DEF Unlink, LocalInv
    <2>2. TableMap = [id2data EXCEPT ![i] = local[th][1]]
      BY <1>1, <2>1 DEF TableMap
    <2>3. id2data = [TableMap EXCEPT ![i] = None] /\ TableMap[i] # None
      BY <1>2, <2>1, <2>2
    <2> QED
      BY <1>2, <1>3, <1>5, <2>3 DEF Unlink, Return, Abstract!Erase, Abstract!Reply
  <1> QED
    BY <1>4, <1>5

(* The storage implements the table whose calls are instantaneous, whose   *)
(* values and ids correspond one to one, and which never reuses an id.     *)
THEOREM Refinement == Spec => ImplementsNodeTable
  <1>1. IInv /\ [Next]_vars => [Abstract!Next]_(Abstract!avars)
    <2> SUFFICES ASSUME IInv, [Next]_vars
                 PROVE  [Abstract!Next]_(Abstract!avars)
      OBVIOUS
    <2>1. CASE UNCHANGED vars
      BY <2>1 DEF vars, TableMap, UsedMap, Abstract!avars
    <2>2. ASSUME NEW th \in Thread, Begin(th)
          PROVE  Abstract!Next
      BY <2>2, RefineBegin DEF Abstract!Next
    <2>3. ASSUME NEW th \in Thread, Step(th)
          PROVE  Abstract!Next \/ UNCHANGED Abstract!avars
      BY <2>3, RefineSilent, RefineLookup, RefineLink, RefineView, RefineErase DEF Step, Abstract!Next
    <2> QED
      BY <2>1, <2>2, <2>3 DEF Next, Stop
  <1> QED
    BY <1>1, RefineInit, Inductive, PTL DEF Spec, ImplementsNodeTable, Abstract!Spec
=============================================================================
