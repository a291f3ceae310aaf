-------------------------- MODULE GeneratorRefinement --------------------------
(***************************************************************************)
(* Generator implements Readers, for any number of frames: with the        *)
(* adapters taken out, what is left are operators that read each other in  *)
(* loops.  Delegating and the end of an adapter are not seen; await_resume *)
(* is a reader that drops a generator it has read to the end.              *)
(***************************************************************************)
EXTENDS GeneratorProofs

(* The value of a free frame is none, and only the coroutine that executes *)
(* can have an exception to throw again.                                   *)
FlightInv == (\A f \in Frames : f \notin Live => value_[f] = None) /\ (\A f \in caught : f = Executor)

RInv == IInv /\ FlightInv

LEMMA RInvInit == Init => RInv
  <1> SUFFICES ASSUME Init PROVE FlightInv
    BY InitInvariant DEF RInv
  <1> QED
    BY DEF Init, FlightInv

(* Where code runs, no exception waits to be thrown again.                 *)
LEMMA NothingCaught ==
    ASSUME RInv, Executor \in Frames => status[Executor] # "delegating"
    PROVE  caught = {}
  BY CaughtRuns DEF RInv, FlightInv

LEMMA RunningIsQuiet ==
    ASSUME RInv, Advances \/ InCode(Executor) \/ (\E f \in Frames : Executes(f)) \/ stack = <<>> \/ raising
    PROVE  caught = {}
  <1>1. Executor \in Frames => status[Executor] # "delegating"
    <2>1. raising => (Executor \in Frames => status[Executor] = "running")
      BY ExecutorRuns DEF RInv
    <2>2. stack = <<>> => Executor \notin Frames
      BY ExecutorRuns DEF RInv
    <2> QED
      BY <2>1, <2>2, NoneIsNoFrame DEF Advances, InCode, Executes
  <1> QED
    BY <1>1, NothingCaught

LEMMA FlightStep == RInv /\ [Next]_vars => RInv'
  <1> SUFFICES ASSUME RInv, [Next]_vars PROVE FlightInv'
    BY StepKeeps DEF RInv
  <1>0. IInv'
    BY StepKeeps DEF RInv
  <1>1. ASSUME \A x \in Frames : x \notin Live' => value_'[x] = None \/ (x \notin Live /\ value_'[x] = value_[x]),
               caught' = {} \/ (caught' = caught /\ stack' = stack)
        PROVE  FlightInv'
    BY <1>1 DEF RInv, FlightInv, Executor, Top
  <1>2. CASE Begin \/ Increment
    <2>1. Advances /\ UNCHANGED <<value_, caught>>
      BY <1>2 DEF Begin, Increment, Resume
    <2>2. Live' = Live
      <3>1. \A x \in Frames : status'[x] = "none" => status[x] = "none"
        BY <1>2 DEF Begin, Increment, Resume
      <3>2. ASSUME NEW x \in Frames, status[x] = "none"
            PROVE  status'[x] = "none"
        <4>1. Executor \in Holders /\ (Executor \in Frames => Executor \in Live /\ status[Executor] \in {"running", "advancing"})
          BY <2>1, ExecutorRuns, NoneIsNoFrame DEF RInv, Advances, InCode
        <4> PICK g \in Frames : g = child[Executor]
          BY <1>2, <4>1 DEF Begin, Increment, RInv, IInv, TypeOK
        <4>2. parent_[g] = None
          BY <4>1, ChildOf, NoneIsNoFrame DEF RInv
        <4>3. g \in Live /\ rootOrLeaf_[g] = IF status[g] = "delegating" THEN child[g] ELSE g
          BY <4>2, ChildIsQuiet DEF RInv
        <4>4. status[g] = "delegating" => child[g] \in Live
          BY <4>2, <4>3, NoneIsNoFrame DEF RInv, IInv, PromiseInv, IsOperator, HolderInv, Holders, Live
        <4> QED
          BY <1>2, <3>2, <4>1, <4>3, <4>4 DEF Begin, Increment, Resume, Live
      <3> QED
        BY <3>1, <3>2 DEF Live
    <2> QED
      BY <1>1, <2>1, <2>2, RunningIsQuiet
  <1>3. ASSUME NEW e \in Holders, e = Executor, NEW D, DestroyFrames(D), e \in Frames => e \in Live
        PROVE  FlightInv'
    <2>1. \A x \in Frames : x \notin Live' => value_'[x] = None \/ (x \notin Live /\ value_'[x] = value_[x])
      BY <1>3 DEF DestroyFrames, Live
    <2>2. caught' = {}
      BY <1>3 DEF DestroyFrames, RInv, FlightInv
    <2> QED
      BY <1>1, <2>1, <2>2
  <1>4. CASE Destroy \/ \E f \in Frames : AwaitResume(f)
    <2>1. \E D : DestroyFrames(D)
      BY <1>4 DEF Destroy, AwaitResume
    <2>2. Executor \in Holders /\ (Executor \in Frames => Executor \in Live)
      BY ExecutorRuns DEF RInv
    <2> QED
      BY <1>3, <2>1, <2>2
  <1>5. CASE Catch \/ \E f \in Frames : Throw(f)
    BY <1>1, <1>5 DEF Catch, Throw, Live
  <1>6. ASSUME NEW f \in Frames, Create(f)
        PROVE  FlightInv'
    <2>1. \A x \in Frames : (status'[x] = "none" => status[x] = "none") /\ (value_'[x] = None \/ value_'[x] = value_[x])
      BY <1>6 DEF Create, RInv, IInv, TypeOK
    <2>2. caught' = caught /\ stack' = stack
      BY <1>6 DEF Create
    <2> QED
      BY <1>1, <2>1, <2>2 DEF Live
  <1>7. ASSUME NEW f \in Frames, NEW o, NEW r, UNCHANGED <<pointers, caught, child, raising>>, Executes(f),
               r = Root(f), status' = [status EXCEPT ![f] = "yielded"], value_' = [value_ EXCEPT ![r] = o]
        PROVE  FlightInv'
    <2>1. f \in Live /\ r \in Live
      BY <1>7, RootIs, NoneIsNoFrame DEF Executes, Live, RInv, IInv, PromiseInv, IsAdapter
    <2>2. Live' = Live
      BY <1>7, <2>1 DEF Live, RInv, IInv, TypeOK
    <2>3. \A x \in Frames : x \notin Live => value_'[x] = value_[x]
      BY <1>7, <2>1 DEF RInv, IInv, TypeOK
    <2>4. caught = {}
      BY <1>7, RunningIsQuiet
    <2> QED
      BY <1>1, <1>7, <2>2, <2>3, <2>4
  <1>8. ASSUME NEW f \in Frames, YieldObject(f)
        PROVE  FlightInv'
    <2>1. Root(f) = f
      BY <1>8 DEF YieldObject, Root
    <2> QED
      BY <1>7, <1>8, <2>1 DEF YieldObject, Suspend
  <1>9. ASSUME NEW f \in Frames, NEW o \in Constants(f), YieldConst(f, o)
        PROVE  FlightInv'
    <2>1. f \in Live /\ status[f] = "running"
      BY <1>9 DEF YieldConst, Executes, Live
    <2>2. Root(f) = rootOrLeaf_[f]
      BY <2>1, RootIs DEF RInv, IInv, PromiseInv, IsOperator, IsAdapter
    <2> QED
      BY <1>7, <1>9, <2>2 DEF YieldConst, Suspend
  <1>10. ASSUME NEW f \in Frames, Return(f) \/ Unwind(f)
         PROVE  FlightInv'
    <2>1. f = Executor /\ caught = {} /\ (Executes(f) \/ raising)
      BY <1>10, RunningIsQuiet DEF Return, Unwind, Executes
    <2>2. End(f) \/ ToParent(f)
      BY <1>10 DEF Return, Unwind, FinalSuspend
    <2>3. value_' = value_ /\ \A x \in Frames : status'[x] = "none" => status[x] = "none"
      BY <2>2 DEF End, ToParent, RInv, IInv, TypeOK
    <2>4. \A x \in Frames : x \notin Live' => x \notin Live /\ value_'[x] = value_[x]
      BY <2>3 DEF Live
    <2>5. CASE caught' = caught
      BY <1>1, <2>1, <2>4, <2>5
    <2>6. CASE caught' # caught
      <3>1. exception_[f] # None /\ FinalSuspend(f) /\ caught' = caught \cup {exception_[f]}
        BY <1>10, <2>6 DEF Return, Unwind
      <3>2. f \in Live
        BY <2>1, ExecutorRuns DEF RInv
      <3>3. parent_[f] # None /\ exception_[f] = parent_[f]
        BY <3>1, <3>2 DEF RInv, IInv, PromiseInv, IsOperator, IsAdapter
      <3> PICK p \in Frames : p = parent_[f]
        BY <3>3 DEF RInv, IInv, TypeOK
      <3>4. stack' = Append(Pop(stack), p) /\ caught' = {p}
        BY <2>1, <3>1, <3>3 DEF FinalSuspend, ToParent, Adapts
      <3>5. Executor' = p
        <4>1. stack # <<>> /\ stack \in Seq(Frames)
          BY <2>1, ExecutorRuns DEF RInv, IInv, TypeOK
        <4>2. Pop(stack) \in Seq(Frames)
          BY <4>1, Pops
        <4>3. stack' # <<>> /\ Top(stack') = p
          BY <3>4, <4>2, AppendProperties DEF Top
        <4> QED
          BY <4>3 DEF Executor
      <3> QED
        BY <2>4, <3>4, <3>5 DEF FlightInv, RInv
    <2> QED
      BY <2>5, <2>6
  <1>11. ASSUME NEW f \in Frames, NEW a \in Frames, Delegate(f, a)
         PROVE  FlightInv'
    <2>1. \A x \in Frames : (status'[x] = "none" => status[x] = "none") /\ (value_'[x] = None \/ value_'[x] = value_[x])
      BY <1>11 DEF Delegate, RInv, IInv, TypeOK
    <2>2. caught = {} /\ caught' = caught
      BY <1>11, RunningIsQuiet DEF Delegate
    <2> QED
      BY <1>1, <2>1, <2>2 DEF Live
  <1>12. CASE UNCHANGED vars
    BY <1>1, <1>12 DEF vars, Live
  <1> QED
    BY <1>2, <1>4, <1>5, <1>6, <1>8, <1>9, <1>10, <1>11, <1>12 DEF Next

-----------------------------------------------------------------------------
(* The operators that run. *)
ResumedInv ==
    /\ Resumed \in Seq(Frames) /\ Len(Resumed) = Len(stack) /\ Len(stack) \in Nat
    /\ \A i \in 1 .. Len(stack) : Resumed[i] = Root(stack[i])

LEMMA ResumedAreRoots == IInv => ResumedInv
  <1> SUFFICES ASSUME IInv PROVE ResumedInv
    OBVIOUS
  <1> DEFINE n == Len(stack)
  <1>1. n \in Nat /\ DOMAIN stack = 1 .. n /\ \A i \in 1 .. n : stack[i] \in Frames
    BY StackIsAFunction DEF IInv
  <1> HIDE DEF n
  <1>2. \A i \in 1 .. n : Root(stack[i]) \in Frames
    BY <1>1, RootIs DEF IInv, TypeOK
  <1>3. Resumed = [i \in 1 .. n |-> Root(stack[i])]
    BY <1>1 DEF Resumed
  <1>4. Resumed \in Seq(Frames)
    BY <1>1, <1>2, <1>3, IsASeq
  <1>5. Len(Resumed) = n
    BY <1>1, <1>3, <1>4, LenProperties
  <1> QED
    BY <1>1, <1>3, <1>4, <1>5 DEF ResumedInv, n

LEMMA ResumedAreRootsNext == IInv' => ResumedInv'
  BY ResumedAreRoots, PTL

LEMMA ResumedNext ==
    ASSUME IInv', NEW s \in Seq(Frames), Len(s) = Len(stack'), \A i \in 1 .. Len(s) : s[i] = Root(stack[i])'
    PROVE  Resumed' = s
  <1>1. ResumedInv'
    BY ResumedAreRootsNext
  <1>2. Resumed' \in Seq(Frames) /\ Len(Resumed') = Len(stack') /\ \A i \in 1 .. Len(stack') : Resumed'[i] = Root(stack[i])'
    BY <1>1 DEF ResumedInv
  <1> QED
    BY <1>2, SeqEqual

LEMMA ResumedStays ==
    ASSUME IInv, IInv', stack' = stack, \A x \in Frames : Runs(x) => Root(x)' = Root(x)
    PROVE  Resumed' = Resumed
  <1>1. /\ Resumed \in Seq(Frames) /\ Len(Resumed) = Len(stack')
        /\ \A i \in 1 .. Len(stack) : Resumed[i] = Root(stack[i])
    BY ResumedAreRoots DEF ResumedInv
  <1>2. DOMAIN stack = 1 .. Len(stack) /\ \A i \in 1 .. Len(stack) : stack[i] \in Frames
    BY StackIsAFunction DEF IInv
  <1>3. ASSUME NEW i \in 1 .. Len(Resumed)
        PROVE  Resumed[i] = Root(stack[i])'
    <2>1. i \in DOMAIN stack /\ stack'[i] = stack[i] /\ stack[i] \in Frames /\ Runs(stack[i])
      BY <1>1, <1>2 DEF IInv, StackInv
    <2> PICK x \in Frames : x = stack[i]
      BY <2>1
    <2>2. Root(stack[i])' = Root(x)'
      BY <2>1
    <2> QED
      BY <1>1, <1>2, <2>1, <2>2
  <1> QED
    BY <1>1, <1>3, ResumedNext

LEMMA ResumedGrows ==
    ASSUME IInv, IInv', NEW f \in Frames, stack' = Append(stack, f), NEW g \in Frames, Root(f)' = g,
           \A x \in Frames : Runs(x) => Root(x)' = Root(x)
    PROVE  Resumed' = Append(Resumed, g)
  <1> DEFINE n == Len(stack)  s == Append(Resumed, g)
  <1>1. Resumed \in Seq(Frames) /\ Len(Resumed) = n /\ n \in Nat /\ \A i \in 1 .. n : Resumed[i] = Root(stack[i])
    BY ResumedAreRoots DEF ResumedInv
  <1>2. /\ DOMAIN stack = 1 .. n /\ \A i \in 1 .. n : stack[i] \in Frames
        /\ Len(stack') = n + 1 /\ stack'[n + 1] = f /\ \A i \in 1 .. n : stack'[i] = stack[i]
    BY Pushes, StackIsAFunction, AppendProperties DEF IInv, TypeOK
  <1>3. s \in Seq(Frames) /\ Len(s) = n + 1 /\ s[n + 1] = g /\ \A i \in 1 .. n : s[i] = Resumed[i]
    BY <1>1, AppendProperties
  <1> HIDE DEF n, s
  <1>4. ASSUME NEW i \in 1 .. Len(s)
        PROVE  s[i] = Root(stack[i])'
    <2>1. CASE i = n + 1
      <3>1. Root(stack[i])' = Root(f)'
        BY <1>2, <2>1
      <3> QED
        BY <1>3, <2>1, <3>1
    <2>2. CASE i \in 1 .. n
      <3>1. stack'[i] = stack[i] /\ stack[i] \in Frames /\ Runs(stack[i])
        BY <1>2, <2>2 DEF IInv, StackInv
      <3> PICK x \in Frames : x = stack[i]
        BY <3>1
      <3>2. Root(stack[i])' = Root(x)'
        BY <3>1
      <3> QED
        BY <1>1, <1>3, <2>2, <3>1, <3>2
    <2>3. i \in 1 .. n \/ i = n + 1
      BY <1>1, <1>3
    <2> QED
      BY <2>1, <2>2, <2>3
  <1>5. Resumed' = s
    BY <1>2, <1>3, <1>4, ResumedNext
  <1> QED
    BY <1>5 DEF s

LEMMA ResumedShrinks ==
    ASSUME IInv, IInv', stack # <<>>, stack' = Pop(stack), \A x \in Frames : Runs(x) => Root(x)' = Root(x)
    PROVE  Resumed' = Abstract!ButLast(Resumed)
  <1> DEFINE n == Len(stack)  s == Pop(Resumed)
  <1>1. Resumed \in Seq(Frames) /\ Len(Resumed) = n /\ n \in Nat /\ \A i \in 1 .. n : Resumed[i] = Root(stack[i])
    BY ResumedAreRoots DEF ResumedInv
  <1>2. DOMAIN stack = 1 .. n /\ n # 0 /\ \A i \in 1 .. n : stack[i] \in Frames
    BY StackIsAFunction DEF IInv
  <1>3. Len(stack') = n - 1 /\ \A i \in 1 .. n - 1 : stack'[i] = stack[i]
    BY Pops DEF IInv, TypeOK
  <1>4. s \in Seq(Frames) /\ Len(s) = n - 1 /\ \A i \in 1 .. n - 1 : s[i] = Resumed[i]
    BY <1>1, <1>2, Pops, EmptySeq
  <1> HIDE DEF n, s
  <1>5. ASSUME NEW i \in 1 .. Len(s)
        PROVE  s[i] = Root(stack[i])'
    <2>1. i \in 1 .. n /\ i \in 1 .. n - 1
      BY <1>1, <1>2, <1>4
    <2>2. stack'[i] = stack[i] /\ stack[i] \in Frames /\ Runs(stack[i])
      BY <1>2, <1>3, <2>1 DEF IInv, StackInv
    <2> PICK x \in Frames : x = stack[i]
      BY <2>2
    <2>3. Root(stack[i])' = Root(x)'
      BY <2>2
    <2> QED
      BY <1>1, <1>4, <2>1, <2>2, <2>3
  <1>6. Resumed' = s
    BY <1>3, <1>4, <1>5, ResumedNext
  <1> QED
    BY <1>6 DEF s, Pop, Abstract!ButLast

(* An adapter takes the place of its parent, or its parent its place.      *)
LEMMA ResumedKeepsItsLength ==
    ASSUME IInv, IInv', stack # <<>>, NEW f \in Frames, stack' = Append(Pop(stack), f), Root(f)' = Root(Executor),
           \A x \in Frames : Runs(x) /\ x # Executor => Root(x)' = Root(x)
    PROVE  Resumed' = Resumed
  <1> DEFINE n == Len(stack)
  <1>1. Resumed \in Seq(Frames) /\ Len(Resumed) = n /\ n \in Nat /\ \A i \in 1 .. n : Resumed[i] = Root(stack[i])
    BY ResumedAreRoots DEF ResumedInv
  <1>2. DOMAIN stack = 1 .. n /\ n # 0 /\ (\A i \in 1 .. n : stack[i] \in Frames) /\ Executor = stack[n]
    BY StackIsAFunction DEF IInv
  <1>3. Pop(stack) \in Seq(Frames) /\ Len(Pop(stack)) = n - 1 /\ \A i \in 1 .. n - 1 : Pop(stack)[i] = stack[i]
    BY Pops DEF IInv, TypeOK
  <1> HIDE DEF n
  <1>4. Len(stack') = n /\ stack'[n] = f /\ \A i \in 1 .. n - 1 : stack'[i] = stack[i]
    BY <1>1, <1>2, <1>3, AppendProperties
  <1>5. ASSUME NEW i \in 1 .. Len(Resumed)
        PROVE  Resumed[i] = Root(stack[i])'
    <2>1. CASE i = n
      <3>1. Root(stack[i])' = Root(f)'
        BY <1>4, <2>1
      <3>2. Resumed[i] = Root(Executor)
        BY <1>1, <1>2, <2>1
      <3> QED
        BY <3>1, <3>2
    <2>2. CASE i # n
      <3>1. i \in 1 .. n - 1 /\ i \in 1 .. n
        BY <1>1, <2>2
      <3>2. stack'[i] = stack[i] /\ stack[i] \in Frames /\ Runs(stack[i]) /\ stack[i] # stack[n]
        <4>1. i \in DOMAIN stack /\ n \in DOMAIN stack
          BY <1>1, <1>2, <3>1
        <4> QED
          BY <1>2, <1>4, <2>2, <3>1, <4>1 DEF IInv, StackInv
      <3> PICK x \in Frames : x = stack[i]
        BY <3>2
      <3>3. Root(stack[i])' = Root(x)'
        BY <3>2
      <3> QED
        BY <1>1, <1>2, <3>1, <3>2, <3>3
    <2> QED
      BY <2>1, <2>2
  <1> QED
    BY <1>1, <1>4, <1>5, ResumedNext DEF n

(* The operator that runs is the one that executes, or whose adapter does. *)
LEMMA ReaderIs ==
    ASSUME IInv
    PROVE  /\ stack = <<>> <=> Resumed = <<>>
           /\ Abstract!Reader = IF stack = <<>> THEN Consumer ELSE Root(Executor)
  <1>1. ResumedInv
    BY ResumedAreRoots
  <1>2. (Resumed = <<>> <=> Len(Resumed) = 0) /\ (stack = <<>> <=> Len(stack) = 0) /\ Len(stack) \in Nat
    BY <1>1, EmptySeq, StackIsAFunction DEF ResumedInv, IInv
  <1>3. stack # <<>> => Len(stack) \in 1 .. Len(stack) /\ Executor = stack[Len(stack)]
    BY <1>2, StackIsAFunction DEF IInv
  <1> QED
    BY <1>1, <1>2, <1>3 DEF ResumedInv, Abstract!Reader

-----------------------------------------------------------------------------
(* What Readers sees of a coroutine, and of what it reads. *)
StatusOf(x) == IF parent_[x] # None THEN "none" ELSE IF status[x] # "delegating" THEN status[x]
               ELSE IF status[child[x]] = "yielded" THEN "yielded" ELSE "running"
ReadOf(h) == IF h \in Frames /\ parent_[h] # None THEN None
             ELSE IF child[h] \in Frames /\ parent_[child[h]] # None THEN child[child[h]] ELSE child[h]

LEMMA Loops == LoopStatus = [x \in Frames |-> StatusOf(x)] /\ LoopReads = [h \in Holders |-> ReadOf(h)]
  <1>1. \A h \in Holders : ReadOf(h) = IF Adapts(h) THEN None ELSE IF Adapts(child[h]) THEN child[child[h]] ELSE child[h]
    BY DEF ReadOf, Adapts
  <1>2. \A x \in Frames : StatusOf(x) = IF Adapts(x) THEN "none" ELSE IF status[x] # "delegating" THEN status[x]
                                         ELSE IF status[child[x]] = "yielded" THEN "yielded" ELSE "running"
    BY DEF StatusOf, Adapts
  <1> QED
    BY <1>1, <1>2 DEF LoopStatus, LoopReads

LEMMA LoopsNext ==
    ASSUME NEW u, u = [x \in Frames |-> u[x]], \A x \in Frames : StatusOf(x)' = u[x],
           NEW v, v = [h \in Holders |-> v[h]], \A h \in Holders : ReadOf(h)' = v[h]
    PROVE  LoopStatus' = u /\ LoopReads' = v
  <1>1. (LoopStatus = [x \in Frames |-> StatusOf(x)] /\ LoopReads = [h \in Holders |-> ReadOf(h)])'
    BY Loops, PTL
  <1> QED
    BY <1>1

(* A coroutine that delegates, and its adapter.                            *)
LEMMA AdapterOf ==
    ASSUME IInv, NEW x \in Frames, status[x] = "delegating"
    PROVE  child[x] \in Frames /\ parent_[child[x]] = x /\ parent_[x] = None /\ child[child[x]] \in Frames
  <1>1. child[x] \in Frames /\ parent_[child[x]] = x /\ parent_[x] = None
    BY DEF IInv, PromiseInv, IsOperator, IsAdapter, Live
  <1> QED
    BY <1>1, NoneIsNoFrame DEF IInv, PromiseInv, IsAdapter

(* A call is the start of an operator.                                     *)
LEMMA StartMaps ==
    ASSUME RInv, RInv', NEW f \in Frames, Create(f)
    PROVE  Abstract!Start(f)
  <1> PICK e \in Holders : e = Executor
    BY ExecutorRuns DEF RInv
  <1>1. /\ f \notin Live /\ child[e] = None /\ e # f /\ ~raising /\ IsFree(f) /\ caught = {}
        /\ e \in Frames => e \in Live /\ status[e] = "running" /\ parent_[e] = None
    BY ExecutorRuns, RunningIsQuiet, NoneIsNoFrame DEF Create, InCode, Adapts, Live, RInv, IInv, PromiseInv
  <1>2. /\ \A x \in Frames : status'[x] = IF x = f THEN "initial" ELSE status[x]
        /\ \A x \in Frames : parent_'[x] = parent_[x]
        /\ \A h \in Holders : child'[h] = IF h = e THEN f ELSE child[h]
        /\ caught' = caught /\ stack' = stack /\ raising' = raising /\ value_' = [value_ EXCEPT ![f] = None]
    BY <1>1 DEF Create, RInv, IInv, TypeOK, IsFree
  <1>3. Abstract!Reader = e
    BY <1>1, ReaderIs, RootIs, ExecutorRuns DEF RInv
  <1>4. ASSUME NEW x \in Frames
        PROVE  StatusOf(x)' = IF x = f THEN "initial" ELSE StatusOf(x)
    <2>1. CASE x = f
      BY <1>1, <1>2, <2>1 DEF StatusOf, IsFree
    <2>2. CASE x # f /\ status[x] # "delegating"
      BY <1>2, <2>2 DEF StatusOf
    <2>3. CASE x # f /\ status[x] = "delegating"
      <3>1. child[x] \in Frames /\ parent_[child[x]] = x /\ x # e /\ x \in Holders
        BY <1>1, <2>3, AdapterOf DEF RInv, Holders
      <3>2. child[x] # f
        BY <1>1, <3>1, NoneIsNoFrame DEF IsFree
      <3> QED
        BY <1>2, <2>3, <3>1, <3>2 DEF StatusOf
    <2> QED
      BY <2>1, <2>2, <2>3
  <1>5. ASSUME NEW h \in Holders
        PROVE  ReadOf(h)' = IF h = e THEN f ELSE ReadOf(h)
    <2>1. CASE h = e
      BY <1>1, <1>2, <2>1 DEF ReadOf, IsFree, Holders
    <2>2. CASE h # e
      BY <1>1, <1>2, <2>2 DEF ReadOf, Holders
    <2> QED
      BY <2>1, <2>2
  <1>6. LoopStatus' = [LoopStatus EXCEPT ![f] = "initial"] /\ LoopReads' = [LoopReads EXCEPT ![e] = f]
    <2> DEFINE u == [LoopStatus EXCEPT ![f] = "initial"]  v == [LoopReads EXCEPT ![e] = f]
    <2>1. u = [x \in Frames |-> u[x]] /\ \A x \in Frames : StatusOf(x)' = u[x]
      BY <1>4, Loops
    <2>2. v = [h \in Holders |-> v[h]] /\ \A h \in Holders : ReadOf(h)' = v[h]
      BY <1>5, Loops
    <2> HIDE DEF u, v
    <2>3. LoopStatus' = u /\ LoopReads' = v
      BY <2>1, <2>2, LoopsNext
    <2> QED
      BY <2>3 DEF u, v
  <1>7. LoopStatus[f] = "none" /\ LoopReads[e] = None
    <2>1. StatusOf(f) = "none" /\ ReadOf(e) = None
      BY <1>1, NoneIsNoFrame, FramesAssumption DEF StatusOf, ReadOf, IsFree, Live
    <2> QED
      BY <2>1, Loops
  <1>8. Resumed' = Resumed
    BY <1>2, ResumedStays, RootIs DEF RInv, Root, Adapts
  <1>9. ~Pending /\ Pending' = Pending
    BY <1>1, <1>2 DEF Pending
  <1> QED
    BY <1>2, <1>3, <1>6, <1>7, <1>8, <1>9 DEF Abstract!Start

(* begin and operator++, of a loop or of an adapter.                       *)
LEMMA ResumeMaps ==
    ASSUME RInv, RInv', Begin \/ Increment
    PROVE  \E g \in Frames : Abstract!Resume(g)
  <1> PICK e \in Holders : e = Executor
    BY ExecutorRuns DEF RInv
  <1>1. Advances /\ caught = {} /\ ~raising
    BY RunningIsQuiet DEF Begin, Increment, Advances
  <1>2. e \in Frames => e \in Live /\ status[e] \in {"running", "advancing"} /\ (parent_[e] = None => status[e] = "running")
    BY <1>1, ExecutorRuns, NoneIsNoFrame DEF Advances, InCode, RInv, IInv, PromiseInv, IsOperator
  <1> PICK g \in Frames : g = child[e]
    BY DEF Begin, Increment, RInv, IInv, TypeOK
  <1>3. parent_[g] = None
    BY <1>2, ChildOf, NoneIsNoFrame DEF RInv
  <1>4. /\ status[g] \in {"initial", "yielded", "final"} \/ (status[g] = "delegating" /\ status[child[g]] = "yielded")
        /\ rootOrLeaf_[g] = IF status[g] = "delegating" THEN child[g] ELSE g
        /\ g \in Live /\ Quiet(g)
    BY <1>3, ChildIsQuiet DEF RInv
  <1> PICK f : f = IF status[g] = "delegating" THEN child[g] ELSE g
    OBVIOUS
  <1>5. f \in Frames /\ (f # g => parent_[f] = g /\ status[f] = "yielded") /\ status[f] # "delegating"
    BY <1>3, <1>4, AdapterOf DEF RInv
  <1>6. Resume(f) /\ status[g] # "final" /\ f # e
    <2>1. Resume(f) /\ status[g] # "final"
      BY <1>4 DEF Begin, Increment
    <2>2. f # e
      BY <1>2, <1>3, <1>4, <1>5, <2>1
    <2> QED
      BY <2>1, <2>2
  <1>7. /\ \A x \in Frames : status'[x] = IF x = f THEN IF parent_[f] # None THEN "advancing" ELSE "running"
                                            ELSE IF x = e THEN "running" ELSE status[x]
        /\ stack' = Append(stack, f) /\ UNCHANGED <<pointers, caught, value_, child, raising>>
    BY <1>5, <1>6 DEF Resume, Adapts
  <1>8. ASSUME NEW x \in Frames
        PROVE  StatusOf(x)' = IF x = g THEN "running" ELSE StatusOf(x)
    <2>1. CASE x = g
      BY <1>3, <1>4, <1>5, <1>7, <2>1 DEF StatusOf, pointers
    <2>2. CASE x # g /\ status[x] = "delegating" /\ parent_[x] = None
      <3>1. child[x] \in Frames /\ parent_[child[x]] = x /\ x # e /\ x # f
        BY <1>2, <1>5, <2>2, AdapterOf DEF RInv
      <3>2. child[x] # f
        BY <1>3, <1>5, <2>2, <3>1, NoneIsNoFrame
      <3>3. child[x] = e => status[child[x]] # "yielded"
        BY <1>2, <3>1
      <3> QED
        BY <1>7, <2>2, <3>1, <3>2, <3>3 DEF StatusOf, pointers
    <2>3. CASE x # g /\ status[x] # "delegating" /\ parent_[x] = None
      <3>1. x # f
        BY <1>5, <2>3, NoneIsNoFrame
      <3> QED
        BY <1>2, <1>7, <2>3, <3>1 DEF StatusOf, pointers
    <2>4. CASE x # g /\ parent_[x] # None
      BY <1>7, <2>4 DEF StatusOf, pointers
    <2> QED
      BY <2>1, <2>2, <2>3, <2>4
  <1>9. LoopStatus' = [LoopStatus EXCEPT ![g] = "running"] /\ LoopReads' = LoopReads
    <2> DEFINE u == [LoopStatus EXCEPT ![g] = "running"]
    <2>1. u = [x \in Frames |-> u[x]] /\ \A x \in Frames : StatusOf(x)' = u[x]
      BY <1>8, Loops
    <2>2. LoopReads = [h \in Holders |-> LoopReads[h]] /\ \A h \in Holders : ReadOf(h)' = LoopReads[h]
      BY <1>7, Loops DEF ReadOf, pointers
    <2> HIDE DEF u
    <2>3. LoopStatus' = u /\ LoopReads' = LoopReads
      BY <2>1, <2>2, LoopsNext
    <2> QED
      BY <2>3 DEF u
  <1>10. LoopStatus[g] \in {"initial", "yielded"}
    <2>1. StatusOf(g) \in {"initial", "yielded"}
      BY <1>3, <1>4, <1>6 DEF StatusOf
    <2> QED
      BY <2>1, Loops
  <1>11. LoopReads[Abstract!Reader] = g
    <2>1. CASE e = Consumer \/ parent_[e] = None
      <3>1. Abstract!Reader = e
        BY <2>1, ReaderIs, RootIs, ExecutorRuns DEF RInv
      <3>2. ReadOf(e) = g
        BY <1>3, <2>1, NoneIsNoFrame DEF ReadOf
      <3> QED
        BY <3>1, <3>2, Loops
    <2>2. CASE e \in Frames /\ parent_[e] # None
      <3> PICK p \in Frames : p = parent_[e] /\ child[p] = e /\ parent_[p] = None
        BY <2>2 DEF RInv, IInv, PromiseInv, IsAdapter, Live
      <3>1. Abstract!Reader = p
        BY <2>2, ReaderIs, RootIs, ExecutorRuns DEF RInv
      <3>2. ReadOf(p) = g /\ p \in Holders
        BY <2>2 DEF ReadOf, Holders
      <3> QED
        BY <3>1, <3>2, Loops
    <2> QED
      BY <2>1, <2>2 DEF Holders
  <1>12. Resumed' = Append(Resumed, g)
    <2>1. Root(f)' = g
      BY <1>3, <1>5, <1>7, NoneIsNoFrame DEF Root, Adapts, pointers
    <2>2. \A x \in Frames : Root(x)' = Root(x)
      BY <1>7 DEF Root, Adapts, pointers
    <2> QED
      BY <1>5, <1>7, <2>1, <2>2, ResumedGrows DEF RInv
  <1>13. ~Pending /\ Pending' = Pending
    BY <1>1, <1>7 DEF Pending
  <1> QED
    BY <1>7, <1>9, <1>10, <1>11, <1>12, <1>13 DEF Abstract!Resume

(* Each overload of yield_value, of an operator or of an adapter.          *)
LEMMA YieldMaps ==
    ASSUME RInv, RInv', NEW f \in Frames, Executes(f), NEW r \in Frames, r = Root(f), NEW o,
           (o = f /\ parent_[f] = None) \/ (AtAValue(child[f]) /\ o = value_[child[f]]),
           value_' = [value_ EXCEPT ![r] = o], Suspend(f)
    PROVE  o \in Frames /\ Abstract!Yield(r, o)
  <1>1. /\ f = Executor /\ status[f] = "running" /\ f \in Live /\ ~raising /\ caught = {} /\ stack # <<>>
        /\ r = IF parent_[f] = None THEN f ELSE parent_[f]
    BY RunningIsQuiet, RootIs, ExecutorRuns DEF Executes, Live, RInv
  <1>2. parent_[r] = None /\ (r # f => status[r] = "delegating" /\ child[r] = f /\ parent_[f] = r)
    BY <1>1 DEF RInv, IInv, PromiseInv, IsAdapter
  <1>3. /\ \A x \in Frames : status'[x] = IF x = f THEN "yielded" ELSE status[x]
        /\ stack' = Pop(stack) /\ UNCHANGED <<pointers, caught, child, raising>>
    BY DEF Suspend, RInv, IInv, TypeOK
  <1>4. ASSUME AtAValue(child[f])
        PROVE  /\ child[f] \in Frames /\ parent_[child[f]] = None /\ StatusOf(child[f]) = "yielded" /\ ReadOf(r) = child[f]
               /\ value_[child[f]] \in Frames
    <2> PICK c \in Frames : c = child[f]
      BY <1>4 DEF RInv, IInv, TypeOK, Holders, AtAValue
    <2>1. parent_[c] = None /\ Waits(c) /\ value_[c] \in Frames
      BY <1>1, <1>4, ReadIsWaiting DEF RInv
    <2>2. StatusOf(c) = "yielded"
      BY <2>1 DEF StatusOf, Waits
    <2>3. ReadOf(r) = c
      BY <1>2, <2>1, NoneIsNoFrame DEF ReadOf
    <2> QED
      BY <2>1, <2>2, <2>3
  <1>5. ASSUME NEW x \in Frames
        PROVE  StatusOf(x)' = IF x = r THEN "yielded" ELSE StatusOf(x)
    <2>1. CASE parent_[x] # None
      BY <1>2, <1>3, <2>1 DEF StatusOf, pointers
    <2>2. CASE parent_[x] = None /\ status[x] # "delegating"
      BY <1>1, <1>2, <1>3, <2>2 DEF StatusOf, pointers
    <2>3. CASE parent_[x] = None /\ status[x] = "delegating"
      <3>1. child[x] \in Frames /\ parent_[child[x]] = x
        BY <2>3, AdapterOf DEF RInv
      <3>2. child[x] = f <=> x = r
        BY <1>1, <1>2, <2>3, <3>1, NoneIsNoFrame
      <3> QED
        BY <1>1, <1>3, <2>3, <3>1, <3>2 DEF StatusOf, pointers
    <2> QED
      BY <2>1, <2>2, <2>3
  <1>6. LoopStatus' = [LoopStatus EXCEPT ![r] = "yielded"] /\ LoopReads' = LoopReads
    <2> DEFINE u == [LoopStatus EXCEPT ![r] = "yielded"]
    <2>1. u = [x \in Frames |-> u[x]] /\ \A x \in Frames : StatusOf(x)' = u[x]
      BY <1>5, Loops
    <2>2. LoopReads = [h \in Holders |-> LoopReads[h]] /\ \A h \in Holders : ReadOf(h)' = LoopReads[h]
      BY <1>3, Loops DEF ReadOf, pointers
    <2> HIDE DEF u
    <2>3. LoopStatus' = u /\ LoopReads' = LoopReads
      BY <2>1, <2>2, LoopsNext
    <2> QED
      BY <2>3 DEF u
  <1>7. Abstract!Reader = r /\ LoopStatus[r] = "running"
    <2>1. StatusOf(r) = "running"
      BY <1>1, <1>2 DEF StatusOf
    <2> QED
      BY <1>1, <2>1, Loops, ReaderIs DEF RInv
  <1>8. o = r \/ (LoopReads[r] # None /\ LoopStatus[LoopReads[r]] = "yielded" /\ o = value_[LoopReads[r]])
    BY <1>1, <1>4, Loops, NoneIsNoFrame DEF Holders
  <1>9. Resumed' = Abstract!ButLast(Resumed)
    <2>1. \A x \in Frames : Root(x)' = Root(x)
      BY <1>3 DEF Root, Adapts, pointers
    <2> QED
      BY <1>1, <1>3, <2>1, ResumedShrinks DEF RInv
  <1>10. ~Pending /\ Pending' = Pending
    BY <1>1, <1>3 DEF Pending
  <1> QED
    BY <1>4, <1>6, <1>7, <1>8, <1>9, <1>10 DEF Abstract!Yield

(* The end of an operator, also by an exception.                           *)
LEMMA LeaveMaps ==
    ASSUME RInv, RInv', NEW f \in Frames, f = Executor, status[f] = "running", parent_[f] = None, child[f] = None,
           End(f), UNCHANGED <<caught, raising>>
    PROVE  Abstract!Leave(f)
  <1>1. stack # <<>> /\ Root(f) = f
    BY ExecutorRuns, RootIs DEF RInv
  <1>2. /\ \A x \in Frames : status'[x] = IF x = f THEN "final" ELSE status[x]
        /\ stack' = Pop(stack) /\ UNCHANGED <<pointers, value_, child>>
    BY DEF End, RInv, IInv, TypeOK
  <1>3. ASSUME NEW x \in Frames
        PROVE  StatusOf(x)' = IF x = f THEN "final" ELSE StatusOf(x)
    <2>1. CASE status[x] # "delegating" \/ parent_[x] # None
      BY <1>2, <2>1 DEF StatusOf, pointers
    <2>2. CASE status[x] = "delegating"
      BY <1>2, <2>2, AdapterOf, NoneIsNoFrame DEF StatusOf, pointers, RInv
    <2> QED
      BY <2>1, <2>2
  <1>4. LoopStatus' = [LoopStatus EXCEPT ![f] = "final"] /\ LoopReads' = LoopReads
    <2> DEFINE u == [LoopStatus EXCEPT ![f] = "final"]
    <2>1. u = [x \in Frames |-> u[x]] /\ \A x \in Frames : StatusOf(x)' = u[x]
      BY <1>3, Loops
    <2>2. LoopReads = [h \in Holders |-> LoopReads[h]] /\ \A h \in Holders : ReadOf(h)' = LoopReads[h]
      BY <1>2, Loops DEF ReadOf, pointers
    <2> HIDE DEF u
    <2>3. LoopStatus' = u /\ LoopReads' = LoopReads
      BY <2>1, <2>2, LoopsNext
    <2> QED
      BY <2>3 DEF u
  <1>5. Abstract!Reader = f /\ LoopStatus[f] = "running" /\ LoopReads[f] = None
    <2>1. StatusOf(f) = "running" /\ ReadOf(f) = None
      BY NoneIsNoFrame DEF StatusOf, ReadOf
    <2> QED
      BY <1>1, <2>1, Loops, ReaderIs DEF RInv, Holders
  <1>6. Resumed' = Abstract!ButLast(Resumed)
    <2>1. \A x \in Frames : Root(x)' = Root(x)
      BY <1>2 DEF Root, Adapts, pointers
    <2> QED
      BY <1>1, <1>2, <2>1, ResumedShrinks DEF RInv
  <1>7. Pending' = Pending
    BY DEF Pending
  <1> QED
    BY <1>2, <1>4, <1>5, <1>6, <1>7 DEF Abstract!Leave

(* ~generator, of a reader or at the end of an awaiter.                    *)
LEMMA DestroyMaps ==
    ASSUME RInv, RInv', NEW e \in Holders, e = Executor, NEW c \in Frames, c = child[e], Quiet(c),
           e \in Frames => parent_[e] = None /\ (status[e] = "running" \/ (status[e] = "delegating" /\ status[c] = "final")),
           DestroyFrames(Held(c)), Pending' = Pending
    PROVE  \E fs \in SUBSET Frames : Abstract!Destroy(fs)
  <1> DEFINE D == Held(c)
  <1>0. c \in Live
    BY NoneIsNoFrame DEF RInv, IInv, HolderInv
  <1>1. /\ D \subseteq Live
        /\ \A x \in D : Quiet(x) /\ x # e
        /\ \A h \in Holders : child[h] \in D => h \in D \/ h = e
    <2>1. D \subseteq Live /\ (\A x \in D : Quiet(x) /\ x # e) /\ \A h \in Holders : child[h] \in D => h \in D \/ child[h] = c
      BY <1>0, HeldIsQuiet DEF RInv
    <2>2. \A h \in Holders : child[h] = c => h = e
      BY NoneIsNoFrame DEF RInv, IInv, HolderInv
    <2> QED
      BY <2>1, <2>2
  <1>2. c \in D /\ Closed(D) /\ D \subseteq Frames
    BY HeldIsLeastHere DEF RInv, IInv
  <1>3. DestroyFrames(D)
    OBVIOUS
  <1> HIDE DEF D
  <1>4. /\ \A x \in Frames : status'[x] = IF x \in D THEN "none" ELSE IF x = e THEN "running" ELSE status[x]
        /\ \A x \in Frames : parent_'[x] = IF x \in D THEN None ELSE parent_[x]
        /\ value_' = [x \in Frames |-> IF x \in D THEN None ELSE value_[x]]
        /\ \A h \in Holders : child'[h] = IF h = e \/ h \in D THEN None ELSE child[h]
        /\ stack' = stack
    BY <1>3 DEF DestroyFrames
  <1>5. ASSUME NEW x \in Frames, status[x] = "delegating"
        PROVE  child[x] \in Frames /\ parent_[child[x]] = x /\ parent_[x] = None /\ child[x] # e /\ x \in Holders
    BY <1>5, AdapterOf, NoneIsNoFrame DEF RInv, Holders
  <1>6. ASSUME NEW x \in Frames
        PROVE  StatusOf(x)' = IF x \in D THEN "none" ELSE StatusOf(x)
    <2>1. CASE x \in D
      BY <1>4, <2>1 DEF StatusOf
    <2>2. CASE x \notin D /\ x = e
      BY <1>4, <2>2 DEF StatusOf
    <2>3. CASE x \notin D /\ x # e /\ status[x] # "delegating"
      BY <1>4, <2>3 DEF StatusOf
    <2>4. CASE x \notin D /\ x # e /\ status[x] = "delegating"
      <3>1. child[x] \notin D
        BY <1>1, <1>5, <2>4
      <3> QED
        BY <1>4, <1>5, <2>4, <3>1 DEF StatusOf
    <2> QED
      BY <2>1, <2>2, <2>3, <2>4
  <1>7. ASSUME NEW h \in Holders
        PROVE  ReadOf(h)' = IF h = e \/ h \in D THEN None ELSE ReadOf(h)
    <2>1. CASE h = e \/ h \in D
      BY <1>4, <2>1, NoneIsNoFrame, FramesAssumption DEF ReadOf
    <2>2. CASE h # e /\ h \notin D
      <3>1. child[h] \notin D /\ child'[h] = child[h]
        BY <1>1, <1>4, <2>2
      <3>2. child[h] \in Frames /\ parent_[child[h]] # None => child[h] # e /\ child'[child[h]] = child[child[h]]
        BY <1>4, <3>1 DEF Holders
      <3> QED
        BY <1>4, <2>2, <3>1, <3>2 DEF ReadOf
    <2> QED
      BY <2>1, <2>2
  <1>8. LoopStatus' = [x \in Frames |-> IF x \in D THEN "none" ELSE LoopStatus[x]]
        /\ LoopReads' = [h \in Holders |-> IF h = e \/ h \in D THEN None ELSE LoopReads[h]]
    <2> DEFINE u == [x \in Frames |-> IF x \in D THEN "none" ELSE LoopStatus[x]]
               v == [h \in Holders |-> IF h = e \/ h \in D THEN None ELSE LoopReads[h]]
    <2>1. u = [x \in Frames |-> u[x]] /\ \A x \in Frames : StatusOf(x)' = u[x]
      BY <1>6, Loops
    <2>2. v = [h \in Holders |-> v[h]] /\ \A h \in Holders : ReadOf(h)' = v[h]
      BY <1>7, Loops
    <2> HIDE DEF u, v
    <2>3. LoopStatus' = u /\ LoopReads' = v
      BY <2>1, <2>2, LoopsNext
    <2> QED
      BY <2>3 DEF u, v
  <1>9. Abstract!Reader = e
    BY ReaderIs, RootIs, ExecutorRuns DEF RInv
  <1>10. LoopReads[e] \in D
    <2>1. CASE parent_[c] = None
      BY <1>2, <2>1, NoneIsNoFrame, Loops DEF ReadOf
    <2>2. CASE parent_[c] # None
      <3>1. child[c] \in Frames
        BY <2>2 DEF RInv, IInv, PromiseInv, IsAdapter
      <3>2. child[c] \in D
        BY <1>2, <3>1, NoneIsNoFrame DEF Closed
      <3>3. ReadOf(e) = child[c]
        BY <2>2, NoneIsNoFrame DEF ReadOf
      <3> QED
        BY <3>2, <3>3, Loops
    <2> QED
      BY <2>1, <2>2
  <1>11. ASSUME NEW x \in D
         PROVE  LoopStatus[x] # "running" /\ (LoopReads[x] # None => LoopReads[x] \in D)
    <2>1. x \in Frames /\ x \in Holders /\ Quiet(x)
      BY <1>1, <1>2 DEF Holders
    <2>2. StatusOf(x) # "running"
      <3>1. CASE parent_[x] # None \/ status[x] # "delegating"
        BY <2>1, <3>1 DEF StatusOf, Quiet, Runs
      <3>2. CASE status[x] = "delegating"
        <4> PICK a \in Frames : a = child[x] /\ parent_[a] # None
          BY <1>5, <2>1, <3>2, NoneIsNoFrame
        <4>1. status[a] \in {"advancing", "running", "yielded", "final"}
          BY DEF RInv, IInv, PromiseInv, IsAdapter
        <4> QED
          BY <1>5, <2>1, <3>2, <4>1 DEF StatusOf, Quiet, Runs
      <3> QED
        BY <3>1, <3>2
    <2>3. ReadOf(x) # None => ReadOf(x) \in D
      <3>1. child[x] # None => child[x] \in D
        BY <1>2 DEF Closed
      <3>2. child[x] \in D /\ child[child[x]] # None => child[child[x]] \in D
        BY <1>2 DEF Closed
      <3> QED
        BY <3>1, <3>2, NoneIsNoFrame DEF ReadOf
    <2> QED
      BY <2>1, <2>2, <2>3, Loops
  <1>12. ASSUME NEW h \in Holders, LoopReads[h] \in D
         PROVE  h = e \/ h \in D
    <2>1. ReadOf(h) \in D /\ ReadOf(h) # None
      BY <1>2, <1>12, Loops, NoneIsNoFrame
    <2>2. CASE ReadOf(h) = child[h]
      BY <1>1, <2>1, <2>2
    <2>3. CASE child[h] \in Frames /\ parent_[child[h]] # None /\ ReadOf(h) = child[child[h]]
      <3>1. child[h] \in Holders /\ child[h] # e
        BY <2>3 DEF Holders
      <3>2. child[h] \in D
        BY <1>1, <2>1, <2>3, <3>1
      <3> QED
        BY <1>1, <3>2
    <2> QED
      BY <2>1, <2>2, <2>3 DEF ReadOf
  <1>13. Resumed' = Resumed
    <2>1. \A x \in Frames : Runs(x) => x \notin D
      BY <1>1 DEF Quiet
    <2>2. \A x \in Frames : Runs(x) => Root(x)' = Root(x)
      BY <1>4, <2>1 DEF Root, Adapts
    <2> QED
      BY <1>4, <2>2, ResumedStays DEF RInv
  <1>14. D \in SUBSET Frames /\ Abstract!Destroy(D)
    BY <1>2, <1>4, <1>8, <1>9, <1>10, <1>11, <1>12, <1>13 DEF Abstract!Destroy, Abstract!Holders, Holders
  <1> QED
    BY <1>14

(* An adapter begins, or ends: the loop that it stands for has no step.    *)
LEMMA DelegateIsNotSeen ==
    ASSUME RInv, RInv', NEW f \in Frames, NEW a \in Frames, Delegate(f, a)
    PROVE  UNCHANGED <<LoopStatus, LoopReads, value_, Resumed, Pending>>
  <1> PICK g \in Frames : g = child[f] /\ status[g] = "initial"
    BY DEF Delegate, RInv, IInv, TypeOK, Holders
  <1>1. /\ f = Executor /\ stack # <<>> /\ f \in Live /\ status[f] = "running" /\ Runs(f)
        /\ parent_[f] = None /\ IsOperator(f) /\ rootOrLeaf_[f] = f /\ ~raising
        /\ a \notin Live /\ a # f /\ IsFree(a) /\ value_[a] = None
        /\ g \in Live /\ parent_[g] = None /\ g # a
    <2>1. f = Executor /\ status[f] = "running" /\ ~raising /\ parent_[f] = None /\ a \notin Live
      BY DEF Delegate, Executes, Adapts, Live
    <2>2. stack # <<>> /\ f \in Live /\ Runs(f)
      BY <2>1, ExecutorRuns DEF RInv
    <2>3. IsOperator(f) /\ rootOrLeaf_[f] = f /\ IsFree(a) /\ value_[a] = None
      BY <2>1, <2>2 DEF RInv, FlightInv, IInv, PromiseInv, IsOperator
    <2>4. g \in Live /\ parent_[g] = None
      BY <2>1, ChildOf, NoneIsNoFrame DEF RInv, Holders
    <2> QED
      BY <2>1, <2>2, <2>3, <2>4
  <1>2. /\ \A x \in Frames : status'[x] = IF x = f THEN "delegating" ELSE IF x = a THEN "advancing" ELSE status[x]
        /\ \A x \in Frames : parent_'[x] = IF x = a THEN f ELSE parent_[x]
        /\ \A h \in Holders : child'[h] = IF h = f THEN a ELSE IF h = a THEN g ELSE child[h]
        /\ stack' = Append(Pop(stack), a) /\ UNCHANGED <<caught, raising>> /\ value_' = value_
    BY <1>1 DEF Delegate, RInv, IInv, TypeOK, Holders
  <1>3. \A h \in Holders : child[h] # a
    BY <1>1, NoneIsNoFrame DEF RInv, IInv, HolderInv
  <1>4. ASSUME NEW x \in Frames
        PROVE  StatusOf(x)' = StatusOf(x)
    <2>1. CASE x = f
      BY <1>1, <1>2, <2>1 DEF StatusOf, Holders
    <2>2. CASE x = a
      BY <1>1, <1>2, <2>2, NoneIsNoFrame DEF StatusOf, IsFree, Live
    <2>3. CASE x # f /\ x # a /\ status[x] # "delegating"
      BY <1>2, <2>3 DEF StatusOf
    <2>4. CASE x # f /\ x # a /\ status[x] = "delegating"
      <3>1. child[x] \in Frames /\ parent_[child[x]] = x
        BY <2>4, AdapterOf DEF RInv
      <3>2. child[x] # f /\ child[x] # a
        BY <1>1, <3>1, NoneIsNoFrame DEF IsFree
      <3> QED
        BY <1>2, <2>4, <3>1, <3>2 DEF StatusOf, Holders
    <2> QED
      BY <2>1, <2>2, <2>3, <2>4
  <1>5. ASSUME NEW h \in Holders
        PROVE  ReadOf(h)' = ReadOf(h)
    <2>1. CASE h = f
      BY <1>1, <1>2, <2>1, NoneIsNoFrame DEF ReadOf, Holders
    <2>2. CASE h = a
      BY <1>1, <1>2, <2>2, NoneIsNoFrame, FramesAssumption DEF ReadOf, IsFree
    <2>3. CASE h # f /\ h # a
      <3>1. child'[h] = child[h] /\ child[h] # a
        BY <1>2, <1>3, <2>3
      <3>2. child[h] \in Frames /\ parent_[child[h]] # None => child'[child[h]] = child[child[h]]
        BY <1>1, <1>2, <3>1 DEF Holders
      <3> QED
        BY <1>2, <2>3, <3>1, <3>2 DEF ReadOf
    <2> QED
      BY <2>1, <2>2, <2>3
  <1>6. LoopStatus' = LoopStatus /\ LoopReads' = LoopReads
    <2>1. LoopStatus = [x \in Frames |-> LoopStatus[x]] /\ \A x \in Frames : StatusOf(x)' = LoopStatus[x]
      BY <1>4, Loops
    <2>2. LoopReads = [h \in Holders |-> LoopReads[h]] /\ \A h \in Holders : ReadOf(h)' = LoopReads[h]
      BY <1>5, Loops
    <2> QED
      BY <2>1, <2>2, LoopsNext
  <1>7. Resumed' = Resumed
    <2>1. Root(a)' = Root(Executor)
      BY <1>1, <1>2, NoneIsNoFrame DEF Root, Adapts
    <2>2. ~Runs(a)
      BY <1>1 DEF Runs, Live
    <2>3. \A x \in Frames : Runs(x) => Root(x)' = Root(x)
      BY <1>2, <2>2 DEF Root, Adapts
    <2> QED
      BY <1>1, <1>2, <2>1, <2>3, ResumedKeepsItsLength DEF RInv
  <1> QED
    BY <1>2, <1>6, <1>7 DEF Pending

LEMMA ToParentIsNotSeen ==
    ASSUME RInv, RInv', NEW f \in Frames, f = Executor, status[f] = "running", parent_[f] # None, ToParent(f), Pending' = Pending
    PROVE  UNCHANGED <<LoopStatus, LoopReads, value_, Resumed, Pending>>
  <1> PICK p \in Frames : p = parent_[f] /\ parent_[p] = None /\ status[p] = "delegating" /\ child[p] = f /\ rootOrLeaf_[f] = p
    BY DEF RInv, IInv, PromiseInv, IsAdapter, Live
  <1>1. /\ \A x \in Frames : status'[x] = IF x = f THEN "final" ELSE status[x]
        /\ stack # <<>> /\ stack' = Append(Pop(stack), p) /\ UNCHANGED <<parent_, value_, child>>
    BY ExecutorRuns DEF ToParent, RInv, IInv, TypeOK
  <1>2. ASSUME NEW x \in Frames
        PROVE  StatusOf(x)' = StatusOf(x)
    <2>1. CASE status[x] # "delegating" \/ parent_[x] # None
      BY <1>1, <2>1 DEF StatusOf
    <2>2. CASE status[x] = "delegating" /\ parent_[x] = None
      <3>1. child[x] \in Frames
        BY <2>2, AdapterOf DEF RInv
      <3> QED
        BY <1>1, <2>2, <3>1 DEF StatusOf
    <2> QED
      BY <2>1, <2>2
  <1>3. LoopStatus' = LoopStatus /\ LoopReads' = LoopReads
    <2>1. LoopStatus = [x \in Frames |-> LoopStatus[x]] /\ \A x \in Frames : StatusOf(x)' = LoopStatus[x]
      BY <1>2, Loops
    <2>2. LoopReads = [h \in Holders |-> LoopReads[h]] /\ \A h \in Holders : ReadOf(h)' = LoopReads[h]
      BY <1>1, Loops DEF ReadOf
    <2> QED
      BY <2>1, <2>2, LoopsNext
  <1>4. Resumed' = Resumed
    <2>1. (\A x \in Frames : Root(x)' = Root(x)) /\ Root(p) = Root(Executor)
      BY <1>1, RootIs DEF Root, Adapts
    <2> QED
      BY <1>1, <2>1, ResumedKeepsItsLength DEF RInv
  <1> QED
    BY <1>1, <1>3, <1>4

-----------------------------------------------------------------------------
LEMMA InitMaps == Init => Abstract!Init
  <1> SUFFICES ASSUME Init PROVE Abstract!Init
    OBVIOUS
  <1>1. \A x \in Frames : StatusOf(x) = "none"
    BY DEF Init, StatusOf
  <1>2. \A h \in Holders : ReadOf(h) = None
    BY FramesAssumption DEF Init, ReadOf
  <1>3. Resumed = <<>>
    BY InitInvariant, ReaderIs DEF Init
  <1> QED
    BY <1>1, <1>2, <1>3, Loops DEF Init, Abstract!Init, Abstract!Holders, Holders, Pending

LEMMA StepMaps ==
    ASSUME RInv, RInv', [Next]_vars
    PROVE  Abstract!Next \/ UNCHANGED <<LoopStatus, LoopReads, value_, Resumed, Pending>>
  <1>1. CASE Begin \/ Increment
    BY <1>1, ResumeMaps DEF Abstract!Next
  <1>2. CASE Destroy
    <2> PICK e \in Holders : e = Executor
      BY ExecutorRuns DEF RInv
    <2> PICK c \in Frames : c = child[e]
      BY <1>2 DEF Destroy, RInv, IInv, TypeOK
    <2>1. e \in Frames => status[e] = "running" /\ parent_[e] = None
      BY <1>2, NoneIsNoFrame DEF Destroy, InCode, Adapts
    <2>2. Quiet(c)
      BY <2>1, ChildOf, ChildIsQuiet, NoneIsNoFrame DEF RInv
    <2>3. caught = {}
      BY <1>2, RunningIsQuiet DEF Destroy
    <2>4. DestroyFrames(Held(c)) /\ Pending' = Pending
      BY <1>2, <2>3 DEF Destroy, DestroyFrames, Pending
    <2> QED
      BY <2>1, <2>2, <2>4, DestroyMaps DEF Abstract!Next
  <1>3. ASSUME NEW f \in Frames, AwaitResume(f)
        PROVE  Abstract!Next
    <2>1. f = Executor /\ f \in Holders /\ status[f] = "delegating" /\ Runs(f) /\ DestroyFrames(Held(child[f])) /\ raising' = (f \in caught)
      BY <1>3, ExecutorRuns DEF AwaitResume, Holders, RInv
    <2> PICK c \in Frames : c = child[f] /\ status[c] = "final"
      BY <2>1, AdapterOf DEF Runs, RInv
    <2>2. parent_[f] = None
      BY <2>1, AdapterOf DEF RInv
    <2>3. Quiet(c)
      BY DEF Quiet, Runs
    <2>4. Pending' = Pending
      <3>1. ~raising
        BY <2>1, ExecutorRuns DEF RInv
      <3>2. caught' = {} /\ (f \in caught <=> caught # {})
        BY <2>1 DEF RInv, FlightInv, IInv, TypeOK, DestroyFrames
      <3> QED
        BY <2>1, <3>1, <3>2 DEF Pending
    <2> QED
      BY <2>1, <2>2, <2>3, <2>4, DestroyMaps DEF Abstract!Next
  <1>4. CASE Catch
    <2>1. caught = {}
      BY <1>4, RunningIsQuiet DEF Catch
    <2>2. LoopStatus' = LoopStatus /\ LoopReads' = LoopReads /\ Resumed' = Resumed
      BY <1>4 DEF Catch, LoopStatus, LoopReads, Resumed, Root, Adapts, pointers
    <2>3. Resumed = <<>>
      BY <1>4, ReaderIs DEF Catch, RInv
    <2> QED
      BY <1>4, <2>1, <2>2, <2>3 DEF Catch, Pending, Abstract!Catch, Abstract!Next
  <1>5. ASSUME NEW f \in Frames, Throw(f)
        PROVE  Abstract!Next
    <2>1. caught = {} /\ ~raising /\ stack # <<>>
      BY <1>5, RunningIsQuiet, ExecutorRuns DEF Throw, Executes, RInv
    <2>2. LoopStatus' = LoopStatus /\ LoopReads' = LoopReads /\ Resumed' = Resumed
      BY <1>5 DEF Throw, LoopStatus, LoopReads, Resumed, Root, Adapts, pointers
    <2>3. Resumed # <<>>
      BY <2>1, ReaderIs DEF RInv
    <2> QED
      BY <1>5, <2>1, <2>2, <2>3 DEF Throw, Pending, Abstract!Throw, Abstract!Next
  <1>6. ASSUME NEW f \in Frames, Create(f)
        PROVE  Abstract!Next
    BY <1>6, StartMaps DEF Abstract!Next
  <1>7. ASSUME NEW f \in Frames, YieldObject(f)
        PROVE  Abstract!Next
    <2>1. Root(f) = f /\ parent_[f] = None
      BY <1>7 DEF YieldObject, Root, Adapts
    <2>2. Executes(f) /\ value_' = [value_ EXCEPT ![f] = f] /\ Suspend(f)
      BY <1>7 DEF YieldObject
    <2>3. Abstract!Yield(f, f)
      BY <2>1, <2>2, YieldMaps
    <2> QED
      BY <2>3 DEF Abstract!Next
  <1>8. ASSUME NEW f \in Frames, NEW o \in Constants(f), YieldConst(f, o)
        PROVE  Abstract!Next
    <2>1. f \in Live /\ status[f] = "running"
      BY <1>8 DEF YieldConst, Executes, Live
    <2> PICK r \in Frames : r = Root(f)
      BY RootIs DEF RInv, IInv, TypeOK
    <2>2. r = rootOrLeaf_[f]
      BY <2>1, RootIs DEF RInv, IInv, PromiseInv, IsOperator, IsAdapter
    <2>3. Executes(f) /\ value_' = [value_ EXCEPT ![r] = o] /\ Suspend(f)
      BY <1>8, <2>2 DEF YieldConst
    <2>4. (o = f /\ parent_[f] = None) \/ (AtAValue(child[f]) /\ o = value_[child[f]])
      BY DEF Constants, Adapts
    <2>5. o \in Frames /\ Abstract!Yield(r, o)
      BY <2>3, <2>4, YieldMaps
    <2> QED
      BY <2>5 DEF Abstract!Next
  <1>9. ASSUME NEW f \in Frames, Return(f)
        PROVE  Abstract!Next \/ UNCHANGED <<LoopStatus, LoopReads, value_, Resumed, Pending>>
    <2>1. f = Executor /\ status[f] = "running" /\ UNCHANGED <<caught, raising>>
      BY <1>9 DEF Return, Executes
    <2>2. CASE parent_[f] = None
      <3>1. child[f] = None /\ End(f)
        BY <1>9, <2>2 DEF Return, FinalSuspend, Adapts
      <3> QED
        BY <2>1, <2>2, <3>1, LeaveMaps DEF Abstract!Next
    <2>3. CASE parent_[f] # None
      <3>1. ToParent(f) /\ Pending' = Pending
        BY <1>9, <2>1, <2>3 DEF Return, FinalSuspend, Adapts, Pending
      <3> QED
        BY <2>1, <2>3, <3>1, ToParentIsNotSeen
    <2> QED
      BY <2>2, <2>3
  <1>10. ASSUME NEW f \in Frames, Unwind(f)
         PROVE  Abstract!Next \/ UNCHANGED <<LoopStatus, LoopReads, value_, Resumed, Pending>>
    <2>1. f = Executor /\ raising /\ status[f] = "running" /\ f \in Live
      BY <1>10, ExecutorRuns DEF Unwind, RInv
    <2>2. CASE parent_[f] = None
      <3>1. exception_[f] = None
        BY <2>1, <2>2 DEF RInv, IInv, PromiseInv, IsOperator
      <3>2. child[f] = None /\ End(f) /\ UNCHANGED <<caught, raising>>
        BY <1>10, <2>2, <3>1 DEF Unwind, Adapts
      <3> QED
        BY <2>1, <2>2, <3>2, LeaveMaps DEF Abstract!Next
    <2>3. CASE parent_[f] # None
      <3>1. exception_[f] = parent_[f]
        BY <2>1, <2>3 DEF RInv, IInv, PromiseInv, IsAdapter
      <3>2. ToParent(f) /\ caught' # {}
        BY <1>10, <2>3, <3>1 DEF Unwind, FinalSuspend, Adapts
      <3>3. Pending' = Pending
        BY <2>1, <3>2 DEF Pending
      <3> QED
        BY <2>1, <2>3, <3>2, <3>3, ToParentIsNotSeen
    <2> QED
      BY <2>2, <2>3
  <1>11. ASSUME NEW f \in Frames, NEW a \in Frames, Delegate(f, a)
         PROVE  UNCHANGED <<LoopStatus, LoopReads, value_, Resumed, Pending>>
    BY <1>11, DelegateIsNotSeen
  <1>12. CASE UNCHANGED vars
    BY <1>12 DEF vars, LoopStatus, LoopReads, Resumed, Root, Adapts, Pending, pointers
  <1> QED
    BY <1>1, <1>2, <1>3, <1>4, <1>5, <1>6, <1>7, <1>8, <1>9, <1>10, <1>11, <1>12 DEF Next

(* To readers and operators a generator with adapters is one without:      *)
(* `co_yield elements_of(g)` means `for (auto const &v : g) co_yield v`.   *)
THEOREM Refinement == Spec => IsLoopsOnly
  <1>1. Init => RInv /\ Abstract!Init
    BY RInvInit, InitMaps
  <1>2. RInv /\ [Next]_vars => RInv'
    BY FlightStep
  <1>3. RInv /\ RInv' /\ [Next]_vars => [Abstract!Next]_(Abstract!vars)
    BY StepMaps DEF Abstract!vars
  <1> QED
    BY <1>1, <1>2, <1>3, PTL DEF Spec, IsLoopsOnly, Abstract!Spec
=============================================================================
