---------------------------- MODULE GeneratorProofs ----------------------------
(***************************************************************************)
(* Theorems about Generator, for any number of frames and any depth of     *)
(* nesting.  The invariant relates each frame to its neighbours only, and  *)
(* what a frame holds directly or indirectly is the least set that is      *)
(* closed under child.                                                     *)
(***************************************************************************)
EXTENDS Generator, SequenceTheorems, TLAPS

Live == {f \in Frames : status[f] # "none"}
Closed(S) == \A e \in S : child[e] # None => child[e] \in S

(* In execution: on the stack.  A coroutine that has delegated is, once    *)
(* its adapter has ended.                                                  *)
Runs(f) == \/ status[f] \in {"advancing", "running"}
           \/ status[f] = "delegating" /\ status[child[f]] = "final"

(* The promise of a frame that is free, of an operator, of an adapter.     *)
IsFree(f) ==
    /\ rootOrLeaf_[f] = None /\ parent_[f] = None /\ exception_[f] = None
    /\ child[f] = None /\ f \notin caught
IsOperator(f) ==
    /\ exception_[f] = None /\ status[f] # "advancing"
    /\ rootOrLeaf_[f] = IF status[f] = "delegating" /\ status[child[f]] # "final" THEN child[f] ELSE f
    /\ status[f] \in {"initial", "final"} => child[f] = None
    /\ status[f] = "delegating" => child[f] \in Frames /\ parent_[child[f]] = f
    /\ f \in caught => status[f] = "delegating" /\ status[child[f]] = "final"
IsAdapter(f) ==
    /\ status[f] \in {"advancing", "running", "yielded", "final"} /\ f \notin caught
    /\ parent_[f] \in Live /\ status[parent_[f]] = "delegating" /\ child[parent_[f]] = f
    /\ parent_[parent_[f]] = None
    /\ rootOrLeaf_[f] = parent_[f] /\ exception_[f] = parent_[f]
    /\ child[f] \in Frames /\ parent_[child[f]] = None
PromiseInv ==
    \A f \in Frames :
        /\ f \notin Live => IsFree(f)
        /\ f \in Live /\ parent_[f] = None => IsOperator(f)
        /\ parent_[f] # None => IsAdapter(f)

(* Who holds what. *)
HolderInv ==
    /\ \A h \in Holders : child[h] # None => child[h] \in Live
    /\ \A h, k \in Holders : child[h] = child[k] /\ child[h] # None => h = k
    /\ \A S \in SUBSET Frames : Closed(S) /\ (child[Consumer] # None => child[Consumer] \in S) => Live \subseteq S

(* Each coroutine in execution was resumed by the one that holds, or reads, *)
(* its generator, and that one is in the middle of its code.               *)
Below(i) == IF i = 1 THEN Consumer ELSE stack[i - 1]
StackInv ==
    /\ \A f \in Frames : Runs(f) <=> \E i \in DOMAIN stack : f = stack[i]
    /\ \A i, j \in DOMAIN stack : stack[i] = stack[j] => i = j
    /\ \A i \in DOMAIN stack : child[Below(i)] = Root(stack[i])
    /\ \A i \in DOMAIN stack : i # Len(stack) \/ raising => status[stack[i]] = "running"

(* The value of a generator that waits was yielded by one that it holds,   *)
(* which waits too.                                                        *)
ValueInv ==
    \A g \in Live : parent_[g] = None /\ Waits(g) => value_[g] \in Held(g) /\ status[value_[g]] = "yielded"

IInv == TypeOK /\ PromiseInv /\ HolderInv /\ StackInv /\ ValueInv

LEMMA NoneIsNoFrame == (\A f \in Frames : f # None /\ f # Consumer) /\ Consumer # None
  BY FramesAssumption

LEMMA InitInvariant == Init => IInv
  <1> SUFFICES ASSUME Init PROVE IInv
    OBVIOUS
  <1>1. Live = {} /\ stack = <<>> /\ DOMAIN stack = {} /\ \A h \in Holders : child[h] = None
    BY DEF Init, Live
  <1>2. TypeOK
    <2>1. stack \in Seq(Frames)
      BY DEF Init
    <2> QED
      BY <2>1 DEF Init, TypeOK, Statuses
  <1>3. PromiseInv
    BY <1>1 DEF Init, PromiseInv, IsFree, Holders
  <1>4. HolderInv
    BY <1>1 DEF HolderInv
  <1>5. StackInv
    BY <1>1 DEF Init, StackInv, Runs
  <1>6. ValueInv
    BY <1>1 DEF ValueInv
  <1> QED
    BY <1>2, <1>3, <1>4, <1>5, <1>6 DEF IInv

-----------------------------------------------------------------------------
LEMMA StackIsAFunction ==
    ASSUME TypeOK
    PROVE  /\ Len(stack) \in Nat /\ DOMAIN stack = 1 .. Len(stack)
           /\ \A i \in 1 .. Len(stack) : stack[i] \in Frames
           /\ stack = <<>> <=> Len(stack) = 0
           /\ Executor = IF Len(stack) = 0 THEN Consumer ELSE stack[Len(stack)]
  <1>1. stack \in Seq(Frames)
    BY DEF TypeOK
  <1>2. Len(stack) \in Nat /\ DOMAIN stack = 1 .. Len(stack) /\ (stack = <<>> <=> Len(stack) = 0)
    BY <1>1, EmptySeq, LenProperties
  <1>3. \A i \in 1 .. Len(stack) : stack[i] \in Frames
    BY <1>1, LenProperties
  <1> QED
    BY <1>2, <1>3 DEF Executor, Top

(* Whoever executes is the consumer, or a frame on the top of the stack.   *)
LEMMA ExecutorRuns ==
    ASSUME IInv
    PROVE  /\ Executor \in Holders
           /\ Executor = Consumer <=> stack = <<>>
           /\ Executor \in Frames <=> stack # <<>>
           /\ Executor \in Frames =>
                 /\ Runs(Executor) /\ Executor \in Live
                 /\ Len(stack) \in 1 .. Len(stack) /\ stack[Len(stack)] = Executor
                 /\ raising => status[Executor] = "running"
  <1> DEFINE n == Len(stack)
  <1>1. /\ n \in Nat /\ DOMAIN stack = 1 .. n /\ (\A i \in 1 .. n : stack[i] \in Frames)
        /\ (stack = <<>> <=> n = 0) /\ Executor = IF n = 0 THEN Consumer ELSE stack[n]
    BY StackIsAFunction DEF IInv
  <1> HIDE DEF n
  <1>2. CASE n = 0
    BY <1>1, <1>2, NoneIsNoFrame DEF Holders
  <1>3. CASE n # 0
    <2>1. n \in 1 .. n
      BY <1>1, <1>3
    <2>2. stack[n] \in Frames /\ Runs(stack[n]) /\ (raising => status[stack[n]] = "running")
      BY <1>1, <2>1 DEF IInv, StackInv
    <2>3. stack[n] \in Live
      BY <2>2 DEF Runs, Live
    <2> QED
      BY <1>1, <1>3, <2>1, <2>2, <2>3, NoneIsNoFrame DEF Holders, n
  <1> QED
    BY <1>2, <1>3

(* A frame that is held by an operator or read by an adapter is an operator *)
(* or, of an operator that delegates, an adapter.                          *)
LEMMA ChildOf ==
    ASSUME IInv, NEW h \in Holders, child[h] # None
    PROVE  /\ child[h] \in Live /\ child[h] \in Frames
           /\ parent_[child[h]] # None => h \in Frames /\ parent_[child[h]] = h /\ status[h] = "delegating"
  <1> PICK c \in Frames : c = child[h]
    BY DEF IInv, TypeOK
  <1>1. c \in Live
    BY DEF IInv, HolderInv
  <1>2. ASSUME parent_[c] # None
        PROVE  h \in Frames /\ parent_[c] = h /\ status[h] = "delegating"
    <2> PICK p \in Frames : p = parent_[c]
      BY <1>2 DEF IInv, TypeOK
    <2>1. child[p] = c /\ status[p] = "delegating" /\ p \in Holders
      BY <1>2 DEF IInv, PromiseInv, IsAdapter, Holders
    <2>2. p = h
      BY <2>1 DEF IInv, HolderInv
    <2> QED
      BY <2>1, <2>2
  <1> QED
    BY <1>1, <1>2

(* Nothing of a quiet generator executes. *)
Quiet(f) == ~Runs(f) /\ (status[f] = "delegating" => ~Runs(child[f]))

LEMMA RootIs == \A f \in Frames : Root(f) = IF parent_[f] = None THEN f ELSE parent_[f]
  BY DEF Root, Adapts

(* Whoever resumed a generator is below it on the stack.                   *)
LEMMA ResumedByItsHolder ==
    ASSUME IInv, NEW f \in Frames, Runs(f), NEW h \in Holders, child[h] = Root(f)
    PROVE  h # Executor /\ (h \in Frames => Runs(h))
  <1> DEFINE n == Len(stack)
  <1>1. /\ n \in Nat /\ DOMAIN stack = 1 .. n /\ (\A i \in 1 .. n : stack[i] \in Frames)
        /\ (stack = <<>> <=> n = 0) /\ Executor = IF n = 0 THEN Consumer ELSE stack[n]
    BY StackIsAFunction DEF IInv
  <1> PICK i \in DOMAIN stack : f = stack[i]
    BY DEF IInv, StackInv
  <1> HIDE DEF n
  <1>2. child[Below(i)] = child[h]
    BY DEF IInv, StackInv
  <1>3. Below(i) \in Holders
    BY <1>1 DEF Below, Holders
  <1>4. Root(f) # None
    <2>1. parent_[f] # None => parent_[f] \in Live
      BY DEF IInv, PromiseInv, IsAdapter
    <2> QED
      BY <2>1, NoneIsNoFrame, RootIs DEF Live
  <1>5. Below(i) = h
    BY <1>2, <1>3, <1>4 DEF IInv, HolderInv
  <1>6. CASE i = 1
    <2>1. h = Consumer /\ n # 0
      BY <1>1, <1>5, <1>6 DEF Below
    <2>2. Executor \in Frames
      BY <1>1, <2>1
    <2> QED
      BY <2>1, <2>2, NoneIsNoFrame
  <1>7. CASE i # 1
    <2>1. i - 1 \in 1 .. n /\ n \in 1 .. n /\ i - 1 # n /\ h = stack[i - 1] /\ n # 0
      BY <1>1, <1>5, <1>7 DEF Below
    <2>2. stack[i - 1] # stack[n]
      BY <1>1, <2>1 DEF IInv, StackInv
    <2>3. Runs(stack[i - 1])
      BY <1>1, <2>1 DEF IInv, StackInv
    <2> QED
      BY <1>1, <2>1, <2>2, <2>3
  <1> QED
    BY <1>6, <1>7

(* What the executor holds and may resume or destroy is quiet.             *)
LEMMA ChildIsQuiet ==
    ASSUME IInv, NEW g \in Frames, g = child[Executor], parent_[g] = None
    PROVE  /\ Quiet(g) /\ g \in Live
           /\ status[g] \in {"initial", "yielded", "final"} \/ (status[g] = "delegating" /\ status[child[g]] = "yielded")
           /\ rootOrLeaf_[g] = IF status[g] = "delegating" THEN child[g] ELSE g
  <1>1. Executor \in Holders /\ g # None
    BY ExecutorRuns, NoneIsNoFrame
  <1>2. g \in Live /\ IsOperator(g) /\ Root(g) = g
    BY <1>1, RootIs DEF IInv, HolderInv, PromiseInv
  <1>3. ~Runs(g)
    BY <1>1, <1>2, ResumedByItsHolder
  <1>4. ASSUME status[g] = "delegating"
        PROVE  status[child[g]] = "yielded" /\ ~Runs(child[g])
    <2> PICK a \in Frames : a = child[g] /\ parent_[a] = g
      BY <1>2, <1>4 DEF IsOperator
    <2>1. Root(a) = g /\ IsAdapter(a)
      BY NoneIsNoFrame, RootIs DEF IInv, PromiseInv
    <2>2. ~Runs(a)
      BY <1>1, <2>1, ResumedByItsHolder
    <2>3. status[a] # "final"
      BY <1>3, <1>4 DEF Runs
    <2> QED
      BY <2>1, <2>2, <2>3 DEF IsAdapter, Runs
  <1>5. status[g] \in Statuses
    BY DEF IInv, TypeOK
  <1> QED
    BY <1>2, <1>3, <1>4, <1>5 DEF IsOperator, Quiet, Runs, Statuses, Live

-----------------------------------------------------------------------------
(* What a generator holds: the least closed set with its first frame.      *)
LEMMA HeldIsLeast ==
    ASSUME NEW g \in Frames, \A e \in Frames : child[e] \in Frames \cup {None}
    PROVE  /\ Held(g) \subseteq Frames /\ g \in Held(g) /\ Closed(Held(g))
           /\ \A S \in SUBSET Frames : g \in S /\ Closed(S) => Held(g) \subseteq S
  <1>1. /\ Held(g) \subseteq Frames /\ g \in Held(g)
        /\ \A S \in SUBSET Frames : g \in S /\ Closed(S) => Held(g) \subseteq S
    BY DEF Held, Closed
  <1>2. ASSUME NEW e \in Held(g), child[e] # None
        PROVE  child[e] \in Held(g)
    <2>1. child[e] \in Frames
      BY <1>1, <1>2
    <2>2. ASSUME NEW S \in SUBSET Frames, g \in S, Closed(S)
          PROVE  child[e] \in S
      <3>1. e \in S
        BY <1>1, <2>2
      <3> QED
        BY <1>2, <2>2, <3>1 DEF Closed
    <2> QED
      BY <2>1, <2>2 DEF Held, Closed
  <1> QED
    BY <1>1, <1>2 DEF Closed

LEMMA HeldIsLeastHere ==
    ASSUME TypeOK, NEW g \in Frames
    PROVE  /\ Held(g) \subseteq Frames /\ g \in Held(g) /\ Closed(Held(g))
           /\ \A S \in SUBSET Frames : g \in S /\ Closed(S) => Held(g) \subseteq S
  <1>1. \A e \in Frames : child[e] \in Frames \cup {None}
    BY DEF TypeOK, Holders
  <1> QED
    BY <1>1, HeldIsLeast

(* A quiet generator is quiet all the way down, and nobody else holds any  *)
(* of it.                                                                  *)
LEMMA HeldIsQuiet ==
    ASSUME IInv, NEW g \in Live, Quiet(g)
    PROVE  /\ Held(g) \subseteq Live
           /\ \A x \in Held(g) : Quiet(x) /\ x # Executor
           /\ \A h \in Holders : child[h] \in Held(g) => h \in Held(g) \/ child[h] = g
  <1> DEFINE D == Held(g)
  <1>0. g \in Frames /\ Live \subseteq Frames
    BY DEF Live
  <1>1. /\ D \subseteq Frames /\ g \in D /\ Closed(D)
        /\ \A S \in SUBSET Frames : g \in S /\ Closed(S) => D \subseteq S
    BY <1>0, HeldIsLeastHere DEF IInv
  <1> HIDE DEF D
  <1>2. \A h \in Holders : child[h] # None => child[h] \in Live
    BY DEF IInv, HolderInv
  <1>3. D \subseteq Live
    BY <1>0, <1>1, <1>2 DEF Closed, Holders
  <1>4. ASSUME NEW h \in Holders, child[h] \in D
        PROVE  h \in D \/ child[h] = g
    <2> SUFFICES ASSUME h \notin D, child[h] # g PROVE FALSE
      OBVIOUS
    <2>1. \A e \in D : child[e] # child[h]
      BY <1>1, <1>3, <1>4, NoneIsNoFrame DEF IInv, HolderInv, Holders
    <2>2. Closed(D \ {child[h]})
      BY <1>1, <2>1 DEF Closed
    <2> QED
      BY <1>1, <1>4, <2>2
  <1>5. ASSUME NEW x \in Live, Quiet(x), child[x] # None
        PROVE  child[x] \in Live /\ Quiet(child[x])
    <2> PICK c \in Live : c = child[x]
      BY <1>0, <1>2, <1>5 DEF Holders
    <2>0. x \in Frames /\ x \in Holders /\ c \in Frames
      BY <1>0 DEF Holders
    <2>1. CASE parent_[c] # None
      <3>1. parent_[c] = x /\ status[x] = "delegating" /\ IsAdapter(c)
        BY <1>5, <2>0, <2>1, ChildOf DEF IInv, PromiseInv
      <3> QED
        BY <1>5, <3>1 DEF Quiet, IsAdapter
    <2>2. CASE parent_[c] = None
      <3>1. Root(c) = c
        BY <2>0, <2>2, RootIs
      <3>2. ~Runs(c)
        BY <1>5, <2>0, <3>1, ResumedByItsHolder DEF Quiet
      <3>3. ASSUME status[c] = "delegating", Runs(child[c])
            PROVE  FALSE
        <4> PICK a \in Frames : a = child[c] /\ parent_[a] = c
          BY <2>0, <2>2, <3>3 DEF IInv, PromiseInv, IsOperator
        <4>1. Root(a) = c
          BY <2>0, NoneIsNoFrame, RootIs
        <4> QED
          BY <1>5, <2>0, <3>3, <4>1, ResumedByItsHolder DEF Quiet
      <3> QED
        BY <3>2, <3>3 DEF Quiet
    <2> QED
      BY <2>1, <2>2
  <1>6. \A x \in D : Quiet(x)
    <2> DEFINE T == {x \in Live : Quiet(x)}
    <2>1. Closed(T) /\ g \in T /\ T \in SUBSET Frames
      BY <1>0, <1>5 DEF Closed
    <2> HIDE DEF T
    <2>2. D \subseteq T
      BY <1>1, <2>1
    <2> QED
      BY <2>2 DEF T
  <1>7. \A x \in D : x # Executor
    BY <1>0, <1>3, <1>6, ExecutorRuns DEF Quiet
  <1> QED
    BY <1>3, <1>4, <1>6, <1>7 DEF D

-----------------------------------------------------------------------------
(* The stack grows, shrinks, or has its top replaced. *)
LEMMA Pushes ==
    ASSUME NEW s \in Seq(Frames), NEW f \in Frames
    PROVE  /\ Append(s, f) \in Seq(Frames) /\ DOMAIN Append(s, f) = 1 .. Len(s) + 1
           /\ \A i \in DOMAIN s : Append(s, f)[i] = s[i]
           /\ Append(s, f)[Len(s) + 1] = f
  BY AppendProperties

LEMMA Pops ==
    ASSUME NEW s \in Seq(Frames), s # <<>>
    PROVE  /\ Pop(s) \in Seq(Frames) /\ Len(Pop(s)) = Len(s) - 1 /\ DOMAIN Pop(s) = 1 .. Len(s) - 1
           /\ \A i \in DOMAIN Pop(s) : Pop(s)[i] = s[i]
  <1> DEFINE n == Len(s) - 1
  <1>1. n \in Nat /\ \A i \in 1 .. n : s[i] \in Frames
    OBVIOUS
  <1>2. 1 \in Int /\ n \in Int
    BY <1>1
  <1> HIDE DEF n
  <1>3. /\ SubSeq(s, 1, n) \in Seq(Frames)
        /\ Len(SubSeq(s, 1, n)) = IF 1 <= n THEN n - 1 + 1 ELSE 0
        /\ \A i \in 1 .. n - 1 + 1 : SubSeq(s, 1, n)[i] = s[1 + i - 1]
    BY <1>1, <1>2, SubSeqProperties
  <1>4. n - 1 + 1 = n /\ (~(1 <= n) => n = 0) /\ \A i \in 1 .. n : 1 + i - 1 = i
    BY <1>1
  <1>5. /\ SubSeq(s, 1, n) \in Seq(Frames) /\ Len(SubSeq(s, 1, n)) = n
        /\ \A i \in 1 .. n : SubSeq(s, 1, n)[i] = s[i]
    BY <1>1, <1>3, <1>4
  <1>6. DOMAIN SubSeq(s, 1, n) = 1 .. n
    BY <1>5, LenProperties
  <1> QED
    BY <1>5, <1>6 DEF Pop, n

(* In the next lemmas stacks are functions on 1 .. n. *)
LEMMA PushKeeps ==
    ASSUME StackInv, NEW n \in Nat, DOMAIN stack = 1 .. n, DOMAIN stack' = 1 .. n + 1, Len(stack') = n + 1,
           \A i \in 1 .. n : stack'[i] = stack[i] /\ stack[i] \in Frames,
           NEW f \in Frames, stack'[n + 1] = f, ~Runs(f), ~raising',
           \A x \in Frames : Runs(x)' <=> Runs(x) \/ x = f,
           \A i \in 1 .. n : status'[stack[i]] = "running",
           \A x \in Frames : Root(x)' = Root(x), child' = child,
           child[IF n = 0 THEN Consumer ELSE stack[n]] = Root(f)
    PROVE  StackInv'
  <1>1. \A i \in 1 .. n : stack[i] # f
    BY DEF StackInv
  <1>2. ASSUME NEW x \in Frames
        PROVE  Runs(x)' <=> \E i \in DOMAIN stack' : x = stack'[i]
    <2>1. (\E i \in DOMAIN stack' : x = stack'[i]) <=> x = f \/ \E i \in 1 .. n : x = stack[i]
      OBVIOUS
    <2>2. Runs(x) <=> \E i \in 1 .. n : x = stack[i]
      BY DEF StackInv
    <2> QED
      BY <2>1, <2>2
  <1>3. \A i, j \in DOMAIN stack' : stack'[i] = stack'[j] => i = j
    BY <1>1 DEF StackInv
  <1>4. ASSUME NEW i \in DOMAIN stack'
        PROVE  (child[Below(i)] = Root(stack[i]))'
    <2>1. CASE i \in 1 .. n
      <3>1. Below(i)' = Below(i)
        BY <2>1 DEF Below
      <3>2. child[Below(i)] = Root(stack[i])
        BY <2>1 DEF StackInv
      <3> QED
        BY <2>1, <3>1, <3>2
    <2>2. CASE i = n + 1
      <3>1. Below(i)' = IF n = 0 THEN Consumer ELSE stack[n]
        BY <2>2 DEF Below
      <3> QED
        BY <2>2, <3>1
    <2> QED
      BY <2>1, <2>2
  <1>5. \A i \in DOMAIN stack' : i # Len(stack') \/ raising' => status'[stack'[i]] = "running"
    OBVIOUS
  <1> QED
    BY <1>2, <1>3, <1>4, <1>5 DEF StackInv

LEMMA PopKeeps ==
    ASSUME StackInv, NEW n \in Nat \ {0}, DOMAIN stack = 1 .. n, DOMAIN stack' = 1 .. n - 1, Len(stack) = n,
           \A i \in 1 .. n - 1 : stack'[i] = stack[i] /\ stack[i] \in Frames,
           \A x \in Frames : Runs(x)' <=> Runs(x) /\ x # stack[n],
           \A i \in 1 .. n - 1 : status'[stack[i]] = status[stack[i]],
           \A x \in Frames : Root(x)' = Root(x), child' = child
    PROVE  StackInv'
  <1>1. \A i \in 1 .. n - 1 : stack[i] # stack[n]
    BY DEF StackInv
  <1>2. ASSUME NEW x \in Frames
        PROVE  Runs(x)' <=> \E i \in DOMAIN stack' : x = stack'[i]
    <2>1. (\E i \in DOMAIN stack' : x = stack'[i]) <=> x # stack[n] /\ \E i \in 1 .. n : x = stack[i]
      BY <1>1
    <2>2. Runs(x) <=> \E i \in 1 .. n : x = stack[i]
      BY DEF StackInv
    <2> QED
      BY <2>1, <2>2
  <1>3. \A i, j \in DOMAIN stack' : stack'[i] = stack'[j] => i = j
    BY DEF StackInv
  <1>4. ASSUME NEW i \in DOMAIN stack'
        PROVE  (child[Below(i)] = Root(stack[i]))'
    <2>1. Below(i)' = Below(i)
      BY DEF Below
    <2>2. child[Below(i)] = Root(stack[i])
      BY DEF StackInv
    <2> QED
      BY <2>1, <2>2
  <1>5. \A i \in DOMAIN stack' : status'[stack'[i]] = "running"
    BY DEF StackInv
  <1> QED
    BY <1>2, <1>3, <1>4, <1>5 DEF StackInv

LEMMA ReplaceKeeps ==
    ASSUME StackInv, NEW n \in Nat \ {0}, DOMAIN stack = 1 .. n, DOMAIN stack' = 1 .. n, Len(stack) = n, Len(stack') = n,
           \A i \in 1 .. n : stack[i] \in Frames, \A i \in 1 .. n - 1 : stack'[i] = stack[i],
           NEW f \in Frames, f # stack[n], stack'[n] = f, ~Runs(f), ~raising',
           \A x \in Frames : Runs(x)' <=> (Runs(x) /\ x # stack[n]) \/ x = f,
           \A i \in 1 .. n - 1 : status'[stack[i]] = status[stack[i]],
           \A x \in Frames : Runs(x) /\ x # stack[n] => Root(x)' = Root(x) /\ child'[x] = child[x],
           Root(f)' = Root(stack[n]), child'[Consumer] = child[Consumer]
    PROVE  StackInv'
  <1>1. \A i \in 1 .. n : Runs(stack[i]) /\ stack[i] # f /\ (stack[i] = stack[n] => i = n)
    BY DEF StackInv
  <1>2. ASSUME NEW x \in Frames
        PROVE  Runs(x)' <=> \E i \in DOMAIN stack' : x = stack'[i]
    <2>1. (\E i \in DOMAIN stack' : x = stack'[i]) <=> x = f \/ (x # stack[n] /\ \E i \in 1 .. n : x = stack[i])
      BY <1>1
    <2>2. Runs(x) <=> \E i \in 1 .. n : x = stack[i]
      BY DEF StackInv
    <2> QED
      BY <2>1, <2>2
  <1>3. \A i, j \in DOMAIN stack' : stack'[i] = stack'[j] => i = j
    BY <1>1 DEF StackInv
  <1>4. ASSUME NEW i \in DOMAIN stack'
        PROVE  (child[Below(i)] = Root(stack[i]))'
    <2>1. Below(i)' = Below(i) /\ child'[Below(i)] = child[Below(i)]
      BY <1>1 DEF Below
    <2>2. child[Below(i)] = Root(stack[i])
      BY DEF StackInv
    <2>3. Root(stack[i])' = Root(stack[i])
      <3>1. CASE i = n
        BY <3>1
      <3>2. CASE i # n
        BY <1>1, <3>2
      <3> QED
        BY <3>1, <3>2
    <2> QED
      BY <2>1, <2>2, <2>3
  <1>5. \A i \in DOMAIN stack' : i # n => status'[stack'[i]] = "running"
    BY DEF StackInv
  <1> QED
    BY <1>2, <1>3, <1>4, <1>5 DEF StackInv

LEMMA StayKeeps ==
    ASSUME StackInv, NEW n \in Nat, DOMAIN stack = 1 .. n, Len(stack) = n, stack' = stack,
           \A i \in 1 .. n : stack[i] \in Frames,
           \A x \in Frames : Runs(x)' <=> Runs(x),
           \A i \in 1 .. n : Root(stack[i])' = Root(stack[i]) /\ (i # n => child'[stack[i]] = child[stack[i]]),
           n # 0 => child'[Consumer] = child[Consumer],
           \A i \in 1 .. n : i # n \/ raising' => status'[stack[i]] = "running"
    PROVE  StackInv'
  <1>1. \A x \in Frames : Runs(x)' <=> \E i \in DOMAIN stack' : x = stack'[i]
    BY DEF StackInv
  <1>2. \A i, j \in DOMAIN stack' : stack'[i] = stack'[j] => i = j
    BY DEF StackInv
  <1>3. ASSUME NEW i \in DOMAIN stack'
        PROVE  (child[Below(i)] = Root(stack[i]))'
    <2>1. Below(i)' = Below(i) /\ child'[Below(i)] = child[Below(i)]
      BY DEF Below
    <2>2. child[Below(i)] = Root(stack[i])
      BY DEF StackInv
    <2> QED
      BY <2>1, <2>2
  <1>4. \A i \in DOMAIN stack' : i # Len(stack') \/ raising' => status'[stack'[i]] = "running"
    OBVIOUS
  <1> QED
    BY <1>1, <1>2, <1>3, <1>4 DEF StackInv

-----------------------------------------------------------------------------
(* What a generator holds depends on these frames only.                    *)
LEMMA HeldStays ==
    ASSUME TypeOK, TypeOK', NEW g \in Frames, \A x \in Held(g) : child'[x] = child[x]
    PROVE  Held(g)' = Held(g)
  <1>1. /\ Held(g) \subseteq Frames /\ g \in Held(g) /\ Closed(Held(g))
        /\ \A S \in SUBSET Frames : g \in S /\ Closed(S) => Held(g) \subseteq S
    BY HeldIsLeastHere
  <1> DEFINE N == Held(g)'  D == Held(g)
  <1>2. /\ N \subseteq Frames /\ g \in N /\ (\A e \in N : child'[e] # None => child'[e] \in N)
        /\ \A S \in SUBSET Frames : g \in S /\ (\A e \in S : child'[e] # None => child'[e] \in S) => N \subseteq S
    <2>1. /\ (Held(g) \subseteq Frames /\ g \in Held(g) /\ Closed(Held(g)))'
          /\ (\A S \in SUBSET Frames : g \in S /\ Closed(S) => Held(g) \subseteq S)'
      BY HeldIsLeastHere, PTL
    <2> QED
      BY <2>1 DEF Closed
  <1> HIDE DEF N, D
  <1>3. N \subseteq D
    BY <1>1, <1>2 DEF Closed, D
  <1>4. D \subseteq N
    <2>1. Closed(N)
      BY <1>2, <1>3 DEF Closed, D
    <2> QED
      BY <1>1, <1>2, <2>1 DEF D
  <1> QED
    BY <1>3, <1>4 DEF N, D

LEMMA WaitersAreQuiet ==
    ASSUME IInv, NEW g \in Live, parent_[g] = None, Waits(g)
    PROVE  Quiet(g) /\ ~Runs(g)
  <1>1. status[g] = "delegating" => child[g] \in Frames
    BY DEF IInv, PromiseInv, IsOperator, Live
  <1> QED
    BY <1>1 DEF Waits, Quiet, Runs

(* A generator of which nothing changes goes on waiting with its value.    *)
LEMMA ValueStays ==
    ASSUME IInv, TypeOK', NEW g \in Live, parent_[g] = None, Waits(g), value_'[g] = value_[g],
           \A x \in Held(g) : child'[x] = child[x] /\ status'[x] = status[x]
    PROVE  value_'[g] \in Held(g)' /\ status'[value_'[g]] = "yielded"
  <1>1. g \in Frames
    BY DEF Live
  <1>2. Held(g)' = Held(g)
    BY <1>1, HeldStays DEF IInv
  <1>3. value_[g] \in Held(g) /\ status[value_[g]] = "yielded"
    BY DEF IInv, ValueInv
  <1> QED
    BY <1>2, <1>3

(* Steps of which only the status of some coroutines is left.              *)
LEMMA SwitchKeeps ==
    ASSUME IInv, UNCHANGED <<pointers, caught, child>>,
           \A x \in Frames : status'[x] = "none" <=> status[x] = "none",
           \A x \in Frames : status'[x] = "delegating" <=> status[x] = "delegating",
           \A x \in Frames : parent_[x] # None =>
               status'[x] \in {"advancing", "running", "yielded", "final"} /\ (status'[x] = "final" <=> status[x] = "final"),
           \A x \in Frames : parent_[x] = None =>
               status'[x] # "advancing" /\ (status'[x] \in {"initial", "final"} => child[x] = None)
    PROVE  /\ PromiseInv' /\ HolderInv' /\ Live' = Live
           /\ \A x \in Frames : Root(x)' = Root(x)
  <1>1. Live' = Live
    BY DEF Live
  <1>2. \A x \in Frames : Root(x)' = Root(x)
    BY DEF Root, Adapts, pointers
  <1>3. HolderInv'
    BY <1>1 DEF IInv, HolderInv, Closed
  <1>4. ASSUME NEW x \in Frames
        PROVE  /\ x \notin Live => IsFree(x)'
               /\ x \in Live /\ parent_[x] = None => IsOperator(x)'
               /\ parent_[x] # None => IsAdapter(x)'
    <2>1. x \notin Live => IsFree(x)'
      BY DEF IInv, PromiseInv, IsFree, pointers
    <2>2. ASSUME x \in Live, parent_[x] = None
          PROVE  IsOperator(x)'
      <3>1. IsOperator(x)
        BY <2>2 DEF IInv, PromiseInv
      <3>2. status[x] = "delegating" => (status'[child[x]] = "final" <=> status[child[x]] = "final")
        BY <3>1, NoneIsNoFrame DEF IsOperator
      <3> QED
        BY <2>2, <3>1, <3>2 DEF IsOperator, pointers
    <2>3. ASSUME parent_[x] # None
          PROVE  IsAdapter(x)'
      <3>1. IsAdapter(x)
        BY <2>3 DEF IInv, PromiseInv
      <3>2. parent_[x] \in Frames
        BY <3>1 DEF IsAdapter, Live
      <3> QED
        BY <1>1, <2>3, <3>1, <3>2 DEF IsAdapter, pointers
    <2> QED
      BY <2>1, <2>2, <2>3
  <1>5. PromiseInv'
    BY <1>1, <1>4 DEF PromiseInv, pointers
  <1> QED
    BY <1>1, <1>2, <1>3, <1>5

(* Coroutines whose status stays run as before, if their adapters do not   *)
(* end.                                                                    *)
LEMMA RunsStays ==
    ASSUME IInv, child' = child, NEW x \in Frames, status'[x] = status[x],
           status[x] = "delegating" => (status'[child[x]] = "final" <=> status[child[x]] = "final")
    PROVE  Runs(x)' <=> Runs(x)
  BY DEF Runs

(* begin and operator++ *)
LEMMA ResumeKeeps ==
    ASSUME IInv, Begin \/ Increment
    PROVE  IInv'
  <1> DEFINE g == child[Executor]  n == Len(stack)
  <1>1. /\ g \in Frames /\ g \in Live /\ ~raising /\ parent_[g] = None
        /\ Executor \in Holders
        /\ Executor \in Frames => (status[Executor] = IF parent_[Executor] = None THEN "running" ELSE status[Executor])
                                  /\ status[Executor] \in {"running", "advancing"}
    <2>1. Advances /\ g # None
      BY DEF Begin, Increment
    <2>2. Executor \in Holders /\ (Executor \in Frames => status[Executor] # "delegating")
          /\ (Executor \in Frames => status[Executor] \in {"running", "advancing"})
          /\ (Executor \in Frames /\ parent_[Executor] = None => status[Executor] = "running")
      <3>1. Executor \in Holders /\ (Executor \in Frames => Executor \in Live)
        BY ExecutorRuns
      <3>2. Executor \in Frames => status[Executor] \in {"running", "advancing"}
        BY <2>1, NoneIsNoFrame DEF Advances, InCode
      <3>3. Executor \in Frames /\ parent_[Executor] = None => status[Executor] # "advancing"
        BY <3>1 DEF IInv, PromiseInv, IsOperator
      <3> QED
        BY <3>1, <3>2, <3>3
    <2>3. g \in Frames /\ g \in Live /\ parent_[g] = None
      BY <2>1, <2>2, ChildOf
    <2> QED
      BY <2>1, <2>2, <2>3 DEF Advances
  <1> PICK e \in Holders : e = Executor
    BY <1>1
  <1>2. /\ Quiet(g)
        /\ status[g] \in {"initial", "yielded", "final"} \/ (status[g] = "delegating" /\ status[child[g]] = "yielded")
        /\ rootOrLeaf_[g] = IF status[g] = "delegating" THEN child[g] ELSE g
        /\ IsOperator(g)
    BY <1>1, ChildIsQuiet DEF IInv, PromiseInv
  <1> DEFINE f == IF status[g] = "delegating" THEN child[g] ELSE g
  <1>3. /\ f \in Frames /\ f \in Live /\ ~Runs(f) /\ Root(f) = g /\ f # e
        /\ status[f] \in {"initial", "yielded"}
        /\ status' = [x \in Frames |-> IF x = f THEN IF Adapts(f) THEN "advancing" ELSE "running"
                                       ELSE IF x = e THEN "running" ELSE status[x]]
        /\ stack' = Append(stack, f) /\ UNCHANGED <<pointers, caught, value_, child, raising>>
    <2>1. rootOrLeaf_[g] = f /\ (status[g] = "initial" => f = g)
      BY <1>2
    <2>2. Resume(f) /\ status[g] # "final"
      BY <2>1 DEF Begin, Increment
    <2>3. f \in Frames /\ (f # g => parent_[f] = g)
      BY <1>1, <1>2 DEF IsOperator
    <2>4. Root(f) = g
      BY <1>1, <2>3, NoneIsNoFrame, RootIs
    <2>5. status[f] \in {"initial", "yielded"}
      BY <1>2, <2>2
    <2>6. f # e
      BY <2>3, <2>5, <1>1
    <2> HIDE DEF f
    <2> QED
      BY <2>2, <2>3, <2>4, <2>5, <2>6 DEF Resume, Live, Runs
  <1>4. f # g => status[f] = "yielded" /\ parent_[f] = g
    BY <1>1, <1>2 DEF IsOperator
  <1> HIDE DEF f
  <1>5. \A x \in Frames : status'[x] = IF x = f THEN IF parent_[f] # None THEN "advancing" ELSE "running"
                                       ELSE IF x = e THEN "running" ELSE status[x]
    BY <1>3 DEF Adapts
  <1>6. /\ PromiseInv' /\ HolderInv' /\ Live' = Live
        /\ \A x \in Frames : Root(x)' = Root(x)
    <2>1. \A x \in Frames : parent_[x] # None => status[x] \in {"advancing", "running", "yielded", "final"}
      BY DEF IInv, PromiseInv, IsAdapter
    <2>2. \A x \in Frames : parent_[x] = None /\ x \in Live => status[x] # "advancing" /\ (status[x] \in {"initial", "final"} => child[x] = None)
      BY DEF IInv, PromiseInv, IsOperator
    <2>3. \A x \in Frames : status'[x] = "none" <=> status[x] = "none"
      BY <1>1, <1>3, <1>5 DEF Live
    <2>4. \A x \in Frames : status'[x] = "delegating" <=> status[x] = "delegating"
      BY <1>1, <1>3, <1>5
    <2>5. \A x \in Frames : parent_[x] # None =>
               status'[x] \in {"advancing", "running", "yielded", "final"} /\ (status'[x] = "final" <=> status[x] = "final")
      BY <1>1, <1>3, <1>5, <2>1
    <2>6. \A x \in Frames : parent_[x] = None =>
               status'[x] # "advancing" /\ (status'[x] \in {"initial", "final"} => child[x] = None)
      BY <1>1, <1>3, <1>5, <2>2 DEF Live
    <2> QED
      BY <1>3, <2>3, <2>4, <2>5, <2>6, SwitchKeeps
  <1>7. /\ stack' \in Seq(Frames) /\ DOMAIN stack' = 1 .. n + 1 /\ \A i \in 1 .. n : stack'[i] = stack[i]
        /\ stack'[n + 1] = f /\ Len(stack') = n + 1
    <2>1. /\ stack' \in Seq(Frames) /\ DOMAIN stack' = 1 .. n + 1 /\ \A i \in 1 .. n : stack'[i] = stack[i]
          /\ stack'[n + 1] = f
      BY <1>3, Pushes, StackIsAFunction DEF IInv, TypeOK
    <2> QED
      BY <2>1, <1>3, AppendProperties DEF IInv, TypeOK
  <1>8. TypeOK'
    <2>1. status' \in [Frames -> Statuses]
      BY <1>3 DEF IInv, TypeOK, Statuses
    <2> QED
      BY <1>3, <1>7, <2>1 DEF IInv, TypeOK, pointers
  <1>9. \A x \in Frames : Runs(x)' <=> Runs(x) \/ x = f
    <2> SUFFICES ASSUME NEW x \in Frames PROVE Runs(x)' <=> Runs(x) \/ x = f
      OBVIOUS
    <2>1. CASE x = f
      BY <1>5, <2>1 DEF Runs
    <2>2. CASE x # f /\ x = e
      BY <1>1, <1>5, <2>2 DEF Runs
    <2>3. CASE x # f /\ x # e
      <3>1. status'[x] = status[x]
        BY <1>5, <2>3
      <3>2. status[x] = "delegating" => (status'[child[x]] = "final" <=> status[child[x]] = "final")
        <4>1. status[x] = "delegating" => child[x] \in Frames
          BY DEF IInv, PromiseInv, IsOperator, IsAdapter, Live
        <4> QED
          BY <4>1, <1>1, <1>3, <1>5
      <3>3. Runs(x)' <=> Runs(x)
        BY <1>3, <3>1, <3>2, RunsStays
      <3> QED
        BY <2>3, <3>3
    <2> QED
      BY <2>1, <2>2, <2>3
  <1>10. StackInv'
    <2>1. n \in Nat /\ DOMAIN stack = 1 .. n /\ (\A i \in 1 .. n : stack[i] \in Frames) /\ e = (IF n = 0 THEN Consumer ELSE stack[n])
      BY StackIsAFunction DEF IInv
    <2>2. StackInv /\ child' = child /\ raising' = raising
      BY <1>3 DEF IInv
    <2>3. \A i \in 1 .. n : status'[stack[i]] = "running"
      <3> SUFFICES ASSUME NEW i \in 1 .. n PROVE status'[stack[i]] = "running"
        OBVIOUS
      <3>1. Runs(stack[i]) /\ stack[i] # f
        BY <1>3, <2>1 DEF IInv, StackInv
      <3>2. CASE i = n
        BY <1>5, <2>1, <3>1, <3>2
      <3>3. CASE i # n
        <4>1. status[stack[i]] = "running"
          BY <2>1, <3>3 DEF IInv, StackInv
        <4> QED
          BY <1>5, <2>1, <3>1, <4>1
      <3> QED
        BY <3>2, <3>3
    <2>4. child[IF n = 0 THEN Consumer ELSE stack[n]] = Root(f)
      BY <1>3, <2>1
    <2>5. /\ Len(stack') = n + 1 /\ DOMAIN stack' = 1 .. n + 1 /\ stack'[n + 1] = f
          /\ \A i \in 1 .. n : stack'[i] = stack[i] /\ stack[i] \in Frames
      BY <1>7, <2>1
    <2>6. f \in Frames /\ ~Runs(f) /\ ~raising'
      BY <1>1, <1>3
    <2>7. (\A x \in Frames : Runs(x)' <=> Runs(x) \/ x = f) /\ (\A x \in Frames : Root(x)' = Root(x))
      BY <1>6, <1>9
    <2> HIDE DEF n, g
    <2> QED
      BY <2>1, <2>2, <2>3, <2>4, <2>5, <2>6, <2>7, PushKeeps
  <1>11. ValueInv'
    <2> SUFFICES ASSUME NEW w \in Live, parent_[w] = None, Waits(w)'
                 PROVE  value_'[w] \in Held(w)' /\ status'[value_'[w]] = "yielded"
      BY <1>3, <1>6 DEF ValueInv, pointers
    <2>0. w \in Frames /\ IsOperator(w)
      BY DEF Live, IInv, PromiseInv
    <2>1. w # g
      <3> SUFFICES ASSUME w = g PROVE FALSE
        OBVIOUS
      <3>1. CASE f = g
        BY <1>5, <2>0, <3>1 DEF Waits
      <3>2. CASE f # g
        <4>1. status[g] = "delegating" /\ f = child[g]
          BY <3>2 DEF f
        <4>2. status'[g] \in {"delegating", "running"}
          BY <1>1, <1>5, <3>2, <4>1
        <4>3. status'[f] \in {"advancing", "running"} /\ child'[g] = f
          BY <1>3, <1>5, <4>1
        <4> QED
          BY <4>2, <4>3 DEF Waits
      <3> QED
        BY <3>1, <3>2
    <2>2. Waits(w)
      <3>1. CASE status'[w] = "yielded"
        BY <1>5, <2>0, <3>1 DEF Waits
      <3>2. CASE status'[w] = "delegating" /\ status'[child[w]] = "yielded"
        <4>1. status[w] = "delegating"
          BY <1>5, <2>0, <3>2
        <4>2. child[w] \in Frames
          BY <2>0, <4>1 DEF IsOperator
        <4> QED
          BY <1>5, <3>2, <4>1, <4>2 DEF Waits
      <3> QED
        BY <1>3, <3>1, <3>2 DEF Waits
    <2>3. /\ Held(w) \subseteq Live /\ (\A x \in Held(w) : x # e)
          /\ \A h \in Holders : child[h] \in Held(w) => h \in Held(w) \/ child[h] = w
      BY <2>2, WaitersAreQuiet, HeldIsQuiet
    <2>4. g \notin Held(w)
      BY <2>1, <2>3
    <2>5. f \notin Held(w)
      <3> SUFFICES ASSUME f # g, f \in Held(w) PROVE FALSE
        BY <2>4
      <3>1. f = child[g] /\ parent_[f] = g /\ g \in Holders
        BY <1>1, <1>4 DEF f, Holders
      <3>2. f = w
        BY <2>3, <2>4, <3>1
      <3> QED
        BY <1>1, <3>1, <3>2, NoneIsNoFrame
    <2>6. \A x \in Held(w) : child'[x] = child[x] /\ status'[x] = status[x]
      <3>1. \A x \in Held(w) : x \in Frames /\ x # f /\ x # e
        BY <2>3, <2>5 DEF Live
      <3> QED
        BY <1>3, <1>5, <3>1
    <2> QED
      BY <1>3, <1>8, <2>2, <2>6, ValueStays
  <1> QED
    BY <1>6, <1>8, <1>10, <1>11 DEF IInv

(* What a coroutine reads in a loop, at a value of it.                     *)
LEMMA ReadIsWaiting ==
    ASSUME IInv, NEW f \in Frames, f = Executor, status[f] = "running", AtAValue(child[f])
    PROVE  LET c == child[f]
           IN  /\ c \in Live /\ parent_[c] = None /\ Waits(c) /\ Quiet(c)
               /\ value_[c] \in Held(c) /\ status[value_[c]] = "yielded" /\ value_[c] \in Frames /\ value_[c] # f
  <1> PICK c \in Frames : c = child[f]
    BY DEF IInv, TypeOK, Holders, AtAValue
  <1>1. c \in Live /\ parent_[c] = None
    BY ChildOf, NoneIsNoFrame DEF Holders
  <1>2. Waits(c) /\ Quiet(c)
    BY <1>1, ChildIsQuiet DEF AtAValue, Waits
  <1>3. value_[c] \in Held(c) /\ status[value_[c]] = "yielded"
    BY <1>1, <1>2 DEF IInv, ValueInv
  <1>4. Held(c) \subseteq Live /\ \A x \in Held(c) : x # f
    BY <1>1, <1>2, HeldIsQuiet
  <1> QED
    BY <1>1, <1>2, <1>3, <1>4 DEF Live

(* yield_value, and the end of an operator *)
LEMMA SuspendKeeps ==
    ASSUME IInv, NEW f \in Frames, f = Executor, status[f] = "running",
           NEW s \in {"yielded", "final"}, s = "final" => parent_[f] = None /\ child[f] = None,
           status' = [status EXCEPT ![f] = s], stack' = Pop(stack), UNCHANGED <<pointers, caught, child, raising>>,
           NEW o, (o = f /\ parent_[f] = None) \/ (AtAValue(child[f]) /\ o = value_[child[f]]) \/ s = "final",
           value_' = IF s = "yielded" THEN [value_ EXCEPT ![Root(f)] = o] ELSE value_
    PROVE  IInv'
  <1> DEFINE n == Len(stack)
  <1> PICK r \in Frames : r = Root(f) /\ r = IF parent_[f] = None THEN f ELSE parent_[f]
    BY RootIs, NoneIsNoFrame DEF IInv, PromiseInv, IsAdapter, Live
  <1>1. /\ stack # <<>> /\ n \in 1 .. n /\ stack[n] = f /\ f \in Live /\ Runs(f)
        /\ r \in Live /\ parent_[r] = None /\ (f # r => status[r] = "delegating" /\ child[r] = f)
    <2>1. parent_[f] # None => status[r] = "delegating" /\ child[r] = f /\ r \in Live /\ parent_[r] = None
      BY NoneIsNoFrame DEF IInv, PromiseInv, IsAdapter
    <2>2. stack # <<>> /\ n \in 1 .. n /\ stack[n] = f /\ f \in Live /\ Runs(f)
      BY ExecutorRuns
    <2> QED
      BY <2>1, <2>2
  <1>2. \A x \in Frames : status'[x] = IF x = f THEN s ELSE status[x]
    BY DEF IInv, TypeOK
  <1>3. /\ PromiseInv' /\ HolderInv' /\ Live' = Live
        /\ \A x \in Frames : Root(x)' = Root(x)
    <2>1. \A x \in Frames : parent_[x] # None => status[x] \in {"advancing", "running", "yielded", "final"}
      BY DEF IInv, PromiseInv, IsAdapter
    <2>2. \A x \in Frames : parent_[x] = None /\ x \in Live => status[x] # "advancing" /\ (status[x] \in {"initial", "final"} => child[x] = None)
      BY DEF IInv, PromiseInv, IsOperator
    <2>3. \A x \in Frames : status'[x] = "none" <=> status[x] = "none"
      BY <1>2
    <2>4. \A x \in Frames : status'[x] = "delegating" <=> status[x] = "delegating"
      BY <1>2
    <2>5. \A x \in Frames : parent_[x] # None =>
               status'[x] \in {"advancing", "running", "yielded", "final"} /\ (status'[x] = "final" <=> status[x] = "final")
      BY <1>2, <2>1
    <2>6. \A x \in Frames : parent_[x] = None =>
               status'[x] # "advancing" /\ (status'[x] \in {"initial", "final"} => child[x] = None)
      BY <1>2, <2>2 DEF Live
    <2> QED
      BY <2>3, <2>4, <2>5, <2>6, SwitchKeeps
  <1>4. /\ stack' \in Seq(Frames) /\ DOMAIN stack' = 1 .. n - 1 /\ \A i \in 1 .. n - 1 : stack'[i] = stack[i]
    BY <1>1, Pops DEF IInv, TypeOK
  <1>5. s = "yielded" => o \in Frames
    BY ReadIsWaiting
  <1>6. TypeOK'
    <2>1. value_' \in [Frames -> Frames \cup {None}]
      BY <1>5 DEF IInv, TypeOK
    <2>2. status' \in [Frames -> Statuses]
      BY DEF IInv, TypeOK, Statuses
    <2> QED
      BY <1>4, <2>1, <2>2 DEF IInv, TypeOK, pointers
  <1>7. \A x \in Frames : Runs(x)' <=> Runs(x) /\ x # f
    <2> SUFFICES ASSUME NEW x \in Frames PROVE Runs(x)' <=> Runs(x) /\ x # f
      OBVIOUS
    <2>1. CASE x = f
      BY <1>2, <2>1 DEF Runs
    <2>2. CASE x # f
      <3>1. status'[x] = status[x]
        BY <1>2, <2>2
      <3>2. status[x] = "delegating" => (status'[child[x]] = "final" <=> status[child[x]] = "final")
        <4>1. status[x] = "delegating" => child[x] \in Frames /\ parent_[child[x]] = x
          BY DEF IInv, PromiseInv, IsOperator, IsAdapter, Live
        <4> QED
          BY <4>1, <1>2, NoneIsNoFrame
      <3>3. Runs(x)' <=> Runs(x)
        BY <3>1, <3>2, RunsStays
      <3> QED
        BY <2>2, <3>3
    <2> QED
      BY <2>1, <2>2
  <1>8. StackInv'
    <2>1. n \in Nat \ {0} /\ DOMAIN stack = 1 .. n /\ \A i \in 1 .. n : stack[i] \in Frames
      BY <1>1, StackIsAFunction DEF IInv
    <2>2. StackInv /\ child' = child
      BY DEF IInv
    <2>3. \A i \in 1 .. n - 1 : status'[stack[i]] = status[stack[i]]
      BY <1>1, <1>2, <2>1 DEF IInv, StackInv
    <2>4. \A i \in 1 .. n - 1 : stack'[i] = stack[i] /\ stack[i] \in Frames
      BY <1>4, <2>1
    <2>5. Len(stack) = n /\ stack[n] = f
      BY <1>1
    <2> HIDE DEF n
    <2> QED
      BY <1>3, <1>4, <1>7, <2>1, <2>2, <2>3, <2>4, <2>5, PopKeeps
  <1>9. ValueInv'
    <2> SUFFICES ASSUME NEW w \in Live, parent_[w] = None, Waits(w)'
                 PROVE  value_'[w] \in Held(w)' /\ status'[value_'[w]] = "yielded"
      BY <1>3 DEF ValueInv, pointers
    <2>0. w \in Frames /\ IsOperator(w)
      BY DEF Live, IInv, PromiseInv
    <2>1. CASE w = r
      <3>1. s = "yielded"
        BY <1>1, <1>2, <2>0, <2>1 DEF Waits
      <3>2. value_'[w] = o
        BY <2>1, <3>1 DEF IInv, TypeOK
      <3>3. /\ Held(r) \subseteq Frames /\ r \in Held(r) /\ Closed(Held(r)) /\ Held(r)' = Held(r)
        BY <1>6, HeldIsLeastHere, HeldStays DEF IInv
      <3>4. CASE o = f /\ parent_[f] = None
        BY <1>2, <2>1, <3>1, <3>2, <3>3, <3>4
      <3>5. CASE AtAValue(child[f]) /\ o = value_[child[f]]
        <4> PICK c \in Frames : c = child[f]
          BY <3>5 DEF IInv, TypeOK, Holders, AtAValue
        <4>1. o \in Held(c) /\ status[o] = "yielded" /\ o \in Frames /\ o # f
          BY <3>5, ReadIsWaiting
        <4>2. f \in Held(r)
          BY <1>1, <3>3, NoneIsNoFrame DEF Closed
        <4>3. c \in Held(r)
          BY <3>3, <4>2, NoneIsNoFrame DEF Closed
        <4>4. Held(c) \subseteq Held(r)
          BY <3>3, <4>3, HeldIsLeastHere DEF IInv
        <4> QED
          BY <1>2, <2>1, <3>2, <3>3, <4>1, <4>4
      <3> QED
        BY <3>1, <3>4, <3>5
    <2>2. CASE w # r
      <3>1. f # w /\ (status[w] = "delegating" => f # child[w])
        <4>1. f # w
          BY <2>2
        <4>2. ASSUME status[w] = "delegating", f = child[w]
              PROVE  FALSE
          <5>1. parent_[f] = w
            BY <2>0, <4>2 DEF IsOperator
          <5> QED
            BY <2>0, <2>2, <5>1, NoneIsNoFrame
        <4> QED
          BY <4>1, <4>2
      <3>2. Waits(w)
        BY <1>2, <2>0, <3>1 DEF Waits, IsOperator
      <3>3. \A x \in Held(w) : x \in Live /\ x # f
        BY <3>2, WaitersAreQuiet, HeldIsQuiet
      <3>4. \A x \in Held(w) : child'[x] = child[x] /\ status'[x] = status[x]
        BY <1>2, <3>3 DEF Live
      <3>5. value_'[w] = value_[w]
        BY <2>0, <2>2 DEF IInv, TypeOK
      <3> QED
        BY <1>6, <3>2, <3>4, <3>5, ValueStays
    <2> QED
      BY <2>1, <2>2
  <1> QED
    BY <1>3, <1>6, <1>8, <1>9 DEF IInv

(* An exception is thrown, or over.                                        *)
LEMMA FlightKeeps ==
    ASSUME IInv, UNCHANGED <<status, pointers, caught, value_, child, stack>>, raising' \in BOOLEAN,
           raising' => raising \/ (stack # <<>> => status[Executor] = "running")
    PROVE  IInv'
  <1> DEFINE n == Len(stack)
  <1>1. TypeOK'
    BY DEF IInv, TypeOK, pointers
  <1>2. /\ PromiseInv' /\ HolderInv' /\ Live' = Live
        /\ \A x \in Frames : Root(x)' = Root(x)
    <2>1. \A x \in Frames : parent_[x] # None => status[x] \in {"advancing", "running", "yielded", "final"}
      BY DEF IInv, PromiseInv, IsAdapter
    <2>2. \A x \in Frames : parent_[x] = None => status[x] # "advancing" /\ (status[x] \in {"initial", "final"} => child[x] = None)
      BY DEF IInv, PromiseInv, IsOperator, Live
    <2> QED
      BY <2>1, <2>2, SwitchKeeps
  <1>3. StackInv'
    <2>1. /\ n \in Nat /\ DOMAIN stack = 1 .. n /\ Len(stack) = n /\ (\A i \in 1 .. n : stack[i] \in Frames)
          /\ Executor = (IF n = 0 THEN Consumer ELSE stack[n]) /\ (stack = <<>> <=> n = 0)
      BY StackIsAFunction DEF IInv
    <2>2. \A x \in Frames : Runs(x)' <=> Runs(x)
      BY DEF Runs
    <2>3. ASSUME NEW i \in 1 .. n, i # n \/ raising'
          PROVE  status'[stack[i]] = "running"
      <3>1. CASE i # n \/ raising
        BY <2>1, <3>1 DEF IInv, StackInv
      <3>2. CASE i = n /\ ~raising
        <4>1. Executor = stack[n] /\ stack # <<>>
          BY <2>1, <3>2
        <4> QED
          BY <2>3, <3>2, <4>1
      <3> QED
        BY <3>1, <3>2
    <2>4. StackInv /\ stack' = stack /\ child' = child
      BY DEF IInv
    <2>5. \A i \in 1 .. n : Root(stack[i])' = Root(stack[i])
      BY <1>2, <2>1
    <2> HIDE DEF n
    <2> QED
      BY <2>1, <2>2, <2>3, <2>4, <2>5, StayKeeps
  <1>4. ValueInv'
    <2> SUFFICES ASSUME NEW w \in Live, parent_[w] = None, Waits(w)'
                 PROVE  value_'[w] \in Held(w)' /\ status'[value_'[w]] = "yielded"
      BY <1>2 DEF ValueInv, pointers
    <2>1. Waits(w)
      BY DEF Waits
    <2> QED
      BY <1>1, <2>1, ValueStays
  <1> QED
    BY <1>1, <1>2, <1>3, <1>4 DEF IInv

(* A call allocates a frame. *)
LEMMA CreateKeeps ==
    ASSUME IInv, NEW f \in Frames, Create(f)
    PROVE  IInv'
  <1> DEFINE n == Len(stack)
  <1> PICK e \in Holders : e = Executor
    BY ExecutorRuns
  <1>1. /\ f \notin Live /\ child[e] = None /\ e # f /\ ~raising /\ IsFree(f)
        /\ e \in Frames => e \in Live /\ status[e] = "running" /\ parent_[e] = None
    BY ExecutorRuns, NoneIsNoFrame DEF Create, InCode, Adapts, Live, IInv, PromiseInv
  <1>2. /\ \A x \in Frames : status'[x] = IF x = f THEN "initial" ELSE status[x]
        /\ \A x \in Frames : rootOrLeaf_'[x] = IF x = f THEN f ELSE rootOrLeaf_[x]
        /\ \A x \in Frames : parent_'[x] = IF x = f THEN None ELSE parent_[x]
        /\ \A x \in Frames : exception_'[x] = IF x = f THEN None ELSE exception_[x]
        /\ \A x \in Frames : value_'[x] = IF x = f THEN None ELSE value_[x]
        /\ \A h \in Holders : child'[h] = IF h = e THEN f ELSE child[h]
        /\ caught' = caught /\ stack' = stack /\ raising' = raising
    BY DEF Create, IInv, TypeOK
  <1>3. Live' = Live \cup {f} /\ Live \subseteq Frames
    BY <1>2 DEF Live
  <1>4. /\ \A x \in Frames : parent_'[x] = parent_[x]
        /\ \A x \in Frames : Root(x)' = Root(x)
    <2>1. \A x \in Frames : parent_'[x] = parent_[x]
      BY <1>1, <1>2 DEF IsFree
    <2> QED
      BY <2>1 DEF Root, Adapts
  <1>5. TypeOK'
    BY <1>1 DEF Create, IInv, TypeOK, Statuses
  <1>6. ASSUME NEW x \in Frames, status[x] = "delegating"
        PROVE  child[x] \in Frames /\ child'[x] = child[x] /\ status'[child[x]] = status[child[x]] /\ parent_[child[x]] = x
    <2>1. child[x] \in Frames /\ parent_[child[x]] = x
      BY <1>6 DEF IInv, PromiseInv, IsOperator, IsAdapter, Live
    <2>2. child[x] # f /\ x # e
      BY <1>1, <1>6, <2>1, NoneIsNoFrame DEF IsFree
    <2> QED
      BY <1>2, <2>1, <2>2 DEF Holders
  <1>7. PromiseInv'
    <2>1. IsOperator(f)'
      BY <1>1, <1>2 DEF IsOperator, IsFree, Holders
    <2>2. ASSUME NEW x \in Frames \ {f}, x \notin Live
          PROVE  IsFree(x)'
      BY <1>1, <1>2, <2>2 DEF IsFree, IInv, PromiseInv, Holders
    <2>3. ASSUME NEW x \in Frames \ {f}, x \in Live, parent_[x] = None
          PROVE  IsOperator(x)'
      <3>1. IsOperator(x) /\ status'[x] = status[x] /\ rootOrLeaf_'[x] = rootOrLeaf_[x] /\ exception_'[x] = exception_[x]
        BY <1>2, <2>3 DEF IInv, PromiseInv
      <3>2. status[x] \in {"initial", "final"} => child'[x] = None
        BY <1>1, <1>2, <3>1 DEF IsOperator, Holders
      <3> QED
        BY <1>2, <1>4, <1>6, <3>1, <3>2 DEF IsOperator
    <2>4. ASSUME NEW x \in Frames \ {f}, parent_[x] # None
          PROVE  IsAdapter(x)'
      <3>1. IsAdapter(x) /\ status'[x] = status[x] /\ rootOrLeaf_'[x] = rootOrLeaf_[x] /\ exception_'[x] = exception_[x]
            /\ parent_'[x] = parent_[x]
        BY <1>2, <2>4 DEF IInv, PromiseInv
      <3> PICK p \in Frames : p = parent_[x]
        BY <3>1 DEF IsAdapter, Live
      <3>2. p # e /\ p # f /\ x # e
        BY <1>1, <2>4, <3>1 DEF IsAdapter
      <3>3. child'[p] = child[p] /\ child'[x] = child[x] /\ status'[p] = status[p] /\ parent_'[p] = parent_[p]
        BY <1>2, <3>2 DEF Holders
      <3> QED
        BY <1>2, <1>3, <1>4, <3>1, <3>3 DEF IsAdapter
    <2> QED
      BY <1>1, <1>3, <1>4, <2>1, <2>2, <2>3, <2>4 DEF PromiseInv, IsFree
  <1>8. HolderInv'
    <2>1. \A h \in Holders : child'[h] # None => child'[h] \in Live'
      BY <1>2, <1>3 DEF IInv, HolderInv
    <2>2. \A h \in Holders : child[h] # f
      BY <1>1, NoneIsNoFrame DEF IInv, HolderInv
    <2>3. \A h, k \in Holders : child'[h] = child'[k] /\ child'[h] # None => h = k
      BY <1>2, <2>2 DEF IInv, HolderInv
    <2>4. ASSUME NEW S \in SUBSET Frames, Closed(S)', child'[Consumer] # None => child'[Consumer] \in S
          PROVE  Live' \subseteq S
      <3>1. Closed(S)
        BY <1>1, <1>2, <2>4 DEF Closed, Holders
      <3>2. child[Consumer] # None => child[Consumer] \in S
        BY <1>1, <1>2, <2>4 DEF Holders
      <3>3. Live \subseteq S
        BY <3>1, <3>2 DEF IInv, HolderInv
      <3>4. e = Consumer \/ e \in S
        BY <1>1, <3>3 DEF Holders
      <3>5. f \in S
        BY <1>2, <2>4, <3>4, NoneIsNoFrame DEF Closed
      <3> QED
        BY <1>3, <3>3, <3>5
    <2> QED
      BY <2>1, <2>3, <2>4 DEF HolderInv
  <1>9. StackInv'
    <2>1. /\ n \in Nat /\ DOMAIN stack = 1 .. n /\ Len(stack) = n /\ (\A i \in 1 .. n : stack[i] \in Frames)
          /\ e = (IF n = 0 THEN Consumer ELSE stack[n])
      BY StackIsAFunction DEF IInv
    <2> HIDE DEF n
    <2>2. \A x \in Frames : Runs(x)' <=> Runs(x)
      <3> SUFFICES ASSUME NEW x \in Frames PROVE Runs(x)' <=> Runs(x)
        OBVIOUS
      <3>1. CASE x = f
        BY <1>1, <1>2, <3>1 DEF Runs, Live
      <3>2. CASE x # f
        BY <1>2, <1>6, <3>2 DEF Runs
      <3> QED
        BY <3>1, <3>2
    <2>3. ASSUME NEW i \in 1 .. n
          PROVE  /\ Root(stack[i])' = Root(stack[i]) /\ (i # n => child'[stack[i]] = child[stack[i]])
                 /\ (i # n \/ raising' => status'[stack[i]] = "running")
      <3>1. stack[i] \in Frames /\ Runs(stack[i])
        BY <2>1 DEF IInv, StackInv
      <3>2. stack[i] # f
        BY <1>1, <3>1 DEF Runs, Live
      <3>3. i # n => stack[i] # e
        BY <2>1 DEF IInv, StackInv
      <3>4. i # n => status[stack[i]] = "running"
        BY <2>1 DEF IInv, StackInv
      <3> QED
        BY <1>1, <1>2, <1>4, <3>1, <3>2, <3>3, <3>4 DEF Holders
    <2>4. n # 0 => child'[Consumer] = child[Consumer]
      BY <1>2, <2>1, NoneIsNoFrame DEF Holders
    <2> QED
      BY <1>2, <2>1, <2>2, <2>3, <2>4, StayKeeps DEF IInv
  <1>10. ValueInv'
    <2> SUFFICES ASSUME NEW w \in Live', parent_'[w] = None, Waits(w)'
                 PROVE  value_'[w] \in Held(w)' /\ status'[value_'[w]] = "yielded"
      BY DEF ValueInv
    <2>1. w \in Live /\ parent_[w] = None /\ w # f /\ w \in Frames
      <3>1. w # f
        BY <1>2 DEF Waits
      <3> QED
        BY <1>3, <1>4, <3>1
    <2>2. Waits(w)
      BY <1>2, <1>6, <2>1 DEF Waits
    <2>3. \A x \in Held(w) : x \in Frames /\ x # f /\ x # e
      BY <1>1, <2>1, <2>2, WaitersAreQuiet, HeldIsQuiet DEF Live
    <2>4. \A x \in Held(w) : child'[x] = child[x] /\ status'[x] = status[x]
      BY <1>2, <2>3 DEF Holders
    <2>5. value_'[w] = value_[w]
      BY <1>2, <2>1
    <2> QED
      BY <1>5, <2>1, <2>2, <2>4, <2>5, ValueStays
  <1> QED
    BY <1>5, <1>7, <1>8, <1>9, <1>10 DEF IInv

(* elements_of: the adapter runs in the place of the coroutine.            *)
LEMMA DelegateKeeps ==
    ASSUME IInv, NEW f \in Frames, NEW a \in Frames, Delegate(f, a)
    PROVE  IInv'
  <1> DEFINE n == Len(stack)
  <1> PICK g \in Frames : g = child[f] /\ status[g] = "initial"
    BY DEF Delegate, IInv, TypeOK, Holders
  <1>1. /\ f = Executor /\ stack # <<>> /\ n \in 1 .. n /\ stack[n] = f /\ f \in Live /\ status[f] = "running" /\ Runs(f)
        /\ parent_[f] = None /\ IsOperator(f) /\ rootOrLeaf_[f] = f /\ ~raising
        /\ a \notin Live /\ a # f /\ IsFree(a)
        /\ g \in Live /\ parent_[g] = None /\ g # a
    <2>1. f = Executor /\ status[f] = "running" /\ ~raising /\ parent_[f] = None /\ a \notin Live
      BY DEF Delegate, Executes, Adapts, Live
    <2>2. stack # <<>> /\ n \in 1 .. n /\ stack[n] = f /\ f \in Live /\ Runs(f)
      BY <2>1, ExecutorRuns
    <2>3. IsOperator(f) /\ rootOrLeaf_[f] = f /\ IsFree(a)
      BY <2>1, <2>2 DEF IInv, PromiseInv, IsOperator
    <2>4. g \in Live /\ parent_[g] = None
      BY <2>1, ChildOf, NoneIsNoFrame DEF Holders
    <2> QED
      BY <2>1, <2>2, <2>3, <2>4
  <1>2. /\ \A x \in Frames : status'[x] = IF x = f THEN "delegating" ELSE IF x = a THEN "advancing" ELSE status[x]
        /\ \A x \in Frames : rootOrLeaf_'[x] = IF x = f THEN a ELSE IF x = a THEN f ELSE rootOrLeaf_[x]
        /\ \A x \in Frames : parent_'[x] = IF x = a THEN f ELSE parent_[x]
        /\ \A x \in Frames : exception_'[x] = IF x = a THEN f ELSE exception_[x]
        /\ \A x \in Frames : value_'[x] = IF x = a THEN None ELSE value_[x]
        /\ \A h \in Holders : child'[h] = IF h = f THEN a ELSE IF h = a THEN g ELSE child[h]
        /\ caught' = caught /\ raising' = raising
    BY <1>1 DEF Delegate, IInv, TypeOK, Holders
  <1>3. Live' = Live \cup {a} /\ Live \subseteq Frames
    BY <1>1, <1>2 DEF Live
  <1>4. Root(a)' = f /\ Root(f) = f /\ \A x \in Frames \ {a} : parent_'[x] = parent_[x] /\ Root(x)' = Root(x)
    BY <1>1, <1>2, NoneIsNoFrame DEF Root, Adapts
  <1>5. /\ stack' \in Seq(Frames) /\ DOMAIN stack' = 1 .. n /\ (\A i \in 1 .. n - 1 : stack'[i] = stack[i])
        /\ stack'[n] = a /\ n \in Nat \ {0} /\ Len(stack') = n
    <2>1. n \in Nat \ {0} /\ stack \in Seq(Frames) /\ stack' = Append(Pop(stack), a)
      BY <1>1, StackIsAFunction DEF Delegate, IInv, TypeOK
    <2>2. Pop(stack) \in Seq(Frames) /\ Len(Pop(stack)) = n - 1 /\ DOMAIN Pop(stack) = 1 .. n - 1
          /\ \A i \in 1 .. n - 1 : Pop(stack)[i] = stack[i]
      BY <1>1, <2>1, Pops
    <2> HIDE DEF n
    <2>3. stack' \in Seq(Frames) /\ DOMAIN stack' = 1 .. n /\ stack'[n] = a /\ (\A i \in 1 .. n - 1 : stack'[i] = stack[i])
      BY <2>1, <2>2, Pushes
    <2>4. Len(stack') = n
      BY <2>1, <2>2, <2>3, LenProperties
    <2> QED
      BY <2>1, <2>3, <2>4
  <1>6. TypeOK'
    <2>1. rootOrLeaf_' \in [Frames -> Frames \cup {None}]
      BY <1>1 DEF Delegate, IInv, TypeOK
    <2>2. status' \in [Frames -> Statuses] /\ parent_' \in [Frames -> Frames \cup {None}]
      BY DEF Delegate, IInv, TypeOK, Statuses
    <2>3. exception_' \in [Frames -> Frames \cup {None}]
      BY DEF Delegate, IInv, TypeOK
    <2>4. value_' \in [Frames -> Frames \cup {None}] /\ child' \in [Holders -> Frames \cup {None}]
      BY DEF Delegate, IInv, TypeOK, Holders
    <2> QED
      BY <1>2, <1>5, <2>1, <2>2, <2>3, <2>4 DEF IInv, TypeOK
  <1>7. ASSUME NEW x \in Frames, status[x] = "delegating"
        PROVE  child[x] \in Frames /\ child'[x] = child[x] /\ status'[child[x]] = status[child[x]]
               /\ parent_[child[x]] = x /\ child[x] # a /\ x # f
    <2>1. child[x] \in Frames /\ parent_[child[x]] = x /\ x # f /\ x # a
      BY <1>1, <1>7 DEF IInv, PromiseInv, IsOperator, IsAdapter, Live
    <2>2. child[x] # f /\ child[x] # a
      BY <1>1, <2>1, NoneIsNoFrame DEF IsFree
    <2> QED
      BY <1>2, <2>1, <2>2 DEF Holders
  <1>8. PromiseInv'
    <2>1. IsAdapter(a)'
      BY <1>1, <1>2, <1>3 DEF IsAdapter, IsFree, Holders
    <2>2. IsOperator(f)'
      BY <1>1, <1>2 DEF IsOperator, Holders
    <2>3. ASSUME NEW x \in Frames \ {a, f}, x \notin Live
          PROVE  IsFree(x)'
      BY <1>2, <2>3 DEF IsFree, IInv, PromiseInv, Holders
    <2>4. ASSUME NEW x \in Frames \ {a, f}, x \in Live, parent_[x] = None
          PROVE  IsOperator(x)'
      <3>1. IsOperator(x) /\ status'[x] = status[x] /\ rootOrLeaf_'[x] = rootOrLeaf_[x] /\ exception_'[x] = exception_[x]
        BY <1>2, <2>4 DEF IInv, PromiseInv
      <3>2. child'[x] = child[x]
        BY <1>2, <2>4 DEF Holders
      <3> QED
        BY <1>2, <1>4, <1>7, <3>1, <3>2 DEF IsOperator
    <2>5. ASSUME NEW x \in Frames \ {a, f}, parent_[x] # None
          PROVE  IsAdapter(x)'
      <3>1. IsAdapter(x) /\ status'[x] = status[x] /\ rootOrLeaf_'[x] = rootOrLeaf_[x] /\ exception_'[x] = exception_[x]
            /\ parent_'[x] = parent_[x]
        BY <1>2, <2>5 DEF IInv, PromiseInv
      <3> PICK p \in Frames : p = parent_[x]
        BY <3>1 DEF IsAdapter, Live
      <3>2. p # a /\ p # f
        BY <1>1, <3>1 DEF IsAdapter, Live
      <3>3. child'[p] = child[p] /\ child'[x] = child[x] /\ status'[p] = status[p] /\ parent_'[p] = parent_[p]
        BY <1>2, <3>2 DEF Holders
      <3>4. child[x] \in Live
        BY <3>1, NoneIsNoFrame DEF IsAdapter, IInv, HolderInv, Holders
      <3>5. parent_'[child[x]] = None
        BY <1>1, <1>3, <1>4, <3>1, <3>4 DEF IsAdapter
      <3> QED
        BY <1>2, <1>3, <3>1, <3>3, <3>5 DEF IsAdapter
    <2> QED
      BY <1>1, <1>2, <1>3, <2>1, <2>2, <2>3, <2>4, <2>5, NoneIsNoFrame DEF PromiseInv
  <1>9. HolderInv'
    <2>1. \A h \in Holders : child'[h] # None => child'[h] \in Live'
      BY <1>1, <1>2, <1>3 DEF IInv, HolderInv
    <2>2. (\A h \in Holders : child[h] # a) /\ (\A h \in Holders : child[h] = g => h = f)
      BY <1>1, NoneIsNoFrame DEF IInv, HolderInv, Holders
    <2>3. \A h, k \in Holders : child'[h] = child'[k] /\ child'[h] # None => h = k
      BY <1>1, <1>2, <2>2 DEF IInv, HolderInv
    <2>4. ASSUME NEW S \in SUBSET Frames, Closed(S)', child'[Consumer] # None => child'[Consumer] \in S
          PROVE  Live' \subseteq S
      <3>1. ASSUME NEW x \in S, child[x] # None
            PROVE  child[x] \in S
        <4>1. CASE x = f
          <5>1. a \in S /\ child'[a] = g
            BY <1>1, <1>2, <2>4, <4>1, NoneIsNoFrame DEF Closed, Holders
          <5> QED
            BY <2>4, <4>1, <5>1, NoneIsNoFrame DEF Closed
        <4>2. CASE x # f
          BY <1>1, <1>2, <2>4, <3>1, <4>2 DEF Closed, Holders, IsFree
        <4> QED
          BY <4>1, <4>2
      <3>2. child[Consumer] # None => child[Consumer] \in S
        BY <1>2, <2>4, NoneIsNoFrame DEF Holders
      <3>3. Live \subseteq S
        BY <3>1, <3>2 DEF Closed, IInv, HolderInv
      <3>4. a \in S
        BY <1>1, <1>2, <2>4, <3>3, NoneIsNoFrame DEF Closed, Holders
      <3> QED
        BY <1>3, <3>3, <3>4
    <2> QED
      BY <2>1, <2>3, <2>4 DEF HolderInv
  <1>10. ~Runs(a) /\ \A x \in Frames : Runs(x)' <=> (Runs(x) /\ x # f) \/ x = a
    <2> SUFFICES ASSUME NEW x \in Frames PROVE ~Runs(a) /\ (Runs(x)' <=> (Runs(x) /\ x # f) \/ x = a)
      OBVIOUS
    <2>1. ~Runs(a)
      BY <1>1 DEF Runs, Live
    <2>2. CASE x = f
      BY <2>1, <1>1, <1>2, <2>2 DEF Runs, Holders
    <2>3. CASE x = a
      BY <2>1, <1>1, <1>2, <2>3 DEF Runs
    <2>4. CASE x # f /\ x # a
      BY <2>1, <1>2, <1>7, <2>4 DEF Runs
    <2> QED
      BY <2>1, <2>2, <2>3, <2>4
  <1>11. StackInv'
    <2>1. DOMAIN stack = 1 .. n /\ Len(stack) = n /\ \A i \in 1 .. n : stack[i] \in Frames
      BY StackIsAFunction DEF IInv
    <2>2. a # stack[n] /\ ~raising' /\ StackInv
      BY <1>1, <1>2 DEF IInv
    <2>3. \A i \in 1 .. n - 1 : status'[stack[i]] = status[stack[i]]
      <3> SUFFICES ASSUME NEW i \in 1 .. n - 1 PROVE status'[stack[i]] = status[stack[i]]
        OBVIOUS
      <3>1. i \in 1 .. n /\ i # n /\ n \in 1 .. n
        <4>1. n \in Nat \ {0} /\ i \in 1 .. n - 1
          BY <1>5
        <4> HIDE DEF n
        <4> QED
          BY <4>1
      <3>2. stack[i] # f /\ Runs(stack[i])
        BY <1>1, <2>1, <3>1 DEF IInv, StackInv
      <3> QED
        BY <1>2, <1>10, <2>1, <3>1, <3>2
    <2>4. \A x \in Frames : Runs(x) /\ x # stack[n] => Root(x)' = Root(x) /\ child'[x] = child[x]
      BY <1>1, <1>2, <1>4, <1>10 DEF Holders
    <2>5. Root(a)' = Root(stack[n]) /\ child'[Consumer] = child[Consumer]
      BY <1>1, <1>2, <1>4, NoneIsNoFrame DEF Holders
    <2>6. \A x \in Frames : Runs(x)' <=> (Runs(x) /\ x # stack[n]) \/ x = a
      BY <1>1, <1>10
    <2> HIDE DEF n
    <2> QED
      BY <1>5, <1>10, <2>1, <2>2, <2>3, <2>4, <2>5, <2>6, ReplaceKeeps
  <1>12. ValueInv'
    <2> SUFFICES ASSUME NEW w \in Live', parent_'[w] = None, Waits(w)'
                 PROVE  value_'[w] \in Held(w)' /\ status'[value_'[w]] = "yielded"
      BY DEF ValueInv
    <2>1. w # a /\ w # f
      BY <1>1, <1>2, NoneIsNoFrame DEF Waits, Holders
    <2>2. w \in Live /\ parent_[w] = None /\ w \in Frames /\ value_'[w] = value_[w]
      BY <1>2, <1>3, <1>4, <2>1
    <2>3. Waits(w)
      BY <1>2, <1>7, <2>1, <2>2 DEF Waits
    <2>4. \A x \in Held(w) : x \in Frames /\ x # a /\ x # f
      BY <1>1, <2>2, <2>3, WaitersAreQuiet, HeldIsQuiet DEF Live
    <2>5. \A x \in Held(w) : child'[x] = child[x] /\ status'[x] = status[x]
      BY <1>2, <2>4 DEF Holders
    <2> QED
      BY <1>6, <2>2, <2>3, <2>5, ValueStays
  <1> QED
    BY <1>6, <1>8, <1>9, <1>11, <1>12 DEF IInv

(* final_suspend of an adapter, with an exception or without.              *)
LEMMA ToParentKeeps ==
    ASSUME IInv, NEW f \in Frames, f = Executor, parent_[f] # None, ToParent(f), ~raising', raising' \in BOOLEAN,
           caught' = caught \/ caught' = caught \cup {parent_[f]}
    PROVE  IInv'
  <1> DEFINE n == Len(stack)
  <1> PICK p \in Frames : p = parent_[f]
    BY DEF IInv, TypeOK
  <1>1. /\ stack # <<>> /\ n \in 1 .. n /\ stack[n] = f /\ f \in Live /\ Runs(f) /\ IsAdapter(f)
        /\ p \in Live /\ parent_[p] = None /\ status[p] = "delegating" /\ child[p] = f /\ p # f
        /\ rootOrLeaf_[f] = p /\ status[f] # "final"
    <2>1. stack # <<>> /\ n \in 1 .. n /\ stack[n] = f /\ f \in Live /\ Runs(f)
      BY ExecutorRuns
    <2>2. IsAdapter(f)
      BY DEF IInv, PromiseInv
    <2>3. /\ p \in Live /\ parent_[p] = None /\ status[p] = "delegating" /\ child[p] = f /\ rootOrLeaf_[f] = p
      BY <2>2 DEF IsAdapter
    <2> QED
      BY <2>1, <2>2, <2>3, NoneIsNoFrame DEF Runs
  <1>2. /\ \A x \in Frames : status'[x] = IF x = f THEN "final" ELSE status[x]
        /\ \A x \in Frames : rootOrLeaf_'[x] = IF x = p THEN p ELSE rootOrLeaf_[x]
        /\ parent_' = parent_ /\ exception_' = exception_ /\ value_' = value_ /\ child' = child
    BY <1>1 DEF ToParent, IInv, TypeOK
  <1>3. Live' = Live /\ Live \subseteq Frames
    BY <1>1, <1>2 DEF Live
  <1>4. \A x \in Frames : Root(x)' = Root(x)
    BY <1>2 DEF Root, Adapts
  <1>5. /\ stack' \in Seq(Frames) /\ DOMAIN stack' = 1 .. n /\ (\A i \in 1 .. n - 1 : stack'[i] = stack[i])
        /\ stack'[n] = p /\ n \in Nat \ {0} /\ Len(stack') = n
    <2>1. n \in Nat \ {0} /\ stack \in Seq(Frames) /\ stack' = Append(Pop(stack), p)
      BY <1>1, StackIsAFunction DEF ToParent, IInv, TypeOK
    <2>2. Pop(stack) \in Seq(Frames) /\ Len(Pop(stack)) = n - 1 /\ DOMAIN Pop(stack) = 1 .. n - 1
          /\ \A i \in 1 .. n - 1 : Pop(stack)[i] = stack[i]
      BY <1>1, <2>1, Pops
    <2> HIDE DEF n
    <2>3. stack' \in Seq(Frames) /\ DOMAIN stack' = 1 .. n /\ stack'[n] = p /\ (\A i \in 1 .. n - 1 : stack'[i] = stack[i])
      BY <2>1, <2>2, Pushes
    <2>4. Len(stack') = n
      BY <2>1, <2>2, <2>3, LenProperties
    <2> QED
      BY <2>1, <2>3, <2>4
  <1>6. TypeOK'
    <2>1. rootOrLeaf_' \in [Frames -> Frames \cup {None}] /\ status' \in [Frames -> Statuses]
      BY <1>1 DEF ToParent, IInv, TypeOK, Statuses
    <2>2. caught' \subseteq Frames
      BY DEF IInv, TypeOK
    <2> QED
      BY <1>2, <1>5, <2>1, <2>2 DEF IInv, TypeOK
  <1>7. ASSUME NEW x \in Frames, x # p, status[x] = "delegating"
        PROVE  child[x] \in Frames /\ status'[child[x]] = status[child[x]]
    <2>1. child[x] \in Frames /\ parent_[child[x]] = x
      BY <1>7 DEF IInv, PromiseInv, IsOperator, IsAdapter, Live
    <2> QED
      BY <1>2, <1>7, <2>1
  <1>8. PromiseInv'
    <2>1. IsOperator(p)'
      <3>1. IsOperator(p)
        BY <1>1 DEF IInv, PromiseInv
      <3> QED
        BY <1>1, <1>2, <3>1 DEF IsOperator
    <2>2. ASSUME NEW x \in Frames, x \notin Live
          PROVE  IsFree(x)'
      BY <1>1, <1>2, <2>2 DEF IsFree, IInv, PromiseInv
    <2>3. ASSUME NEW x \in Frames \ {p}, x \in Live, parent_[x] = None
          PROVE  IsOperator(x)'
      <3>1. IsOperator(x) /\ status'[x] = status[x] /\ rootOrLeaf_'[x] = rootOrLeaf_[x]
        BY <1>2, <2>3 DEF IInv, PromiseInv
      <3> QED
        BY <1>2, <1>7, <2>3, <3>1 DEF IsOperator
    <2>4. ASSUME NEW x \in Frames, parent_[x] # None
          PROVE  IsAdapter(x)'
      <3>1. IsAdapter(x) /\ x # p /\ rootOrLeaf_'[x] = rootOrLeaf_[x]
        BY <1>1, <1>2, <2>4 DEF IInv, PromiseInv
      <3> PICK q \in Frames : q = parent_[x]
        BY <3>1 DEF IsAdapter, Live
      <3>2. q # f
        BY <1>1, <3>1 DEF IsAdapter
      <3>3. status'[q] = status[q] /\ status'[x] \in {status[x], "final"}
        BY <1>2, <3>2
      <3> QED
        BY <1>2, <1>3, <3>1, <3>3 DEF IsAdapter
    <2> QED
      BY <1>1, <1>2, <1>3, <2>1, <2>2, <2>3, <2>4 DEF PromiseInv
  <1>9. HolderInv'
    BY <1>2, <1>3 DEF IInv, HolderInv, Closed
  <1>10. ~Runs(p) /\ \A x \in Frames : Runs(x)' <=> (Runs(x) /\ x # f) \/ x = p
    <2> SUFFICES ASSUME NEW x \in Frames PROVE ~Runs(p) /\ (Runs(x)' <=> (Runs(x) /\ x # f) \/ x = p)
      OBVIOUS
    <2>1. ~Runs(p)
      BY <1>1 DEF Runs
    <2>2. CASE x = f
      BY <2>1, <1>1, <1>2, <2>2 DEF Runs
    <2>3. CASE x = p
      BY <2>1, <1>1, <1>2, <2>3 DEF Runs
    <2>4. CASE x # f /\ x # p
      BY <2>1, <1>2, <1>7, <2>4 DEF Runs
    <2> QED
      BY <2>1, <2>2, <2>3, <2>4
  <1>11. StackInv'
    <2>1. DOMAIN stack = 1 .. n /\ Len(stack) = n /\ \A i \in 1 .. n : stack[i] \in Frames
      BY StackIsAFunction DEF IInv
    <2>2. p # stack[n] /\ ~raising' /\ StackInv
      BY <1>1 DEF IInv
    <2>3. \A i \in 1 .. n - 1 : status'[stack[i]] = status[stack[i]]
      <3> SUFFICES ASSUME NEW i \in 1 .. n - 1 PROVE status'[stack[i]] = status[stack[i]]
        OBVIOUS
      <3>1. i \in 1 .. n /\ i # n /\ n \in 1 .. n
        <4>1. n \in Nat \ {0} /\ i \in 1 .. n - 1
          BY <1>5
        <4> HIDE DEF n
        <4> QED
          BY <4>1
      <3>2. stack[i] # f
        BY <1>1, <2>1, <3>1 DEF IInv, StackInv
      <3> QED
        BY <1>2, <2>1, <3>1, <3>2
    <2>4. \A x \in Frames : Runs(x) /\ x # stack[n] => Root(x)' = Root(x) /\ child'[x] = child[x]
      BY <1>2, <1>4
    <2>5. Root(p)' = Root(stack[n]) /\ child'[Consumer] = child[Consumer]
      BY <1>1, <1>2, <1>4, RootIs
    <2>6. \A x \in Frames : Runs(x)' <=> (Runs(x) /\ x # stack[n]) \/ x = p
      BY <1>1, <1>10
    <2> HIDE DEF n
    <2> QED
      BY <1>5, <1>10, <2>1, <2>2, <2>3, <2>4, <2>5, <2>6, ReplaceKeeps
  <1>12. ValueInv'
    <2> SUFFICES ASSUME NEW w \in Live, parent_[w] = None, Waits(w)'
                 PROVE  value_'[w] \in Held(w)' /\ status'[value_'[w]] = "yielded"
      BY <1>2, <1>3 DEF ValueInv
    <2>1. w # f /\ w # p /\ w \in Frames
      BY <1>1, <1>2, <1>3 DEF Waits
    <2>2. Waits(w)
      BY <1>2, <1>7, <2>1 DEF Waits
    <2>3. \A x \in Held(w) : x \in Frames /\ x # f
      BY <2>2, WaitersAreQuiet, HeldIsQuiet DEF Live
    <2>4. \A x \in Held(w) : child'[x] = child[x] /\ status'[x] = status[x]
      BY <1>2, <2>3
    <2> QED
      BY <1>2, <1>6, <2>2, <2>4, ValueStays
  <1> QED
    BY <1>6, <1>8, <1>9, <1>11, <1>12 DEF IInv

(* What the executor holds is destroyed, and it goes on.                   *)
LEMMA DestroyKeeps ==
    ASSUME IInv, NEW e \in Holders, e = Executor, NEW c \in Frames, c = child[e], Quiet(c),
           e \in Frames => parent_[e] = None /\ (status[e] \in {"running", "delegating"}),
           DestroyFrames(Held(c)), raising' \in BOOLEAN
    PROVE  IInv'
  <1> DEFINE n == Len(stack)  D == Held(c)
  <1>0. c \in Live
    BY NoneIsNoFrame DEF IInv, HolderInv
  <1>1. /\ D \subseteq Live
        /\ \A x \in D : Quiet(x) /\ x # e
        /\ \A h \in Holders : child[h] \in D => h \in D \/ h = e
    <2>1. D \subseteq Live /\ (\A x \in D : Quiet(x) /\ x # e) /\ \A h \in Holders : child[h] \in D => h \in D \/ child[h] = c
      BY <1>0, HeldIsQuiet
    <2>2. \A h \in Holders : child[h] = c => h = e
      BY NoneIsNoFrame DEF IInv, HolderInv
    <2> QED
      BY <2>1, <2>2
  <1>2. c \in D /\ Closed(D) /\ D \subseteq Frames
    BY HeldIsLeastHere DEF IInv
  <1>3. DestroyFrames(D)
    OBVIOUS
  <1> HIDE DEF D
  <1>4. /\ \A x \in Frames : status'[x] = IF x \in D THEN "none" ELSE IF x = e THEN "running" ELSE status[x]
        /\ \A x \in Frames : rootOrLeaf_'[x] = IF x \in D THEN None ELSE rootOrLeaf_[x]
        /\ \A x \in Frames : parent_'[x] = IF x \in D THEN None ELSE parent_[x]
        /\ \A x \in Frames : exception_'[x] = IF x \in D THEN None ELSE exception_[x]
        /\ \A x \in Frames : value_'[x] = IF x \in D THEN None ELSE value_[x]
        /\ \A h \in Holders : child'[h] = IF h = e \/ h \in D THEN None ELSE child[h]
        /\ caught' = caught \ (D \cup {e}) /\ stack' = stack
    BY <1>3 DEF DestroyFrames
  <1>5. Consumer \notin D /\ e \notin D /\ Consumer \in Holders
    BY <1>1, <1>2, NoneIsNoFrame DEF Holders
  <1>6. e \in Frames => Runs(e) /\ e \in Live /\ IsOperator(e)
    BY ExecutorRuns DEF IInv, PromiseInv
  <1>7. Live' = Live \ D /\ Live \subseteq Frames
    BY <1>4, <1>6 DEF Live
  <1>8. \A x \in Frames \ D : parent_'[x] = parent_[x] /\ Root(x)' = Root(x)
    BY <1>4 DEF Root, Adapts
  <1>9. TypeOK'
    <2>1. status' \in [Frames -> Statuses]
      BY <1>3 DEF DestroyFrames, IInv, TypeOK, Statuses
    <2>2. rootOrLeaf_' \in [Frames -> Frames \cup {None}] /\ parent_' \in [Frames -> Frames \cup {None}]
      BY <1>3 DEF DestroyFrames, IInv, TypeOK
    <2>3. exception_' \in [Frames -> Frames \cup {None}] /\ value_' \in [Frames -> Frames \cup {None}]
      BY <1>3 DEF DestroyFrames, IInv, TypeOK
    <2>4. child' \in [Holders -> Frames \cup {None}] /\ caught' \subseteq Frames
      BY <1>3 DEF DestroyFrames, IInv, TypeOK
    <2> QED
      BY <1>4, <2>1, <2>2, <2>3, <2>4 DEF IInv, TypeOK
  <1>10. ASSUME NEW x \in Frames, x \notin D, x # e, status[x] = "delegating"
         PROVE  /\ child[x] \in Frames /\ child[x] \notin D /\ child[x] # e /\ child'[x] = child[x]
                /\ status'[child[x]] = status[child[x]] /\ status'[x] = "delegating" /\ parent_[child[x]] = x
    <2>1. child[x] \in Frames /\ parent_[child[x]] = x
      BY <1>10 DEF IInv, PromiseInv, IsOperator, IsAdapter, Live
    <2>2. child[x] \notin D /\ child[x] # e
      BY <1>1, <1>10, <2>1, NoneIsNoFrame DEF Holders
    <2> QED
      BY <1>4, <1>10, <2>1, <2>2 DEF Holders
  <1>11. PromiseInv'
    <2>1. ASSUME NEW x \in Frames, x \notin Live \ D
          PROVE  IsFree(x)'
      <3>1. CASE x \in D
        BY <1>4, <3>1 DEF IsFree, Holders
      <3>2. CASE x \notin D
        BY <1>4, <1>6, <2>1, <3>2 DEF IsFree, IInv, PromiseInv, Holders
      <3> QED
        BY <3>1, <3>2
    <2>2. ASSUME NEW x \in Frames, x \in Live \ D, parent_[x] = None, x # e
          PROVE  IsOperator(x)'
      <3>1. /\ IsOperator(x) /\ status'[x] = status[x] /\ rootOrLeaf_'[x] = rootOrLeaf_[x] /\ exception_'[x] = exception_[x]
            /\ child'[x] = child[x] /\ (x \in caught' => x \in caught)
        BY <1>4, <2>2 DEF IInv, PromiseInv, Holders
      <3>2. status[x] = "delegating" => child[x] \notin D /\ parent_'[child[x]] = parent_[child[x]]
        BY <1>8, <1>10, <2>2
      <3> QED
        BY <1>10, <2>2, <3>1, <3>2 DEF IsOperator
    <2>3. ASSUME e \in Frames
          PROVE  IsOperator(e)'
      <3>1. rootOrLeaf_[e] = e /\ exception_[e] = None
        BY <1>6, <2>3 DEF IsOperator, Runs
      <3> QED
        BY <1>4, <1>5, <2>3, <3>1 DEF IsOperator
    <2>4. ASSUME NEW x \in Frames, x \notin D, parent_[x] # None
          PROVE  IsAdapter(x)'
      <3>1. /\ IsAdapter(x) /\ x # e /\ status'[x] = status[x] /\ rootOrLeaf_'[x] = rootOrLeaf_[x]
            /\ exception_'[x] = exception_[x] /\ parent_'[x] = parent_[x] /\ child'[x] = child[x]
        BY <1>4, <2>4 DEF IInv, PromiseInv, Holders
      <3> PICK p \in Frames : p = parent_[x]
        BY <3>1 DEF IsAdapter, Live
      <3>2. p \notin D
        BY <1>2, <2>4, <3>1, NoneIsNoFrame DEF IsAdapter, Closed
      <3>3. p # e
        BY <1>2, <2>4, <3>1 DEF IsAdapter
      <3>4. child'[p] = child[p] /\ status'[p] = status[p] /\ parent_'[p] = parent_[p]
        BY <1>4, <3>2, <3>3 DEF Holders
      <3>5. parent_'[child[x]] = None
        BY <1>4, <3>1 DEF IsAdapter
      <3> QED
        BY <1>4, <1>7, <3>1, <3>2, <3>4, <3>5 DEF IsAdapter
    <2> QED
      BY <1>4, <1>7, <1>8, <2>1, <2>2, <2>3, <2>4 DEF PromiseInv
  <1>12. HolderInv'
    <2>1. \A h \in Holders : child'[h] # None => child'[h] = child[h] /\ child[h] \notin D
      BY <1>1, <1>4
    <2>2. \A h \in Holders : child'[h] # None => child'[h] \in Live'
      BY <1>7, <2>1 DEF IInv, HolderInv
    <2>3. \A h, k \in Holders : child'[h] = child'[k] /\ child'[h] # None => h = k
      BY <2>1 DEF IInv, HolderInv
    <2>4. ASSUME NEW S \in SUBSET Frames, Closed(S)', child'[Consumer] # None => child'[Consumer] \in S
          PROVE  Live' \subseteq S
      <3> DEFINE T == S \cup D
      <3>1. ASSUME NEW x \in T, child[x] # None
            PROVE  child[x] \in T
        <4>1. CASE x \in D
          BY <1>2, <3>1, <4>1 DEF Closed
        <4>2. CASE x = e
          BY <1>2, <4>2
        <4>3. CASE x \notin D /\ x # e
          <5>1. x \in S /\ x \in Holders
            BY <3>1, <4>3 DEF Holders
          <5>2. child'[x] = child[x]
            BY <1>4, <4>3, <5>1
          <5> QED
            BY <2>4, <3>1, <5>1, <5>2 DEF Closed
        <4> QED
          BY <4>1, <4>2, <4>3
      <3>2. child[Consumer] # None => child[Consumer] \in T
        BY <1>2, <1>4, <1>5, <2>4
      <3>3. Closed(T) /\ T \in SUBSET Frames
        BY <1>2, <3>1 DEF Closed
      <3> HIDE DEF T
      <3>4. Live \subseteq T
        BY <3>2, <3>3 DEF IInv, HolderInv
      <3> QED
        BY <1>7, <3>4 DEF T
    <2> QED
      BY <2>2, <2>3, <2>4 DEF HolderInv
  <1>13. \A x \in Frames : Runs(x)' <=> Runs(x)
    <2> SUFFICES ASSUME NEW x \in Frames PROVE Runs(x)' <=> Runs(x)
      OBVIOUS
    <2>1. CASE x \in D
      BY <1>1, <1>4, <2>1 DEF Runs, Quiet
    <2>2. CASE x = e
      BY <1>4, <1>5, <1>6, <2>2 DEF Runs
    <2>3. CASE x \notin D /\ x # e
      BY <1>4, <1>10, <2>3 DEF Runs
    <2> QED
      BY <2>1, <2>2, <2>3
  <1>14. StackInv'
    <2>1. /\ n \in Nat /\ DOMAIN stack = 1 .. n /\ Len(stack) = n /\ (\A i \in 1 .. n : stack[i] \in Frames)
          /\ e = (IF n = 0 THEN Consumer ELSE stack[n])
      BY StackIsAFunction DEF IInv
    <2> HIDE DEF n
    <2>2. ASSUME NEW i \in 1 .. n
          PROVE  /\ Root(stack[i])' = Root(stack[i]) /\ (i # n => child'[stack[i]] = child[stack[i]])
                 /\ (i # n \/ raising' => status'[stack[i]] = "running")
      <3>1. stack[i] \in Frames /\ Runs(stack[i])
        BY <2>1 DEF IInv, StackInv
      <3>2. stack[i] \notin D
        BY <1>1, <3>1 DEF Quiet
      <3>3. i # n => stack[i] # e
        BY <2>1 DEF IInv, StackInv
      <3>4. i # n => status[stack[i]] = "running"
        BY <2>1 DEF IInv, StackInv
      <3>5. i = n => stack[i] = e
        BY <2>1
      <3> QED
        BY <1>4, <1>8, <3>1, <3>2, <3>3, <3>4, <3>5 DEF Holders
    <2>3. n # 0 => child'[Consumer] = child[Consumer]
      BY <1>4, <1>5, <2>1, NoneIsNoFrame
    <2> QED
      BY <1>4, <1>13, <2>1, <2>2, <2>3, StayKeeps DEF IInv
  <1>15. ValueInv'
    <2> SUFFICES ASSUME NEW w \in Live', parent_'[w] = None, Waits(w)'
                 PROVE  value_'[w] \in Held(w)' /\ status'[value_'[w]] = "yielded"
      BY DEF ValueInv
    <2>1. w \in Live \ D /\ w \in Frames /\ w # e /\ parent_[w] = None /\ value_'[w] = value_[w]
      <3>1. w \in Live \ D /\ w \in Frames
        BY <1>7
      <3>2. w # e
        BY <1>4, <3>1 DEF Waits
      <3> QED
        BY <1>4, <3>1, <3>2
    <2>2. Waits(w)
      BY <1>4, <1>10, <2>1 DEF Waits
    <2>3. /\ Held(w) \subseteq Frames /\ w \in Held(w) /\ Closed(Held(w))
          /\ \A S \in SUBSET Frames : w \in S /\ Closed(S) => Held(w) \subseteq S
      BY <2>1, HeldIsLeastHere DEF IInv
    <2>4. \A x \in Held(w) : x # e
      BY <2>1, <2>2, WaitersAreQuiet, HeldIsQuiet
    <2>5. Closed(Held(w) \ D)
      BY <1>1, <2>3, <2>4 DEF Closed, Holders
    <2>6. \A x \in Held(w) : x \notin D
      BY <2>1, <2>3, <2>5
    <2>7. \A x \in Held(w) : child'[x] = child[x] /\ status'[x] = status[x]
      BY <1>4, <2>3, <2>4, <2>6 DEF Holders
    <2> QED
      BY <1>9, <2>1, <2>2, <2>7, ValueStays
  <1> QED
    BY <1>9, <1>11, <1>12, <1>14, <1>15 DEF IInv

(* ~generator of a reader, and await_resume.                               *)
LEMMA DropKeeps ==
    ASSUME IInv, Destroy \/ \E f \in Frames : AwaitResume(f)
    PROVE  IInv'
  <1> PICK e \in Holders : e = Executor
    BY ExecutorRuns
  <1>1. CASE Destroy
    <2> PICK c \in Frames : c = child[e]
      BY <1>1 DEF Destroy, IInv, TypeOK
    <2>1. e \in Frames => status[e] = "running" /\ parent_[e] = None
      BY <1>1, NoneIsNoFrame DEF Destroy, InCode, Adapts
    <2>2. parent_[c] = None
      BY <2>1, ChildOf, NoneIsNoFrame
    <2>3. Quiet(c)
      BY <2>2, ChildIsQuiet
    <2>4. DestroyFrames(Held(c)) /\ raising' \in BOOLEAN
      BY <1>1 DEF Destroy, IInv, TypeOK
    <2> QED
      BY <2>1, <2>3, <2>4, DestroyKeeps
  <1>2. ASSUME NEW f \in Frames, AwaitResume(f)
        PROVE  IInv'
    <2>1. f = e /\ status[f] = "delegating" /\ Runs(f) /\ f \in Live
      BY <1>2, ExecutorRuns DEF AwaitResume
    <2>2. parent_[f] = None /\ IsOperator(f)
      BY <2>1 DEF IInv, PromiseInv, IsAdapter
    <2> PICK c \in Frames : c = child[e] /\ status[c] = "final"
      BY <2>1, <2>2 DEF IsOperator, Runs
    <2>3. Quiet(c)
      BY DEF Quiet, Runs
    <2>4. DestroyFrames(Held(c)) /\ raising' \in BOOLEAN
      BY <1>2, <2>1 DEF AwaitResume
    <2> QED
      BY <2>1, <2>2, <2>3, <2>4, DestroyKeeps
  <1> QED
    BY <1>1, <1>2

LEMMA StepKeeps == IInv /\ [Next]_vars => IInv'
  <1> SUFFICES ASSUME IInv, [Next]_vars PROVE IInv'
    OBVIOUS
  <1>0. raising \in BOOLEAN
    BY DEF IInv, TypeOK
  <1>1. CASE Begin \/ Increment
    BY <1>1, ResumeKeeps
  <1>2. CASE Destroy
    BY <1>2, DropKeeps
  <1>3. CASE Catch
    BY <1>3, FlightKeeps DEF Catch
  <1>4. ASSUME NEW f \in Frames, Create(f)
        PROVE  IInv'
    BY <1>4, CreateKeeps
  <1>5. ASSUME NEW f \in Frames, YieldObject(f)
        PROVE  IInv'
    <2>1. f = Executor /\ status[f] = "running" /\ parent_[f] = None
      BY <1>5 DEF YieldObject, Executes, Adapts
    <2>2. Root(f) = f
      BY <2>1, RootIs
    <2>3. /\ status' = [status EXCEPT ![f] = "yielded"] /\ stack' = Pop(stack) /\ UNCHANGED <<pointers, caught, child, raising>>
          /\ value_' = [value_ EXCEPT ![Root(f)] = f]
      BY <1>5, <2>2 DEF YieldObject, Suspend
    <2> QED
      BY <2>1, <2>3, SuspendKeeps
  <1>6. ASSUME NEW f \in Frames, NEW o \in Constants(f), YieldConst(f, o)
        PROVE  IInv'
    <2>1. f = Executor /\ status[f] = "running" /\ f \in Live
      BY <1>6 DEF YieldConst, Executes, Live
    <2>2. rootOrLeaf_[f] = Root(f)
      BY <2>1, RootIs DEF IInv, PromiseInv, IsOperator, IsAdapter
    <2>3. /\ status' = [status EXCEPT ![f] = "yielded"] /\ stack' = Pop(stack) /\ UNCHANGED <<pointers, caught, child, raising>>
          /\ value_' = [value_ EXCEPT ![Root(f)] = o]
      BY <1>6, <2>2 DEF YieldConst, Suspend
    <2>4. (o = f /\ parent_[f] = None) \/ (AtAValue(child[f]) /\ o = value_[child[f]])
      BY DEF Constants, Adapts
    <2> QED
      BY <2>1, <2>3, <2>4, SuspendKeeps
  <1>7. ASSUME NEW f \in Frames, f = Executor, status[f] = "running", parent_[f] = None, child[f] = None, End(f),
               UNCHANGED <<caught, raising>>
        PROVE  IInv'
    <2>1. /\ status' = [status EXCEPT ![f] = "final"] /\ stack' = Pop(stack) /\ UNCHANGED <<pointers, caught, child, raising>>
          /\ value_' = value_
      BY <1>7 DEF End
    <2> QED
      BY <1>7, <2>1, SuspendKeeps
  <1>8. ASSUME NEW f \in Frames, Return(f)
        PROVE  IInv'
    <2>1. f = Executor /\ status[f] = "running" /\ ~raising /\ UNCHANGED <<caught, raising>>
      BY <1>8 DEF Return, Executes
    <2>2. CASE parent_[f] = None
      BY <1>7, <1>8, <2>1, <2>2 DEF Return, Adapts, FinalSuspend
    <2>3. CASE parent_[f] # None
      <3>1. ToParent(f)
        BY <1>8, <2>3 DEF Return, Adapts, FinalSuspend
      <3> QED
        BY <1>0, <2>1, <2>3, <3>1, ToParentKeeps
    <2> QED
      BY <2>2, <2>3
  <1>9. ASSUME NEW f \in Frames, Throw(f)
        PROVE  IInv'
    BY <1>9, FlightKeeps DEF Throw, Executes
  <1>10. ASSUME NEW f \in Frames, Unwind(f)
         PROVE  IInv'
    <2>1. f = Executor /\ raising /\ status[f] = "running" /\ f \in Live
      BY <1>10, ExecutorRuns DEF Unwind
    <2>2. CASE parent_[f] = None
      <3>1. exception_[f] = None
        BY <2>1, <2>2 DEF IInv, PromiseInv, IsOperator
      <3> QED
        BY <1>7, <1>10, <2>1, <2>2, <3>1 DEF Unwind, Adapts
    <2>3. CASE parent_[f] # None
      <3>1. exception_[f] = parent_[f]
        BY <2>1, <2>3 DEF IInv, PromiseInv, IsAdapter
      <3>2. ToParent(f) /\ caught' = caught \cup {parent_[f]} /\ ~raising' /\ raising' \in BOOLEAN
        BY <1>10, <2>3, <3>1 DEF Unwind, Adapts, FinalSuspend
      <3> QED
        BY <2>1, <2>3, <3>2, ToParentKeeps
    <2> QED
      BY <2>2, <2>3
  <1>11. ASSUME NEW f \in Frames, AwaitResume(f)
         PROVE  IInv'
    BY <1>11, DropKeeps
  <1>12. ASSUME NEW f \in Frames, NEW a \in Frames, Delegate(f, a)
         PROVE  IInv'
    BY <1>12, DelegateKeeps
  <1>13. CASE UNCHANGED vars
    BY <1>0, <1>13, FlightKeeps DEF vars, pointers
  <1> QED
    BY <1>1, <1>2, <1>3, <1>4, <1>5, <1>6, <1>8, <1>9, <1>10, <1>11, <1>12, <1>13 DEF Next

(* Who has caught an exception from its adapter has not thrown it again.   *)
LEMMA CaughtRuns ==
    ASSUME IInv, NEW f \in caught
    PROVE  f \in Frames /\ Runs(f) /\ status[f] = "delegating" /\ parent_[f] = None
  <1>1. f \in Live /\ parent_[f] = None
    BY DEF IInv, TypeOK, PromiseInv, IsFree, IsAdapter
  <1> QED
    BY <1>1 DEF IInv, TypeOK, PromiseInv, IsOperator, Runs

-----------------------------------------------------------------------------
(* The invariant holds in every state, whatever the number of frames and   *)
(* the depth of the nesting.                                               *)
THEOREM Inductive == Spec => []IInv
  BY InitInvariant, StepKeeps, PTL DEF Spec

(* Types. *)
THEOREM TypeCorrect == Spec => []TypeOK
  <1>1. IInv => TypeOK
    BY DEF IInv
  <1> QED
    BY <1>1, Inductive, PTL

(* operator++ never resumes a coroutine that runs, is destroyed, has ended *)
(* or waits for another one.                                               *)
THEOREM ResumesSuspended == Spec => []ResumesASuspendedFrame
  <1>1. ASSUME IInv PROVE ResumesASuspendedFrame
    <2> DEFINE g == child[Executor]
    <2> SUFFICES ASSUME Advances, g # None, status[g] \notin {"initial", "final"}
                 PROVE  rootOrLeaf_[g] # None /\ status[rootOrLeaf_[g]] = "yielded"
      BY DEF ResumesASuspendedFrame
    <2>1. Executor \in Holders /\ (Executor \in Frames => status[Executor] \in {"running", "advancing"})
      BY <1>1, ExecutorRuns, NoneIsNoFrame DEF Advances, InCode
    <2>2. g \in Frames /\ parent_[g] = None
      BY <1>1, <2>1, ChildOf
    <2>3. /\ status[g] \in {"initial", "yielded", "final"} \/ (status[g] = "delegating" /\ status[child[g]] = "yielded")
          /\ rootOrLeaf_[g] = IF status[g] = "delegating" THEN child[g] ELSE g
      BY <1>1, <2>2, ChildIsQuiet
    <2>4. status[g] = "delegating" => child[g] \in Frames
      BY <1>1, <2>2 DEF IInv, PromiseInv, IsOperator, Live
    <2> QED
      BY <2>2, <2>3, <2>4, NoneIsNoFrame
  <1> QED
    BY <1>1, Inductive, PTL

(* While a reader may look at a value, whichever overload of yield_value   *)
(* gave it to the promise, the coroutine that yielded it is suspended      *)
(* there, and the generator that is read holds it.                         *)
THEOREM ValuesLive == Spec => []ValuesAreAlive
  <1>1. ASSUME IInv PROVE ValuesAreAlive
    <2> SUFFICES ASSUME NEW h \in Holders, child[h] # None, ~Adapts(child[h]), Waits(child[h])
                 PROVE  /\ value_[child[h]] # None /\ value_[child[h]] \in Held(child[h])
                        /\ status[value_[child[h]]] = "yielded"
      BY DEF ValuesAreAlive
    <2> PICK g \in Frames : g = child[h]
      BY <1>1 DEF IInv, TypeOK
    <2>1. g \in Live /\ parent_[g] = None
      BY <1>1, ChildOf DEF Adapts
    <2>2. value_[g] \in Held(g) /\ status[value_[g]] = "yielded"
      BY <1>1, <2>1 DEF IInv, ValueInv
    <2>3. Held(g) \subseteq Frames
      BY DEF Held
    <2> QED
      BY <2>2, <2>3, NoneIsNoFrame
  <1> QED
    BY <1>1, Inductive, PTL

(* What the consumer destroys with its generator is every frame there is.  *)
THEOREM NothingLeaks == Spec => []NoFrameLeaks
  <1>1. ASSUME IInv PROVE NoFrameLeaks
    <2> DEFINE g == child[Consumer]
    <2>1. Closed(Live) /\ Live \in SUBSET Frames /\ (g # None => g \in Live)
      BY <1>1 DEF IInv, HolderInv, Closed, Holders, Live
    <2>2. \A S \in SUBSET Frames : Closed(S) /\ (g # None => g \in S) => Live \subseteq S
      BY <1>1 DEF IInv, HolderInv
    <2>3. CASE g = None
      <3>1. Live \subseteq {}
        <4>1. Closed({})
          BY DEF Closed
        <4> QED
          BY <2>2, <2>3, <4>1
      <3> QED
        BY <2>3, <3>1 DEF NoFrameLeaks, Live
    <2>4. CASE g # None
      <3>1. /\ Held(g) \subseteq Frames /\ g \in Held(g) /\ Closed(Held(g))
            /\ \A S \in SUBSET Frames : g \in S /\ Closed(S) => Held(g) \subseteq S
        BY <1>1, <2>1, <2>4, HeldIsLeastHere DEF IInv
      <3>2. Live = Held(g)
        BY <2>1, <2>2, <2>4, <3>1
      <3> QED
        BY <2>4, <3>2 DEF NoFrameLeaks, Live
    <2> QED
      BY <2>3, <2>4
  <1> QED
    BY <1>1, Inductive, PTL

(* An exception is over only when it has left every coroutine that was     *)
(* entered, through loops and adapters alike.                              *)
THEOREM ExceptionsPass == Spec => ExceptionsPassEveryCoroutine
  <1>1. ASSUME IInv, NEW f \in caught
        PROVE  f \in Frames /\ Runs(f) /\ status[f] = "delegating"
    BY <1>1, CaughtRuns
  <1>2. ASSUME IInv, NEW c \in Frames, Quiet(c), NEW e, e = Executor, e \in Frames => status[e] # "delegating",
               e \in caught => FALSE, DestroyFrames(Held(c)), child[e] = c, e \in Holders
        PROVE  caught' = caught
    <2>1. c \in Live
      BY <1>2, NoneIsNoFrame DEF IInv, HolderInv
    <2>2. \A x \in Held(c) : Quiet(x)
      BY <1>2, <2>1, HeldIsQuiet
    <2>3. \A x \in caught : x \notin Held(c)
      BY <1>1, <1>2, <2>2 DEF Quiet
    <2> QED
      BY <1>2, <2>3 DEF DestroyFrames
  <1>3. ASSUME IInv, Next, Pending, ~Pending'
        PROVE  \A f \in Frames : ~Entered(f)
    <2>1. CASE Catch
      <3>1. \A f \in Frames : ~Runs(f)
        BY <1>3, <2>1 DEF Catch, IInv, StackInv
      <3>2. ASSUME NEW f \in Frames, Entered(f)
            PROVE  FALSE
        <4>1. status[f] = "delegating" /\ status[child[f]] # "yielded"
          BY <3>1, <3>2 DEF Entered, Runs
        <4> PICK a \in Frames : a = child[f] /\ parent_[a] = f
          BY <1>3, <4>1 DEF IInv, PromiseInv, IsOperator, IsAdapter, Live
        <4>2. IsAdapter(a)
          BY <1>3, NoneIsNoFrame DEF IInv, PromiseInv
        <4> QED
          BY <3>1, <4>1, <4>2 DEF IsAdapter, Runs
      <3> QED
        BY <3>2
    <2>2. CASE Destroy
      <3> PICK e \in Holders : e = Executor
        BY <1>3, ExecutorRuns
      <3> PICK c \in Frames : c = child[e]
        BY <1>3, <2>2 DEF Destroy, IInv, TypeOK
      <3>1. e \in Frames => status[e] = "running" /\ parent_[e] = None
        BY <2>2, NoneIsNoFrame DEF Destroy, InCode, Adapts
      <3>2. parent_[c] = None
        BY <1>3, <3>1, ChildOf, NoneIsNoFrame
      <3>3. Quiet(c) /\ e \notin caught
        BY <1>1, <1>3, <3>1, <3>2, ChildIsQuiet
      <3>4. DestroyFrames(Held(c)) /\ raising' = raising
        BY <2>2 DEF Destroy
      <3>5. caught' = caught
        BY <1>2, <1>3, <3>1, <3>3, <3>4
      <3> QED
        BY <1>3, <3>4, <3>5 DEF Pending
    <2>3. ASSUME NEW f \in Frames, AwaitResume(f)
          PROVE  FALSE
      <3>1. f = Executor /\ status[f] = "delegating" /\ raising' = (f \in caught) /\ DestroyFrames(Held(child[f])) /\ Runs(f) /\ f \in Live
        BY <1>3, <2>3, ExecutorRuns DEF AwaitResume
      <3>2. ~raising
        BY <1>3, <3>1, ExecutorRuns
      <3>3. parent_[f] = None /\ IsOperator(f)
        BY <1>3, <3>1 DEF IInv, PromiseInv, IsAdapter
      <3> PICK c \in Frames : c = child[f] /\ status[c] = "final" /\ c \in Live
        BY <1>3, <3>1, <3>3, NoneIsNoFrame DEF IsOperator, Runs, Live
      <3>4. Quiet(c)
        BY DEF Quiet, Runs
      <3>5. \A x \in Held(c) : Quiet(x)
        BY <1>3, <3>4, HeldIsQuiet
      <3>6. \A x \in caught : x \notin Held(c) /\ x # f
        BY <1>1, <1>3, <3>1, <3>5 DEF Quiet, Pending
      <3>7. caught' = caught
        BY <3>1, <3>6 DEF DestroyFrames
      <3> QED
        BY <1>3, <3>2, <3>7 DEF Pending
    <2>4. ASSUME NEW f \in Frames, Unwind(f)
          PROVE  FALSE
      <3>1. (raising' = raising /\ raising) \/ caught' = caught \cup {exception_[f]}
        BY <2>4 DEF Unwind, End
      <3> QED
        BY <1>3, <3>1 DEF Pending
    <2>5. ASSUME UNCHANGED caught, raising' = raising \/ raising'
          PROVE  FALSE
      BY <1>3, <2>5 DEF Pending
    <2>6. Begin \/ Increment => UNCHANGED <<caught, raising>>
      BY DEF Begin, Increment, Resume
    <2>7. \A f \in Frames : Create(f) \/ YieldObject(f) \/ Return(f) => UNCHANGED <<caught, raising>>
      BY DEF Create, YieldObject, Suspend, Return
    <2>8. \A f \in Frames : Throw(f) => UNCHANGED caught /\ raising'
      BY DEF Throw
    <2>9. \A f, a \in Frames : Delegate(f, a) => UNCHANGED <<caught, raising>>
      BY DEF Delegate
    <2>10. \A f \in Frames : \A o \in Constants(f) : YieldConst(f, o) => UNCHANGED <<caught, raising>>
      BY DEF YieldConst, Suspend
    <2> QED
      BY <1>3, <2>1, <2>2, <2>3, <2>4, <2>5, <2>6, <2>7, <2>8, <2>9, <2>10 DEF Next
  <1>4. ASSUME IInv, [Next]_vars PROVE [Pending /\ ~Pending' => \A f \in Frames : ~Entered(f)]_vars
    BY <1>3, <1>4
  <1> QED
    BY <1>4, Inductive, PTL DEF Spec, ExceptionsPassEveryCoroutine
=============================================================================
