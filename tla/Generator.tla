------------------------------- MODULE Generator -------------------------------
(***************************************************************************)
(* The generators the operators of a query are written with: generator.hpp, *)
(* where the body of an operator is a coroutine.  An operator reads another *)
(* one in a loop, or hands its own reader over to it, `co_yield            *)
(* elements_of(sub)`.  The deduction guide of elements_of keeps `sub` a    *)
(* reference, so what is nested is not the coroutine of sub but an adapter, *)
(* a coroutine of promise_type that reads sub in a loop and yields what it *)
(* reads: the reader resumes the adapter directly, and a yield of it       *)
(* reaches the reader directly.                                            *)
(*                                                                         *)
(* A frame is the memory of a coroutine, with its promise.  rootOrLeaf_    *)
(* leads from the coroutine of an operator to the adapter that is nested   *)
(* in it, and from the adapter back to it.                                 *)
(***************************************************************************)
EXTENDS Naturals, Sequences

CONSTANTS Frames,           \* places for coroutines, used again when they are free
          Consumer,         \* the code outside of any coroutine
          None
ASSUME FramesAssumption == Consumer # None /\ Consumer \notin Frames /\ None \notin Frames

VARIABLES status,           \* where the execution of a coroutine stands
          rootOrLeaf_, parent_,
          exception_,       \* of a promise: whose awaiter keeps what it throws
          caught,           \* the coroutines whose awaiter has been given an exception
          value_,           \* the coroutine whose object is pointed to, the one it yielded last
          child,            \* the generator that a coroutine or the consumer holds, or its adapter
          stack,            \* the coroutines that execute: each was resumed by the one below
          raising           \* an exception is in flight

pointers == <<rootOrLeaf_, parent_, exception_>>
vars == <<status, rootOrLeaf_, parent_, exception_, caught, value_, child, stack, raising>>

Holders == Frames \cup {Consumer}

(* advancing: an adapter that is about to ask for the next value.          *)
Statuses == {"none", "initial", "yielded", "delegating", "advancing", "running", "final"}

Init == /\ status = [f \in Frames |-> "none"]
        /\ rootOrLeaf_ = [f \in Frames |-> None]
        /\ parent_ = [f \in Frames |-> None]
        /\ exception_ = [f \in Frames |-> None]
        /\ caught = {}
        /\ value_ = [f \in Frames |-> None]
        /\ child = [h \in Holders |-> None]
        /\ stack = <<>>
        /\ raising = FALSE

Adapts(f) == f \in Frames /\ parent_[f] # None
Top(s) == s[Len(s)]
Pop(s) == SubSeq(s, 1, Len(s) - 1)
Executor == IF stack = <<>> THEN Consumer ELSE Top(stack)
Executes(f) == f = Executor /\ f # Consumer /\ status[f] = "running" /\ ~raising

(* The code of an operator or of the consumer has control.                 *)
InCode(h) == h = Executor /\ ~Adapts(h) /\ (h # Consumer => status[h] = "running")

-----------------------------------------------------------------------------
(* Calling an operator allocates the frame of its coroutine, whose promise *)
(* leads to itself; initial_suspend keeps it from running.                 *)
Create(f) ==
    /\ ~raising /\ InCode(Executor) /\ child[Executor] = None /\ status[f] = "none"
    /\ status' = [status EXCEPT ![f] = "initial"]
    /\ rootOrLeaf_' = [rootOrLeaf_ EXCEPT ![f] = f]
    /\ parent_' = [parent_ EXCEPT ![f] = None]
    /\ exception_' = [exception_ EXCEPT ![f] = None]
    /\ value_' = [value_ EXCEPT ![f] = None]
    /\ child' = [child EXCEPT ![Executor] = f]
    /\ UNCHANGED <<caught, stack, raising>>

(* begin and operator++ of a loop over a generator that has not ended.  An *)
(* adapter does nothing else when it is resumed.                           *)
Advances == ~raising /\ (InCode(Executor) \/ (Executor # Consumer /\ status[Executor] = "advancing"))
Resume(f) ==
    /\ status' = [x \in Frames |-> IF x = f THEN IF Adapts(f) THEN "advancing" ELSE "running"
                                  ELSE IF x = Executor THEN "running" ELSE status[x]]
    /\ stack' = Append(stack, f)
    /\ UNCHANGED <<pointers, caught, value_, child, raising>>
Begin ==
    LET g == child[Executor]
    IN  Advances /\ g # None /\ status[g] = "initial" /\ Resume(g)
Increment ==
    LET g == child[Executor]
    IN  Advances /\ g # None /\ status[g] \notin {"initial", "final"} /\ Resume(rootOrLeaf_[g])

(* Whoever resumed the generator goes on.                                  *)
Suspend(f) == /\ status' = [status EXCEPT ![f] = "yielded"]
              /\ stack' = Pop(stack)
              /\ UNCHANGED <<pointers, caught, child, raising>>

(* yield_value_holder, for an object that the coroutine may change: the    *)
(* promise of the coroutine itself gets the pointer.                       *)
YieldObject(f) ==
    /\ Executes(f) /\ ~Adapts(f)
    /\ value_' = [value_ EXCEPT ![f] = f]
    /\ Suspend(f)

(* What a coroutine can yield as const: an object, or what it reads.       *)
AtAValue(g) == g # None /\ status[g] \notin {"initial", "final"}
Constants(f) == (IF Adapts(f) THEN {} ELSE {f}) \cup (IF AtAValue(child[f]) THEN {value_[child[f]]} ELSE {})

(* Mutant: an adapter whose loop variable is not const.                    *)
YieldConstHere(f, o) ==
    /\ Executes(f) /\ o \in Constants(f)
    /\ value_' = [value_ EXCEPT ![f] = o]
    /\ Suspend(f)

(* yield_value of a const object: the promise of the root gets the pointer. *)
YieldConst(f, o) ==
    /\ Executes(f) /\ o \in Constants(f)
    /\ value_' = [value_ EXCEPT ![rootOrLeaf_[f]] = o]
    /\ Suspend(f)

(* Mutant: the promise of the adapter gets no place for an exception.      *)
DelegateUnguarded(f, a) ==
    /\ Executes(f) /\ ~Adapts(f) /\ child[f] # None /\ status[child[f]] = "initial" /\ status[a] = "none"
    /\ rootOrLeaf_' = [rootOrLeaf_ EXCEPT ![a] = rootOrLeaf_[f], ![rootOrLeaf_[f]] = a]
    /\ parent_' = [parent_ EXCEPT ![a] = f]
    /\ value_' = [value_ EXCEPT ![a] = None]
    /\ status' = [status EXCEPT ![f] = "delegating", ![a] = "advancing"]
    /\ child' = [child EXCEPT ![f] = a, ![a] = child[f]]
    /\ stack' = Append(Pop(stack), a)
    /\ UNCHANGED <<exception_, caught, raising>>

(* yield_value of elements_of, for a generator that f just created: the    *)
(* adapter runs in the place of f.                                         *)
Delegate(f, a) ==
    /\ Executes(f) /\ ~Adapts(f) /\ child[f] # None /\ status[child[f]] = "initial" /\ status[a] = "none"
    /\ rootOrLeaf_' = [rootOrLeaf_ EXCEPT ![a] = rootOrLeaf_[f], ![rootOrLeaf_[f]] = a]
    /\ parent_' = [parent_ EXCEPT ![a] = f]
    /\ exception_' = [exception_ EXCEPT ![a] = f]
    /\ value_' = [value_ EXCEPT ![a] = None]
    /\ status' = [status EXCEPT ![f] = "delegating", ![a] = "advancing"]
    /\ child' = [child EXCEPT ![f] = a, ![a] = child[f]]
    /\ stack' = Append(Pop(stack), a)
    /\ UNCHANGED <<caught, raising>>

(* A coroutine that has ended.  final_suspend of an adapter resumes its    *)
(* parent; the end of an operator is seen by its reader.                   *)
End(f) ==
    /\ status' = [status EXCEPT ![f] = "final"]
    /\ stack' = Pop(stack)
    /\ UNCHANGED <<pointers, value_, child>>
ToParentOnly(f) ==                                 \* mutant: the root is not told
    /\ status' = [status EXCEPT ![f] = "final"]
    /\ stack' = Append(Pop(stack), parent_[f])
    /\ UNCHANGED <<pointers, value_, child>>
ToParent(f) ==
    /\ status' = [status EXCEPT ![f] = "final"]
    /\ rootOrLeaf_' = [rootOrLeaf_ EXCEPT ![rootOrLeaf_[f]] = parent_[f]]
    /\ stack' = Append(Pop(stack), parent_[f])
    /\ UNCHANGED <<parent_, exception_, value_, child>>
LeaveToParent(f) == ToParent(f)                    \* mutant: an operator has no parent
FinalSuspend(f) == IF Adapts(f) THEN ToParent(f) ELSE End(f)

Return(f) ==
    /\ Executes(f)
    /\ IF Adapts(f) THEN status[child[f]] = "final" ELSE child[f] = None
    /\ FinalSuspend(f)
    /\ UNCHANGED <<caught, raising>>

(* query_timeout and every other exception.  No operator catches one: when *)
(* its locals are destroyed, unhandled_exception lets it out of resume,    *)
(* to the reader.  From an adapter it goes to the awaiter of the parent.   *)
Throw(f) == Executes(f) /\ ~Adapts(f) /\ raising' = TRUE /\ UNCHANGED <<status, pointers, caught, value_, child, stack>>
Unwind(f) ==
    /\ raising /\ f = Executor /\ (Adapts(f) \/ child[f] = None)
    /\ IF exception_[f] = None
       THEN End(f) /\ UNCHANGED <<caught, raising>>
       ELSE FinalSuspend(f) /\ caught' = caught \cup {exception_[f]} /\ raising' = FALSE

(* The code outside of the coroutines, tentris_solution_generator_next for *)
(* one, catches what comes out of the generator it resumed.                *)
Catch == raising /\ stack = <<>> /\ raising' = FALSE /\ UNCHANGED <<status, pointers, caught, value_, child, stack>>

(* ~generator: a frame is destroyed with everything it holds, and the      *)
(* executor goes on.                                                       *)
Held(g) ==
    {f \in Frames : \A S \in SUBSET Frames :
        (g \in S /\ \A e \in S : child[e] # None => child[e] \in S) => f \in S}
DestroyFrames(D) ==
    /\ status' = [f \in Frames |-> IF f \in D THEN "none" ELSE IF f = Executor THEN "running" ELSE status[f]]
    /\ rootOrLeaf_' = [f \in Frames |-> IF f \in D THEN None ELSE rootOrLeaf_[f]]
    /\ parent_' = [f \in Frames |-> IF f \in D THEN None ELSE parent_[f]]
    /\ exception_' = [f \in Frames |-> IF f \in D THEN None ELSE exception_[f]]
    /\ caught' = caught \ (D \cup {Executor})
    /\ value_' = [f \in Frames |-> IF f \in D THEN None ELSE value_[f]]
    /\ child' = [h \in Holders |-> IF h = Executor \/ h \in D THEN None ELSE child[h]]
    /\ UNCHANGED stack

(* A loop ends so, a reader that is content, and a coroutine that an       *)
(* exception leaves.  Mutants: what a frame holds stays; everything stays. *)
DestroyFirst == InCode(Executor) /\ child[Executor] # None /\ DestroyFrames({child[Executor]}) /\ UNCHANGED raising
DestroyNothing == InCode(Executor) /\ child[Executor] # None /\ UNCHANGED vars
Destroy == InCode(Executor) /\ child[Executor] # None /\ DestroyFrames(Held(child[Executor])) /\ UNCHANGED raising

(* await_resume throws what the adapter left there.  Then, or without, the *)
(* awaiter destroys the adapter and the end of the expression the generator *)
(* it read.                                                                *)
AwaitResumeSwallowing(f) ==                        \* mutant: it is not thrown again
    /\ f = Executor /\ status[f] = "delegating"
    /\ raising' = FALSE
    /\ DestroyFrames(Held(child[f]))
AwaitResume(f) ==
    /\ f = Executor /\ status[f] = "delegating"
    /\ raising' = (f \in caught)
    /\ DestroyFrames(Held(child[f]))

Next ==
    \/ Begin \/ Increment \/ Destroy \/ Catch
    \/ \E f \in Frames : Create(f) \/ YieldObject(f) \/ Return(f) \/ Throw(f) \/ Unwind(f) \/ AwaitResume(f)
    \/ \E f, a \in Frames : Delegate(f, a)
    \/ \E f \in Frames : \E o \in Constants(f) : YieldConst(f, o)

Spec == Init /\ [][Next]_vars

(* An exception is on its way to the consumer; the code that it runs goes  *)
(* on by itself.                                                           *)
Pending == raising \/ caught # {}
Unwinding == Pending /\ stack # <<>> /\ (Destroy \/ \E f \in Frames : Unwind(f) \/ AwaitResume(f))
FairSpec == Spec /\ WF_vars(Unwinding)
-----------------------------------------------------------------------------
(* Types. *)
TypeOK == /\ status \in [Frames -> Statuses]
          /\ rootOrLeaf_ \in [Frames -> Frames \cup {None}]
          /\ parent_ \in [Frames -> Frames \cup {None}]
          /\ exception_ \in [Frames -> Frames \cup {None}]
          /\ caught \subseteq Frames
          /\ value_ \in [Frames -> Frames \cup {None}]
          /\ child \in [Holders -> Frames \cup {None}]
          /\ stack \in Seq(Frames)
          /\ raising \in BOOLEAN

(* operator++ resumes the innermost coroutine of the generator, one that   *)
(* is alive and waits at a yield: never one that runs, is destroyed, has   *)
(* ended or waits for another.                                             *)
ResumesASuspendedFrame ==
    LET g == child[Executor]
    IN  Advances /\ g # None /\ status[g] \notin {"initial", "final"}
            => rootOrLeaf_[g] # None /\ status[rootOrLeaf_[g]] = "yielded"

(* A generator that waits for its reader: the operator or its adapter.     *)
Waits(g) == status[g] = "yielded" \/ (status[g] = "delegating" /\ status[child[g]] = "yielded")

(* operator*: while a reader may look at the value of a generator, that    *)
(* value was yielded by the generator or by one that it reads, directly or *)
(* through others, and the coroutine that yielded it is still suspended    *)
(* there: the object has not been destroyed.                               *)
ValuesAreAlive ==
    \A h \in Holders :
        LET g == child[h]
        IN  g # None /\ ~Adapts(g) /\ Waits(g)
            => value_[g] # None /\ value_[g] \in Held(g) /\ status[value_[g]] = "yielded"

(* Every frame is held by the consumer through the frames in between: what *)
(* the consumer destroys frees all of it, and with it the reader lock that *)
(* the coroutine of a query holds.                                         *)
NoFrameLeaks ==
    {f \in Frames : status[f] # "none"} =
        IF child[Consumer] = None THEN {} ELSE Held(child[Consumer])

(* An exception passes every coroutine between the one that threw it and   *)
(* the consumer, in whatever mix of loops and adapters: when it is over,   *)
(* none of them is left in the middle of its work, to be resumed or        *)
(* destroyed as if nothing had happened.                                   *)
Entered(f) == \/ status[f] \in {"advancing", "running"}
              \/ status[f] = "delegating" /\ status[child[f]] # "yielded"
ExceptionsPassEveryCoroutine == [][Pending /\ ~Pending' => \A f \in Frames : ~Entered(f)]_vars

(* It gets to the consumer.                                                *)
UnwindingEnds == Pending ~> stack = <<>>

(* A generator without adapters, whose operators read each other in loops, *)
(* is what readers and operators may believe in: `co_yield elements_of(g)` *)
(* means `for (auto const &v : g) co_yield v`.                             *)
Root(f) == IF Adapts(f) THEN parent_[f] ELSE f
LoopStatus == [f \in Frames |-> IF Adapts(f) THEN "none" ELSE IF status[f] # "delegating" THEN status[f]
                                ELSE IF status[child[f]] = "yielded" THEN "yielded" ELSE "running"]
LoopReads == [h \in Holders |-> IF Adapts(h) THEN None ELSE IF Adapts(child[h]) THEN child[child[h]] ELSE child[h]]
Resumed == [i \in DOMAIN stack |-> Root(stack[i])]
Abstract == INSTANCE Readers WITH status <- LoopStatus, reads <- LoopReads, value <- value_,
                                  resumed <- Resumed, raising <- Pending
IsLoopsOnly == Abstract!Spec
=============================================================================
