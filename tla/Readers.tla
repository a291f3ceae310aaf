-------------------------------- MODULE Readers --------------------------------
(***************************************************************************)
(* What a generator is to the one who reads it and to its operators: loops. *)
(* An operator is a coroutine that runs when its reader asks for a value,  *)
(* reads at most one other operator while it runs, and yields to its       *)
(* reader an object of its own or the one that it reads.  An exception     *)
(* leaves the coroutines one by one, each to its reader.                   *)
(***************************************************************************)
EXTENDS Naturals, Sequences

CONSTANTS Frames, Consumer, None

VARIABLES status, reads, value, resumed, raising
vars == <<status, reads, value, resumed, raising>>

Holders == Frames \cup {Consumer}
Reader == IF resumed = <<>> THEN Consumer ELSE resumed[Len(resumed)]
ButLast(s) == SubSeq(s, 1, Len(s) - 1)

Init == /\ status = [f \in Frames |-> "none"]
        /\ reads = [h \in Holders |-> None]
        /\ value = [f \in Frames |-> None]
        /\ resumed = <<>>
        /\ raising = FALSE

Start(f) == /\ ~raising /\ status[f] = "none" /\ reads[Reader] = None
            /\ status' = [status EXCEPT ![f] = "initial"]
            /\ reads' = [reads EXCEPT ![Reader] = f]
            /\ value' = [value EXCEPT ![f] = None]
            /\ UNCHANGED <<resumed, raising>>

Resume(f) == /\ ~raising /\ f = reads[Reader] /\ status[f] \in {"initial", "yielded"}
             /\ status' = [status EXCEPT ![f] = "running"]
             /\ resumed' = Append(resumed, f)
             /\ UNCHANGED <<reads, value, raising>>

Yield(f, o) == /\ ~raising /\ f = Reader /\ status[f] = "running"
               /\ o = f \/ (reads[f] # None /\ status[reads[f]] = "yielded" /\ o = value[reads[f]])
               /\ status' = [status EXCEPT ![f] = "yielded"]
               /\ value' = [value EXCEPT ![f] = o]
               /\ resumed' = ButLast(resumed)
               /\ UNCHANGED <<reads, raising>>

(* The end, also by an exception, which stays in flight. *)
Leave(f) == /\ f = Reader /\ status[f] = "running" /\ reads[f] = None
            /\ status' = [status EXCEPT ![f] = "final"]
            /\ resumed' = ButLast(resumed)
            /\ UNCHANGED <<reads, value, raising>>

Throw == ~raising /\ resumed # <<>> /\ raising' = TRUE /\ UNCHANGED <<status, reads, value, resumed>>
Catch == raising /\ resumed = <<>> /\ raising' = FALSE /\ UNCHANGED <<status, reads, value, resumed>>

(* A reader drops what it reads, and with it everything that is read for it. *)
Destroy(fs) ==
    /\ reads[Reader] \in fs
    /\ \A f \in fs : status[f] # "running" /\ (reads[f] # None => reads[f] \in fs)
    /\ \A h \in Holders : reads[h] \in fs => h = Reader \/ h \in fs
    /\ status' = [f \in Frames |-> IF f \in fs THEN "none" ELSE status[f]]
    /\ reads' = [h \in Holders |-> IF h = Reader \/ h \in fs THEN None ELSE reads[h]]
    /\ value' = [f \in Frames |-> IF f \in fs THEN None ELSE value[f]]
    /\ UNCHANGED <<resumed, raising>>

Next == \/ Throw \/ Catch
        \/ \E f \in Frames : Start(f) \/ Resume(f) \/ Leave(f)
        \/ \E f, o \in Frames : Yield(f, o)
        \/ \E fs \in SUBSET Frames : Destroy(fs)
Spec == Init /\ [][Next]_vars
=============================================================================
