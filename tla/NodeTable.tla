------------------------------ MODULE NodeTable ------------------------------
(***************************************************************************)
(* What a node storage promises: a table that gives every value at most    *)
(* one id and every id at most one value, that never uses an id twice, and *)
(* whose calls each take effect at one instant.                            *)
(***************************************************************************)
CONSTANTS Thread, Value, Id, None

VARIABLES table,     \* the value of each id, or None
          used,      \* the ids ever given out
          request,   \* the call each thread is in, or None
          reply      \* what its last call returned

avars == <<table, used, request, reply>>

IdsOf(v) == {i \in Id : table[i] = v}

Request == [call : {"make", "find"}, value : Value] \cup [call : {"view", "erase"}, id : Id]

Init ==
    /\ table \in [Id -> Value \cup {None}]
    /\ used \in SUBSET Id
    /\ \A i \in Id : table[i] # None => i \in used
    /\ \A i, j \in Id : table[i] # None /\ table[i] = table[j] => i = j
    /\ request = [th \in Thread |-> None]
    /\ reply = [th \in Thread |-> None]

Ask(th) ==
    /\ request[th] = None
    /\ \E r \in Request : request' = [request EXCEPT ![th] = r]
    /\ reply' = [reply EXCEPT ![th] = None]
    /\ UNCHANGED <<table, used>>

Reply(th, r) ==
    /\ reply' = [reply EXCEPT ![th] = r]
    /\ request' = [request EXCEPT ![th] = None]

(* The id a value already has. *)
Find(th) ==
    /\ request[th] # None /\ request[th].call \in {"make", "find"}
    /\ \E i \in IdsOf(request[th].value) : Reply(th, i)
    /\ UNCHANGED <<table, used>>

Miss(th) ==
    /\ request[th] # None /\ request[th].call = "find"
    /\ IdsOf(request[th].value) = {}
    /\ Reply(th, None)
    /\ UNCHANGED <<table, used>>

(* A new id for a value that has none. *)
Make(th) ==
    /\ request[th] # None /\ request[th].call = "make"
    /\ IdsOf(request[th].value) = {}
    /\ \E i \in Id \ used :
          /\ table' = [table EXCEPT ![i] = request[th].value]
          /\ used' = used \cup {i}
          /\ Reply(th, i)

View(th) ==
    /\ request[th] # None /\ request[th].call = "view"
    /\ Reply(th, table[request[th].id])
    /\ UNCHANGED <<table, used>>

Erase(th) ==
    /\ request[th] # None /\ request[th].call = "erase"
    /\ table' = [table EXCEPT ![request[th].id] = None]
    /\ Reply(th, table[request[th].id] # None)
    /\ UNCHANGED used

Next == \E th \in Thread :
            Ask(th) \/ Find(th) \/ Miss(th) \/ Make(th) \/ View(th) \/ Erase(th)

Spec == Init /\ [][Next]_avars
=============================================================================
