---------------------------- MODULE SyncedLRUCache ----------------------------
(***************************************************************************)
(* SyncedLRUCache and its one user, TripleStore::parse_sparql_query: look  *)
(* a query up, parse it if it is not there, insert what was parsed.  Every *)
(* method of the cache holds its mutex throughout and is one step; between *)
(* the look-up and the insertion other threads look up and insert.         *)
(*                                                                         *)
(* A key is the text of a query, and its parse is written as the key       *)
(* itself.  The list's nodes have addresses, because the map's values are  *)
(* iterators into the list, and a freed address is used again.             *)
(***************************************************************************)
EXTENDS SequencesExt, Integers

CONSTANTS Thread,        \* threads that parse queries
          Key,           \* texts of well-formed queries
          Malformed,     \* texts the parser rejects
          MaxSize,       \* max_size_
          Elasticity,    \* elasticity_
          None,          \* no text, no result
          MaxCalls       \* bound: queries each thread parses

ASSUME ConstantsAssumption ==
    /\ MaxSize \in Nat /\ Elasticity \in Nat /\ MaxCalls \in Nat
    /\ Key \cap Malformed = {} /\ None \notin Key \cup Malformed

VARIABLES lru_list,      \* the nodes, the most recently used first
          cache,         \* for some keys, the address of a node
          text,          \* what each thread is parsing, or None
          result,        \* the query its last call returned, or None
          calls          \* calls made (bounded by MaxCalls)

vars == <<lru_list, cache, text, result, calls>>

Address == Nat \ {0}
Node == [at : Address, key : Key, value : Key]

MaxAllowedSize == MaxSize + Elasticity

Addresses(list) == {list[i].at : i \in DOMAIN list}
At(list, a) == CHOOSE i \in DOMAIN list : list[i].at = a
Fresh(list) == CHOOSE a \in 1 .. Len(list) + 1 : a \notin Addresses(list)

(* lru_list_.splice(begin, lru_list_, it) *)
MoveToFront(list, i) == <<list[i]>> \o RemoveAt(list, i)

(* cache_[key] = lru_list_.begin() *)
Assigned(map, k, address) == [x \in DOMAIN map \cup {k} |-> IF x = k THEN address ELSE map[x]]

Init ==
    /\ lru_list = <<>>
    /\ cache = <<>>
    /\ text = [th \in Thread |-> None]
    /\ result = [th \in Thread |-> None]
    /\ calls = [th \in Thread |-> 0]

-----------------------------------------------------------------------------
(* Removes nodes from the back, and the key of each from the map, until    *)
(* the map is back at its soft limit.                                      *)
LastKeys(list, n) == {list[i].key : i \in Len(list) - n + 1 .. Len(list)}

(* Mutants: the map keeps the keys of the nodes that are removed; nodes    *)
(* are counted, not keys; the list is emptied from the other end.          *)
PruneListOnly(list, map) ==
    IF MaxSize = 0 \/ Cardinality(DOMAIN map) < MaxAllowedSize
    THEN [list |-> list, map |-> map]
    ELSE [list |-> SubSeq(list, 1, MaxSize), map |-> map]
PruneToNodes(list, map) ==
    IF MaxSize = 0 \/ Cardinality(DOMAIN map) < MaxAllowedSize
    THEN [list |-> list, map |-> map]
    ELSE [list |-> SubSeq(list, 1, MaxSize), map |-> Restrict(map, DOMAIN map \ LastKeys(list, Len(list) - MaxSize))]
PruneFront(list, map) ==
    IF MaxSize = 0 \/ Cardinality(DOMAIN map) < MaxAllowedSize
    THEN [list |-> list, map |-> map]
    ELSE [list |-> Tail(list), map |-> Restrict(map, DOMAIN map \ {Head(list).key})]

Prune(list, map) ==
    IF MaxSize = 0 \/ Cardinality(DOMAIN map) < MaxAllowedSize
    THEN [list |-> list, map |-> map]
    ELSE LET Left(n) == DOMAIN map \ LastKeys(list, n)
             popped == Min({n \in 0 .. Len(list) : Cardinality(Left(n)) <= MaxSize})
         IN  [list |-> SubSeq(list, 1, Len(list) - popped), map |-> Restrict(map, Left(popped))]

-----------------------------------------------------------------------------
(* operator[]: a query that is there becomes the most recently used one. *)
Hit(th) ==
    /\ text[th] = None /\ calls[th] < MaxCalls
    /\ \E k \in DOMAIN cache :
          LET i == At(lru_list, cache[k])
          IN  /\ lru_list' = MoveToFront(lru_list, i)
              /\ result' = [result EXCEPT ![th] = [asked |-> k, value |-> lru_list[i].value]]
    /\ calls' = [calls EXCEPT ![th] = @ + 1]
    /\ UNCHANGED <<cache, text>>

Miss(th) ==
    /\ text[th] = None /\ calls[th] < MaxCalls
    /\ \E k \in (Key \cup Malformed) \ DOMAIN cache : text' = [text EXCEPT ![th] = k]
    /\ result' = [result EXCEPT ![th] = None]
    /\ calls' = [calls EXCEPT ![th] = @ + 1]
    /\ UNCHANGED <<lru_list, cache>>

(* Mutant: the caller of a parse that failed gets a query all the same. *)
ParseErrorReturning(th) ==
    /\ text[th] \in Malformed
    /\ text' = [text EXCEPT ![th] = None]
    /\ result' = [result EXCEPT ![th] = [asked |-> text[th], value |-> text[th]]]
    /\ UNCHANGED <<lru_list, cache, calls>>

(* SPARQLParser::parse_query throws. *)
ParseError(th) ==
    /\ text[th] \in Malformed
    /\ text' = [text EXCEPT ![th] = None]
    /\ UNCHANGED <<lru_list, cache, result, calls>>

(* Mutant: the node is the one before the new one. *)
InsertBehind(th) ==
    /\ text[th] \in Key
    /\ LET k == text[th]
           node == [at |-> Fresh(lru_list), key |-> k, value |-> k]
           list == <<node>> \o lru_list
           pruned == Prune(list, Assigned(cache, k, list[Min({2, Len(list)})].at))
       IN  /\ lru_list' = pruned.list
           /\ cache' = pruned.map
           /\ result' = [result EXCEPT ![th] = [asked |-> k, value |-> node.value]]
    /\ text' = [text EXCEPT ![th] = None]
    /\ UNCHANGED calls

(* insert: always a new node, also for a key that is there. *)
Insert(th) ==
    /\ text[th] \in Key
    /\ LET k == text[th]
           node == [at |-> Fresh(lru_list), key |-> k, value |-> k]
           pruned == Prune(<<node>> \o lru_list, Assigned(cache, k, node.at))
       IN  /\ lru_list' = pruned.list
           /\ cache' = pruned.map
           /\ result' = [result EXCEPT ![th] = [asked |-> k, value |-> node.value]]
    /\ text' = [text EXCEPT ![th] = None]
    /\ UNCHANGED calls

Clear ==
    /\ lru_list' = <<>>
    /\ cache' = <<>>
    /\ UNCHANGED <<text, result, calls>>

(* Every thread has made its calls. *)
Stop == (\A th \in Thread : text[th] = None /\ calls[th] = MaxCalls) /\ UNCHANGED vars

Next ==
    \/ Clear \/ Stop
    \/ \E th \in Thread : Hit(th) \/ Miss(th) \/ ParseError(th) \/ Insert(th)

Spec == Init /\ [][Next]_vars

-----------------------------------------------------------------------------
(* Every variable holds values of its kind. *)
TypeOK ==
    /\ lru_list \in Seq(Node)
    /\ DOMAIN cache \subseteq Key /\ IsFiniteSet(DOMAIN cache)
    /\ cache \in [DOMAIN cache -> Address]
    /\ text \in [Thread -> Key \cup Malformed \cup {None}]
    /\ \A th \in Thread : result[th] # None => result[th] \in [asked : Key, value : Key]
    /\ calls \in [Thread -> 0 .. MaxCalls]

(* No iterator in the map dangles: it leads to a node of its own key that  *)
(* is still in the list, whatever duplicates two threads that parsed the   *)
(* same query left there and whatever was pruned since.                    *)
NoDanglingEntry ==
    /\ \A i, j \in DOMAIN lru_list : lru_list[i].at = lru_list[j].at => i = j
    /\ \A k \in DOMAIN cache : \E i \in DOMAIN lru_list : lru_list[i].at = cache[k] /\ lru_list[i].key = k

(* A node holds the parse of its key, and the caller gets the parse of the *)
(* text it asked for, also if the entry it found was made by another       *)
(* thread.                                                                 *)
ResultIsTheParse ==
    /\ \A i \in DOMAIN lru_list : lru_list[i].value = lru_list[i].key
    /\ \A th \in Thread : result[th] # None => result[th].value = result[th].asked

(* A call leaves fewer keys than the hard limit; and an insertion loses no *)
(* key, or leaves at least as many as the soft limit allows, although the  *)
(* nodes it removes may be duplicates, whose keys went before or live on   *)
(* further to the front.                                                   *)
BelowHardLimit == MaxSize # 0 => Cardinality(DOMAIN cache) < Max({MaxAllowedSize, MaxSize + 1})
DownToSoftLimit(th) ==
    text[th] \in Key /\ text'[th] = None =>
        DOMAIN cache \subseteq DOMAIN cache' \/ Cardinality(DOMAIN cache') >= MaxSize
KeysWithinLimits == [][BelowHardLimit' /\ \A th \in Thread : DownToSoftLimit(th)]_vars

(* insert returns a reference into the list: the node it made outlives the *)
(* prune that follows.                                                     *)
InsertedNodeSurvives ==
    [][\A th \in Thread : text[th] \in Key /\ text'[th] = None =>
          lru_list' # <<>> /\ Head(lru_list').key = text[th]]_vars
=============================================================================
