------------------------------ MODULE CInterface ------------------------------
(***************************************************************************)
(* The C interface, tentris.h: threads that open, use and destroy one      *)
(* triple store, in memory or in a metall file, and what they are told.    *)
(*                                                                         *)
(* A call flushes the store under the exclusive lock, gives the lock up and *)
(* takes it again for its own work; each section is one step here, and the *)
(* calls of other threads come between them (TripleStore has the steps     *)
(* inside).  A query and an iteration are handles, objects in the memory   *)
(* of the client that keep the lock shared between two calls.  A client    *)
(* that holds a handle only advances or destroys it, does not advance one  *)
(* that failed or ended, and destroys it in the end; a store is destroyed  *)
(* when nobody uses it.                                                    *)
(***************************************************************************)
EXTENDS Naturals, Sequences, FiniteSets, Functions

CONSTANTS Clients,            \* threads
          Triples,
          Texts,              \* texts of parser messages
          MaxCounter,         \* max_time_out_counter_
          None

ASSUME NoneAssumption ==
    /\ None \notin Texts \cup Triples \cup {"query", "iterator", "syntax", "malformed", "unsupported"}
    /\ None \notin {"load", "size", "update", "where", "iterate", "open", "evaluate",
                    "add", "loading", "counting", "matching", "applying", "beginning", "opening"}

VARIABLES store,              \* "closed", or the kind of the open store
          named,              \* the named objects in the file
          trie, known,        \* per kind of store, the triples and what its node storage knows
          inserter,           \* inserter_ of the open store
          promised,           \* history: per kind, what was put in and not taken out since
          possible,           \* history: per kind, that and what may be back after it was taken out
          racing,             \* history: the statements added while a client's update runs
          readers,            \* who holds the lock shared
          call,               \* the section a client waits to enter, or is in
          handle,             \* the object behind a handle
          holds,              \* whether a client owns a handle, by what it was told
          freed,              \* how often the object of the handle was destroyed
          reply,              \* what the last call returned, with errno, error and why it failed
          local_msg_buf,      \* thread_local of populate_parse_error
          passed              \* whether the deadline of the handle is over

history == <<promised, possible, racing>>
storage == <<store, named, trie, known, inserter, history>>
replies == <<reply, local_msg_buf>>
handles == <<handle, holds, freed, passed>>
vars == <<storage, readers, call, handles, replies>>

Kinds == {"in_memory", "persistent"}
Order == <<"context", "hypertrie", "node-storage">>
Answer(result) ==
    [result |-> result, errno |-> None, discriminant |-> None, text |-> None, cause |-> None, message |-> None]
NoHandle == [kind |-> None]
Query(end) == [kind |-> "query", state |-> "prepared", end_time |-> end, counter |-> 0, late |-> 0]

Init ==
    /\ store = "closed" /\ named = {}
    /\ trie = [k \in Kinds |-> {}] /\ known = [k \in Kinds |-> {}] /\ inserter = {}
    /\ promised = [k \in Kinds |-> {}] /\ possible = [k \in Kinds |-> {}]
    /\ racing = [c \in Clients |-> {}]
    /\ readers = {}
    /\ call = [c \in Clients |-> None]
    /\ handle = [c \in Clients |-> NoHandle]
    /\ holds = [c \in Clients |-> FALSE]
    /\ freed = [c \in Clients |-> 1]
    /\ reply = Answer("none")
    /\ local_msg_buf = [c \in Clients |-> None]
    /\ passed = [c \in Clients |-> FALSE]

-----------------------------------------------------------------------------
(* What a call returns.                                                    *)
Reply(result) == reply' = Answer(result) /\ UNCHANGED local_msg_buf
Silently == Reply("none")
Fail(what, errno, discriminant) ==
    /\ reply' = [Answer("FAILURE") EXCEPT !.errno = errno, !.discriminant = discriminant, !.cause = what]
    /\ UNCHANGED local_msg_buf

(* populate_parse_error: an exception of the parser and its message.       *)
ParseErrors == {"syntax", "malformed", "unsupported"}
Discriminant(what) ==
    CASE what = "unsupported" -> "UNSUPPORTED_QUERY"
      [] what = "malformed" -> "MALFORMED_QUERY"
      [] OTHER -> "PARSE_ERROR"
BufferedEarlier(c, text) == local_msg_buf[c]               \* mutant: read before it is filled
Buffered(c, text) == IF local_msg_buf[c] = None THEN text ELSE local_msg_buf[c]
FailToParse(c, what, text) ==
    /\ local_msg_buf' = [local_msg_buf EXCEPT ![c] = Buffered(c, text)]
    /\ reply' = [Answer("FAILURE") EXCEPT !.errno = "EINVAL", !.discriminant = Discriminant(what),
                    !.text = Buffered(c, text), !.cause = what, !.message = text]

-----------------------------------------------------------------------------
(* The store itself.                                                       *)
Idle(c) == call[c] = None /\ ~holds[c]
Unused == \A c \in Clients : Idle(c)

InitInMemory(c) ==
    /\ store = "closed" /\ store' = "in_memory" /\ Reply("SUCCESS")
    /\ UNCHANGED <<named, trie, known, inserter, history, readers, call, handles>>

(* The named objects are found or constructed in their order; one that is  *)
(* to be constructed may not fit.                                          *)
ConstructedTrieFirst(n) ==                                 \* mutant: another order
    Range(SubSeq(<<"hypertrie", "context", "node-storage">>, 1, n))
Constructed(n) == Range(SubSeq(Order, 1, n))
FindOrConstructPersistent(c) ==
    /\ store = "closed"
    /\ \E n \in 0 .. Len(Order) :
          /\ named' = named \cup Constructed(n)
          /\ IF n = Len(Order)
             THEN store' = "persistent" /\ Reply("SUCCESS")
             ELSE Order[n + 1] \notin named /\ store' = store /\ Fail("no_memory", "ENOMEM", None)
    /\ UNCHANGED <<trie, known, inserter, history, readers, call, handles>>

(* ~TripleStore; what is in memory is deleted.                             *)
Destroy(c) ==
    /\ store # "closed" /\ Unused
    /\ trie' = [trie EXCEPT ![store] = IF store = "in_memory" THEN {} ELSE @ \cup inserter]
    /\ known' = [known EXCEPT ![store] = IF store = "in_memory" THEN {} ELSE @]
    /\ promised' = [promised EXCEPT ![store] = IF store = "in_memory" THEN {} ELSE @]
    /\ possible' = [possible EXCEPT ![store] = IF store = "in_memory" THEN {} ELSE @]
    /\ inserter' = {}
    /\ store' = "closed"
    /\ Reply("SUCCESS")
    /\ UNCHANGED <<named, racing, readers, call, handles>>

(* destroy of each name, up to the first one that is not there.            *)
Destroyed == CASE "hypertrie" \notin named -> {}
               [] "context" \notin named -> {"hypertrie"}
               [] OTHER -> {"hypertrie", "context", "node-storage"}
AllDestroyed == Range(Order) \subseteq named
DestroyPersistent(c) ==
    /\ store # "persistent" /\ Idle(c)
    /\ named' = named \ Destroyed
    /\ trie' = [trie EXCEPT !["persistent"] = IF "hypertrie" \in Destroyed THEN {} ELSE @]
    /\ known' = [known EXCEPT !["persistent"] = IF "node-storage" \in Destroyed THEN {} ELSE @]
    /\ IF AllDestroyed
       THEN /\ promised' = [promised EXCEPT !["persistent"] = {}]
            /\ possible' = [possible EXCEPT !["persistent"] = {}]
            /\ Reply("SUCCESS")
       ELSE UNCHANGED <<promised, possible>> /\ Fail("not_found", None, None)     \* errno is left alone
    /\ UNCHANGED <<store, inserter, racing, readers, call, handles>>

-----------------------------------------------------------------------------
(* Calls that change or count the triples: errors before the lock, ...     *)
Begin(c, op) ==
    /\ store # "closed" /\ Idle(c)
    /\ call' = [call EXCEPT ![c] = op]
    /\ Silently
    /\ UNCHANGED <<storage, readers, handles>>
LoadUnreadable(c) ==                                       \* errno of open
    /\ store # "closed" /\ Idle(c)
    /\ Fail("no_file", "ENOENT", None)
    /\ UNCHANGED <<storage, readers, call, handles>>
UpdateUnparsable(c) ==
    /\ store # "closed" /\ Idle(c)
    /\ \/ \E what \in ParseErrors, text \in Texts : FailToParse(c, what, text)
       \/ Fail("composed", "EINVAL", "UNSUPPORTED_QUERY")
       \/ Fail("internal", "ENOTRECOVERABLE", "INTERNAL")
    /\ UNCHANGED <<storage, readers, call, handles>>

(* ... the flush, after which an update without data evaluates its WHERE   *)
(* clause as a query, which flushes again, ...                             *)
AfterFlush == [load |-> {"loading"}, size |-> {"counting"}, update |-> {"applying", "where"},
               where |-> {"matching"}, iterate |-> {"beginning"}, open |-> {"opening"}]
FlushNothing(c) ==                                         \* mutant: the pending statements stay
    /\ call[c] \in DOMAIN AfterFlush /\ readers = {}
    /\ \E section \in AfterFlush[call[c]] : call' = [call EXCEPT ![c] = section]
    /\ Silently
    /\ UNCHANGED <<storage, readers, handles>>
Flush(c) ==
    /\ call[c] \in DOMAIN AfterFlush /\ readers = {}
    /\ trie' = [trie EXCEPT ![store] = @ \cup inserter]
    /\ inserter' = {}
    /\ \E section \in AfterFlush[call[c]] : call' = [call EXCEPT ![c] = section]
    /\ Silently
    /\ UNCHANGED <<store, named, known, history, readers, handles>>

(* ... and the work, under the lock taken again.                           *)
Enter(c, section) == call[c] = section /\ readers = {} /\ call' = [call EXCEPT ![c] = None]
Return(c, section) == call[c] = section /\ call' = [call EXCEPT ![c] = None]
Recorded(c, removed, inserted) ==
    /\ promised' = [promised EXCEPT ![store] = (@ \ removed) \cup inserted]
    /\ possible' = [possible EXCEPT ![store] = (@ \ (removed \ racing[c])) \cup inserted]
    /\ racing' = [racing EXCEPT ![c] = {}]
ApplyClearing(c, removed, inserted) ==                     \* mutant: the inserter is emptied, too
    /\ trie' = [trie EXCEPT ![store] = (@ \ removed) \cup inserted]
    /\ known' = [known EXCEPT ![store] = @ \cup inserted]
    /\ inserter' = {} /\ Recorded(c, removed, inserted)
    /\ UNCHANGED <<store, named>>
Apply(c, removed, inserted) ==
    /\ trie' = [trie EXCEPT ![store] = (@ \ removed) \cup inserted]
    /\ known' = [known EXCEPT ![store] = @ \cup inserted]
    /\ Recorded(c, removed, inserted)
    /\ UNCHANGED <<store, named, inserter>>

LoadTtl(c) ==
    /\ Enter(c, "loading") /\ (\E ts \in SUBSET Triples : Apply(c, {}, ts)) /\ Reply("SUCCESS")
    /\ UNCHANGED <<readers, handles>>
(* The bulk inserter commits what it holds when its bulk is full.          *)
Updates(c) == call[c] \in {"update", "where", "matching", "applying"}
AddStatement(c) ==
    /\ Enter(c, "add")
    /\ \E t \in Triples :
          /\ \/ inserter' = inserter \cup {t} /\ UNCHANGED trie
             \/ inserter' = {} /\ trie' = [trie EXCEPT ![store] = @ \cup inserter \cup {t}]
          /\ known' = [known EXCEPT ![store] = @ \cup {t}]
          /\ promised' = [promised EXCEPT ![store] = @ \cup {t}]
          /\ possible' = [possible EXCEPT ![store] = @ \cup {t}]
          /\ racing' = [d \in Clients |-> IF Updates(d) THEN racing[d] \cup {t} ELSE racing[d]]
    /\ Reply("SUCCESS")
    /\ UNCHANGED <<store, named, readers, handles>>
Size(c) ==
    /\ Return(c, "counting") /\ Reply("SUCCESS")
    /\ UNCHANGED <<storage, readers, handles>>
(* The WHERE clause of an update, under the shared lock.                   *)
Match(c) ==
    /\ call[c] = "matching" /\ call' = [call EXCEPT ![c] = "applying"]
    /\ Silently
    /\ UNCHANGED <<storage, readers, handles>>
MatchFails(c) ==
    /\ Return(c, "matching")
    /\ Fail("timeout", "ETIMEDOUT", "TIMEOUT") \/ Fail("internal", "ENOTRECOVERABLE", "INTERNAL")
    /\ racing' = [racing EXCEPT ![c] = {}]
    /\ UNCHANGED <<store, named, trie, known, inserter, promised, possible, readers, handles>>
EvalUpdate(c) ==
    /\ Enter(c, "applying")
    /\ \E removed, inserted \in SUBSET Triples : Apply(c, removed, inserted)
    /\ Reply("SUCCESS")
    /\ UNCHANGED <<readers, handles>>

-----------------------------------------------------------------------------
(* Queries.  The object is constructed in the memory of the client first.  *)
EvalQuery(c) ==
    /\ store # "closed" /\ Idle(c)
    /\ \E end \in {"deadline", "max"} : handle' = [handle EXCEPT ![c] = Query(end)]
    /\ freed' = [freed EXCEPT ![c] = 0] /\ holds' = [holds EXCEPT ![c] = TRUE]
    /\ passed' = [passed EXCEPT ![c] = FALSE]
    /\ Reply("SUCCESS")
    /\ UNCHANGED <<storage, readers, call>>
EvalQueryFails(c) ==
    /\ store # "closed" /\ Idle(c)
    /\ freed' = [freed EXCEPT ![c] = 1]
    /\ \/ \E what \in ParseErrors, text \in Texts : FailToParse(c, what, text)
       \/ Fail("internal", "ENOTRECOVERABLE", "INTERNAL")
    /\ UNCHANGED <<storage, readers, call, handle, holds, passed>>

DeadlinePasses(c) ==
    /\ handle[c].kind = "query" /\ handle[c].end_time = "deadline" /\ ~passed[c]
    /\ passed' = [passed EXCEPT ![c] = TRUE]
    /\ Silently
    /\ UNCHANGED <<storage, readers, call, handle, holds, freed>>

(* eval_sparql_query of the query: what its EvaluationContext has as end.   *)
EndTimeOfHandle(c) == handle[c].end_time                   \* mutant: the deadline is passed on
EndTime(c) == "max"
HasTimeOut(c) == EndTime(c) = "deadline"
MustStop(c) == HasTimeOut(c) /\ handle[c].counter > MaxCounter /\ passed[c]

IsQuery(c, states) == handle[c].kind = "query" /\ handle[c].state \in states
Next1(c) ==                                                \* the first call evaluates
    /\ holds[c] /\ call[c] = None /\ IsQuery(c, {"prepared"})
    /\ call' = [call EXCEPT ![c] = "open"]
    /\ Silently
    /\ UNCHANGED <<storage, readers, handles>>
Open(c) ==
    /\ call[c] = "opening" /\ call' = [call EXCEPT ![c] = "evaluate"]
    /\ readers' = readers \cup {c}
    /\ handle' = [handle EXCEPT ![c].state = "first"]
    /\ Silently
    /\ UNCHANGED <<storage, holds, freed, passed>>
NextN(c) ==
    /\ holds[c] /\ call[c] = None /\ IsQuery(c, {"suspended"})
    /\ call' = [call EXCEPT ![c] = "evaluate"]
    /\ Silently
    /\ UNCHANGED <<storage, readers, handles>>

(* An operator passes check_time_out.                                      *)
Work(c) ==
    /\ call[c] = "evaluate" /\ ~MustStop(c)
    /\ handle[c].late <= MaxCounter + 2                    \* bound
    /\ handle' = [handle EXCEPT
          ![c].counter = IF ~HasTimeOut(c) THEN @ ELSE IF @ > MaxCounter THEN 0 ELSE @ + 1,
          ![c].late = IF passed[c] THEN @ + 1 ELSE 0]
    /\ Silently
    /\ UNCHANGED <<storage, readers, call, holds, freed, passed>>
Stops(c, state) ==
    /\ readers' = readers \ {c}
    /\ handle' = [handle EXCEPT ![c].state = state]
Yielded(c) ==
    /\ call[c] = "evaluate" /\ call' = [call EXCEPT ![c] = None]
    /\ handle' = [handle EXCEPT ![c].state = "suspended"]
    /\ Reply("YIELDED")
    /\ UNCHANGED <<storage, readers, holds, freed, passed>>
Ended(c) ==                                                \* the coroutine ran to its end
    /\ call[c] = "evaluate" /\ call' = [call EXCEPT ![c] = None]
    /\ Stops(c, "ended") /\ Reply("ENDED")
    /\ UNCHANGED <<storage, holds, freed, passed>>
(* An exception leaves the evaluation.  The first call catches every one   *)
(* and destroys the object after a timeout; later calls catch timeouts and *)
(* let the others through to the client.                                   *)
Throws(what) ==
    /\ reply' = [Answer("thrown") EXCEPT !.cause = what]
    /\ UNCHANGED local_msg_buf
Exceptions(c) == {"internal"} \cup (IF MustStop(c) THEN {"timeout"} ELSE {})
Raised(c) ==
    /\ call[c] = "evaluate" /\ call' = [call EXCEPT ![c] = None]
    /\ \E what \in Exceptions(c) :
          IF what = "timeout"
          THEN /\ freed' = [freed EXCEPT ![c] = IF handle[c].state = "first" THEN @ + 1 ELSE @]
               /\ Fail(what, "ETIMEDOUT", "TIMEOUT")
          ELSE /\ UNCHANGED freed
               /\ IF handle[c].state = "first" THEN Fail(what, "ENOTRECOVERABLE", "INTERNAL") ELSE Throws(what)
    /\ Stops(c, "failed")
    /\ UNCHANGED <<storage, holds, passed>>

-----------------------------------------------------------------------------
(* Iterations: the iterator stands on a triple, or behind the last one.    *)
Advanced(it) ==
    IF it.todo = {} THEN {[it EXCEPT !.at = None]}
    ELSE {[it EXCEPT !.at = t, !.todo = @ \ {t}] : t \in it.todo}
Iterate(c) ==
    /\ Return(c, "beginning")
    /\ readers' = readers \cup {c}
    /\ \E it \in Advanced([kind |-> "iterator", first |-> TRUE, at |-> None, todo |-> trie[store], given |-> <<>>]) :
          handle' = [handle EXCEPT ![c] = it]
    /\ freed' = [freed EXCEPT ![c] = 0] /\ holds' = [holds EXCEPT ![c] = TRUE]
    /\ Reply("SUCCESS")
    /\ UNCHANGED <<storage, passed>>
MovedAlways(it) == Advanced([it EXCEPT !.first = FALSE])   \* mutant: the first call moves, too
Moved(it) == IF it.first THEN {[it EXCEPT !.first = FALSE]} ELSE Advanced(it)
HasEnded(it) == it.at = None /\ ~it.first
IteratorNext(c) ==
    /\ holds[c] /\ handle[c].kind = "iterator" /\ ~HasEnded(handle[c])
    /\ \E it \in Moved(handle[c]) :
          IF it.at = None
          THEN handle' = [handle EXCEPT ![c] = it] /\ Reply("ENDED")
          ELSE handle' = [handle EXCEPT ![c] = [it EXCEPT !.given = Append(@, it.at)]] /\ Reply("YIELDED")
    /\ UNCHANGED <<storage, readers, call, holds, freed, passed>>

(* Destruction of a handle, with the lock it may have.                     *)
FreedKeeping(c) ==                                         \* mutant: the coroutine is not destroyed
    /\ freed' = [freed EXCEPT ![c] = @ + 1]
    /\ readers' = IF handle[c].kind = "query" THEN readers ELSE readers \ {c}
Freed(c) ==
    /\ freed' = [freed EXCEPT ![c] = @ + 1]
    /\ readers' = readers \ {c}
DestroyHandle(c) ==
    /\ holds[c] /\ call[c] = None
    /\ Freed(c)
    /\ holds' = [holds EXCEPT ![c] = FALSE] /\ handle' = [handle EXCEPT ![c] = NoHandle]
    /\ passed' = [passed EXCEPT ![c] = FALSE]
    /\ Reply("none")
    /\ UNCHANGED <<storage, call>>

Next == \E c \in Clients :
    \/ InitInMemory(c) \/ FindOrConstructPersistent(c) \/ Destroy(c) \/ DestroyPersistent(c)
    \/ \E op \in {"load", "add", "size", "update", "iterate"} : Begin(c, op)
    \/ LoadUnreadable(c) \/ UpdateUnparsable(c)
    \/ Flush(c) \/ LoadTtl(c) \/ AddStatement(c) \/ Size(c) \/ Match(c) \/ MatchFails(c) \/ EvalUpdate(c)
    \/ EvalQuery(c) \/ EvalQueryFails(c) \/ DeadlinePasses(c) \/ Next1(c) \/ Open(c) \/ NextN(c)
    \/ Work(c) \/ Yielded(c) \/ Ended(c) \/ Raised(c)
    \/ Iterate(c) \/ IteratorNext(c) \/ DestroyHandle(c)

Spec == Init /\ [][Next]_vars
-----------------------------------------------------------------------------
(* Sections under the exclusive lock wait for those who have it shared;    *)
(* the others never wait, for an exclusive section is one step.            *)
Waits == DOMAIN AfterFlush \cup {"add", "loading", "applying"}
Sections == Waits \cup {"counting", "matching", "beginning", "opening", "evaluate"}
(* Types. *)
TypeOK ==
    /\ store \in Kinds \cup {"closed"} /\ named \subseteq Range(Order)
    /\ trie \in [Kinds -> SUBSET Triples] /\ known \in [Kinds -> SUBSET Triples] /\ inserter \subseteq Triples
    /\ promised \in [Kinds -> SUBSET Triples] /\ possible \in [Kinds -> SUBSET Triples]
    /\ racing \in [Clients -> SUBSET Triples]
    /\ readers \subseteq Clients
    /\ call \in [Clients -> Sections \cup {None}]
    /\ \A c \in Clients : handle[c].kind \in {"query", "iterator", None}
    /\ holds \in [Clients -> BOOLEAN] /\ freed \in [Clients -> Nat] /\ passed \in [Clients -> BOOLEAN]
    /\ reply.cause \in ParseErrors => reply.text \in Texts
    /\ reply.result \in {"none", "SUCCESS", "FAILURE", "YIELDED", "ENDED", "thrown"}
    /\ local_msg_buf \in [Clients -> Texts \cup {None}]

(* The object behind a handle is destroyed once, by the library when it    *)
(* reports that there is no handle and by the client when there is one,    *)
(* whatever fails in between.                                              *)
HandlesAreDestroyedOnce == \A c \in Clients : freed[c] = IF holds[c] THEN 0 ELSE 1

(* No call waits for a lock that its own client keeps, or that is kept by  *)
(* one who waits as well or has nothing left to destroy: whoever keeps it  *)
(* can go on and give it back.                                             *)
WaitersWaitForAHandle ==
    \A c \in Clients : call[c] \in Waits /\ readers # {} =>
        \E d \in readers : holds[d] /\ call[d] \notin Waits

(* An iteration that has ended gave each triple of the store once.         *)
IteratorsGiveEveryTriple ==
    \A c \in Clients : handle[c].kind = "iterator" /\ HasEnded(handle[c]) =>
        /\ Range(handle[c].given) = trie[store]
        /\ Len(handle[c].given) = Cardinality(trie[store])

Contents(k) == trie[k] \cup (IF store = k THEN inserter ELSE {})
(* What clients put into a store and did not take out is in it or waits to *)
(* be flushed, also what other threads add between the flush of an update  *)
(* and its exclusive section, and when a persistent store was closed and   *)
(* opened again or could not be opened.                                    *)
NothingIsLost == \A k \in Kinds : promised[k] \subseteq Contents(k)

(* What an update took out does not come back from the bulk inserter,      *)
(* except what was added while the update ran (in the code as if it had    *)
(* been added after it); a store that was destroyed comes back empty.      *)
NothingComesBack == \A k \in Kinds : Contents(k) \subseteq possible[k]

(* Whatever opening or destroying left in the file can be opened: a trie   *)
(* has its context, and a trie with triples a node storage that knows them.*)
PersistentObjectsAreWhole ==
    /\ "hypertrie" \in named => "context" \in named
    /\ trie["persistent"] # {} => named = Range(Order)
    /\ trie["persistent"] \subseteq known["persistent"]

(* Every error is told by the result, with the errno and the discriminant  *)
(* that tentris.h lists for its cause.                                     *)
Documented(what) ==
    CASE what = "no_memory" -> <<"ENOMEM", None>>
      [] what = "no_file" -> <<"ENOENT", None>>
      [] what = "not_found" -> <<"EINVAL", None>>
      [] what = "timeout" -> <<"ETIMEDOUT", "TIMEOUT">>
      [] what = "internal" -> <<"ENOTRECOVERABLE", "INTERNAL">>
      [] what = "syntax" -> <<"EINVAL", "PARSE_ERROR">>
      [] what = "malformed" -> <<"EINVAL", "MALFORMED_QUERY">>
      [] OTHER -> <<"EINVAL", "UNSUPPORTED_QUERY">>
ErrorsAreTold ==
    reply.cause # None =>
        reply.result = "FAILURE" /\ <<reply.errno, reply.discriminant>> = Documented(reply.cause)

(* "populates error": the message is the one of the error reported.        *)
ErrorTextIsOfThisError == reply.text = reply.message

(* "timeout_ms timeout for the evaluation": when it is over, the operators *)
(* pass check_time_out only as often as the counter allows.                *)
EvaluationsTimeOut ==
    \A c \in Clients : handle[c].kind = "query" => handle[c].late <= MaxCounter + 2
=============================================================================
