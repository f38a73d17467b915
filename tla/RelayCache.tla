----------------------------- MODULE RelayCache -----------------------------
(***************************************************************************)
(* mo_hg.relay.cache.Cache: requests for a path share one fetch from the   *)
(* server.  The first request reserves the path, looks in the database,    *)
(* and if that fails leaves a task for the workers; a rate limiter passes  *)
(* the tasks on.  The database outlives the process, the cache does not.   *)
(*                                                                         *)
(* A request is known by its path and its step, for any number of them may *)
(* be at the same step.  A response is bytes, and in the database it is a  *)
(* text, with a character for each byte.  Headers, the method and the      *)
(* timestamps are left out, and so is the cleaner: it fails the first time *)
(* that it finds a path in the cache, and removes nothing.                 *)
(***************************************************************************)
EXTENDS Integers, Sequences, FiniteSets

CONSTANTS Paths,
          Cacheable,     \* the paths that please_cache() accepts
          NonAscii,      \* the paths whose responses have bytes of 128 and more
          Workers,
          Max,           \* requests.max, the rate
          Period,        \* amortization_period
          MaxSharing,    \* bound, for each path: requests that wait for the fetch of another
          MaxFaults      \* bound: crashes of the process, fetches, inserts and lookups
                         \* that fail, threads told to stop

ASSUME RelayAssumption ==
  /\ Cacheable \subseteq Paths /\ NonAscii \subseteq Paths
  /\ Max \in Nat \ {0} /\ Period \in Nat \ {0} /\ MaxSharing \in [Paths -> Nat]
  /\ MaxFaults \in Nat

CONSTANTS Absent, Reserved,    \* no entry in the cache; an entry without a response
          Limiter              \* the thread of the rate limiter

Responses == 0 .. MaxFaults   \* the server has a new answer after each crash

\* what is sent to a client: the bytes of a response, or its text, which flask encodes
Bodies == [response : Responses, coding : {"bytes", "utf8"}]

ASSUME NamesAssumption ==
  /\ Absent \notin Paths
  /\ Absent # Reserved /\ Absent \notin Responses /\ Reserved \notin Responses

VARIABLES
  cache,      \* Cache.cache: Absent, Reserved, or the response
  ready,      \* the paths whose signal `ready` is gone
  db,         \* the table of the database, Absent where it has no row
  todo,       \* Cache.todo
  requests,   \* Cache.requests
  lookup,     \* paths that a request has reserved and looks up
  waiting,    \* how many requests wait for the signal of a path
  limiter,    \* the rate limiter
  recent,     \* its recent_requests, as ages
  worker,     \* worker[w]: its place, and the path in its hands
  told,       \* the threads whose please_stop is gone
  passed,     \* ages of what the limiter has passed on in the last period
  answers,    \* what requests were answered, for each path
  broken,     \* paths with a failed lookup
  crashes, faults

history == <<answers, crashes>>
clientVars == <<lookup, waiting>>
limiterVars == <<limiter, recent, passed>>
vars == <<cache, ready, db, todo, requests, lookup, waiting, limiter, recent, worker, told,
          passed, answers, broken, crashes, faults>>

\* a thread that is "dead" has failed, one that is "ended" was told to stop
LimiterRecords == [at : {"top", "pop", "add", "dead", "ended"}, left : 0 .. Max,
                   hand : Paths \cup {Absent}]
WorkerRecords == [at : {"pop", "send", "store", "publish", "dead", "ended"},
                  hand : Paths \cup {Absent}]

\* the queue of requests is within its limit, and so is what the limiter remembers
RelayTypeOK ==
  /\ cache \in [Paths -> {Absent, Reserved} \cup Responses]
  /\ ready \subseteq Paths
  /\ db \in [Paths -> {Absent} \cup Responses]
  /\ todo \in Seq(Paths)
  /\ requests \in Seq(Paths) /\ Len(requests) <= Max
  /\ lookup \subseteq Paths
  /\ waiting \in [Paths -> Nat]
  /\ limiter \in LimiterRecords
  /\ recent \in Seq(0 .. Period) /\ Len(recent) <= Max
  /\ worker \in [Workers -> WorkerRecords]
  /\ told \subseteq Workers \cup {Limiter}
  /\ passed \in Seq(0 .. Period)
  /\ answers \in [Paths -> SUBSET Bodies]
  /\ broken \subseteq Paths
  /\ crashes \in 0 .. MaxFaults
  /\ faults \in 0 .. MaxFaults

Idle == [at |-> "pop", hand |-> Absent]

\* a new process
Started ==
  [cache |-> [p \in Paths |-> Absent], waiting |-> [p \in Paths |-> 0],
   limiter |-> [at |-> "top", left |-> 0, hand |-> Absent],
   worker |-> [w \in Workers |-> Idle]]

Init ==
  /\ cache = Started.cache /\ waiting = Started.waiting
  /\ limiter = Started.limiter /\ worker = Started.worker
  /\ ready = {} /\ todo = <<>> /\ requests = <<>> /\ lookup = {} /\ recent = <<>>
  /\ told = {} /\ passed = <<>> /\ broken = {} /\ faults = 0
  /\ db = [p \in Paths |-> Absent]
  /\ answers = [p \in Paths |-> {}]
  /\ crashes = 0

-----------------------------------------------------------------------------
(* request()                                                               *)

\* fault: an entry without a response is taken for none
MissingResponse(p) == cache[p] \in {Absent, Reserved}

Missing(p) == cache[p] = Absent

\* the path is not in the cache: reserve it
Reserve(p) ==
  /\ Missing(p)
  /\ cache' = [cache EXCEPT ![p] = Reserved]
  /\ lookup' = lookup \cup {p}
  /\ UNCHANGED <<ready, db, todo, requests, waiting, limiterVars, worker, told, history, broken,
                 faults>>

\* another request has reserved it: wait for its signal
Share(p) ==
  /\ cache[p] = Reserved /\ p \notin ready
  /\ waiting[p] < MaxSharing[p]
  /\ waiting' = [waiting EXCEPT ![p] = @ + 1]
  /\ UNCHANGED <<cache, ready, db, todo, requests, lookup, limiterVars, worker, told, history,
                 broken, faults>>

\* Response(response), where the response is bytes
OfBytes(r) == [response |-> r, coding |-> "bytes"]

\* Response(response), where it is the text decoded from latin1: in UTF-8 a character of 128
\* and more is two bytes, the others are what they were
OfText(p, r) == [response |-> r, coding |-> IF p \in NonAscii THEN "utf8" ELSE "bytes"]

Answer(p) ==
  answers' = IF cache[p] \in Responses THEN [answers EXCEPT ![p] = @ \cup {OfBytes(cache[p])}]
             ELSE answers    \* json.loads(None) raises: an error 400

\* a response is there, or there will never be one
Serve(p) ==
  /\ cache[p] \in Responses \/ (cache[p] = Reserved /\ p \in ready)
  /\ Answer(p)
  /\ UNCHANGED <<cache, ready, db, todo, requests, clientVars, limiterVars, worker, told, broken,
                 crashes, faults>>

\* ready.go()
\* fault: it is forgotten
GoNot(p) == UNCHANGED ready

Go(p) == ready' = ready \cup {p}

\* the database has the response: the cache gets the bytes again, the client the text
LookupHit(p) ==
  /\ p \in lookup
  /\ db[p] # Absent
  /\ lookup' = lookup \ {p}
  /\ cache' = [cache EXCEPT ![p] = db[p]]
  /\ Go(p)
  /\ answers' = [answers EXCEPT ![p] = @ \cup {OfText(p, db[p])}]
  /\ UNCHANGED <<db, todo, requests, waiting, limiterVars, worker, told, broken, crashes,
                 faults>>

\* it has not: leave a task for the workers and wait
LookupMiss(p) ==
  /\ p \in lookup
  /\ db[p] = Absent
  /\ lookup' = lookup \ {p}
  /\ todo' = Append(todo, p)
  /\ waiting' = [waiting EXCEPT ![p] = @ + 1]
  /\ UNCHANGED <<cache, ready, db, requests, limiterVars, worker, told, history, broken, faults>>

\* the database raises: the request ends with an error, the reservation stays
LookupFails(p) ==
  /\ p \in lookup
  /\ faults < MaxFaults
  /\ faults' = faults + 1
  /\ lookup' = lookup \ {p}
  /\ broken' = broken \cup {p}
  /\ UNCHANGED <<cache, ready, db, todo, requests, waiting, limiterVars, worker, told, history>>

\* ready.wait() returns, and the entry is read again
Wake(p) ==
  /\ p \in ready
  /\ waiting[p] > 0
  /\ waiting' = [waiting EXCEPT ![p] = @ - 1]
  /\ Answer(p)
  /\ UNCHANGED <<cache, ready, db, todo, requests, lookup, limiterVars, worker, told, broken,
                 crashes, faults>>

-----------------------------------------------------------------------------
(* _rate_limiter()                                                         *)

\* the times that are not too old: they are in order, so those that are come first
Fresh(ages) ==
  SubSeq(ages, Cardinality({k \in DOMAIN ages : ages[k] >= Period}) + 1, Len(ages))

\* the head of the loop: when less than Max are recent, so many are passed on
LimiterTop ==
  /\ limiter.at = "top"
  /\ recent' = Fresh(recent)
  /\ \/ /\ Limiter \in told
        /\ limiter' = [limiter EXCEPT !.at = "ended"]
     \/ /\ Limiter \notin told
        /\ Len(Fresh(recent)) < Max
        /\ limiter' = [limiter EXCEPT !.at = "pop", !.left = Max - Len(Fresh(recent))]
  /\ UNCHANGED <<cache, ready, db, todo, requests, clientVars, worker, told, passed, history,
                 broken, faults>>

\* todo.pop(), which is not interrupted by please_stop
LimiterPop ==
  /\ limiter.at = "pop"
  /\ todo # <<>>
  /\ todo' = Tail(todo)
  /\ recent' = Append(recent, 0)
  /\ limiter' = [limiter EXCEPT !.at = "add", !.hand = Head(todo)]
  /\ UNCHANGED <<cache, ready, db, requests, clientVars, passed, worker, told, history, broken,
                 faults>>

Room == Len(requests) < Max

\* requests.add(), and the head of the loop after the last of them
LimiterAdd ==
  /\ limiter.at = "add"
  /\ Room
  /\ requests' = Append(requests, limiter.hand)
  /\ passed' = Append(passed, 0)
  /\ limiter' = [at |-> IF limiter.left = 1 THEN "top" ELSE "pop", left |-> limiter.left - 1,
                 hand |-> Absent]
  /\ UNCHANGED <<cache, ready, db, todo, clientVars, recent, worker, told, history, broken,
                 faults>>

\* the queue was full for ten minutes: add() raises, and the limiter ends
LimiterGivesUp ==
  /\ limiter.at = "add"
  /\ ~ Room
  /\ limiter' = [at |-> "dead", left |-> 0, hand |-> Absent]
  /\ UNCHANGED <<cache, ready, db, todo, requests, clientVars, recent, passed, worker, told,
                 history, broken, faults>>

-----------------------------------------------------------------------------
(* _worker()                                                               *)

Take(w) ==
  /\ worker[w].at = "pop" /\ w \notin told
  /\ requests # <<>>
  /\ requests' = Tail(requests)
  /\ worker' = [worker EXCEPT ![w] = [at |-> "send", hand |-> Head(requests)]]
  /\ UNCHANGED <<cache, ready, db, todo, clientVars, limiterVars, told, history, broken, faults>>

\* it is told to stop, at the head of the loop or in pop(): what that returns is dropped
Leave(w) ==
  /\ worker[w].at = "pop" /\ w \in told
  /\ \/ UNCHANGED requests
     \/ requests # <<>> /\ requests' = Tail(requests)
  /\ worker' = [worker EXCEPT ![w].at = "ended"]
  /\ UNCHANGED <<cache, ready, db, todo, clientVars, limiterVars, told, history, broken, faults>>

\* the server answers
Fetch(w) ==
  /\ worker[w].at = "send"
  /\ worker' = [worker EXCEPT ![w].at = IF worker[w].hand \in Cacheable THEN "store" ELSE "publish"]
  /\ UNCHANGED <<cache, ready, db, todo, requests, clientVars, limiterVars, told, history, broken,
                 faults>>

\* fault: the INSERT is not committed
InsertedNot(p) == db

Inserted(p) == [db EXCEPT ![p] = crashes]

\* the transaction that inserts the response
Store(w) ==
  /\ worker[w].at = "store"
  /\ db' = Inserted(worker[w].hand)
  /\ worker' = [worker EXCEPT ![w].at = "publish"]
  /\ UNCHANGED <<cache, ready, todo, requests, clientVars, limiterVars, told, history, broken,
                 faults>>

Publish(w) ==
  /\ worker[w].at = "publish"
  /\ cache' = [cache EXCEPT ![worker[w].hand] = crashes]
  /\ Go(worker[w].hand)
  /\ worker' = [worker EXCEPT ![w] = IF w \in told THEN [Idle EXCEPT !.at = "ended"] ELSE Idle]
  /\ UNCHANGED <<db, todo, requests, clientVars, limiterVars, told, history, broken, faults>>

\* the fetch or the insert fails: the handler takes four values for three and raises,
\* before it removes the entry; ready.go() is in the `finally`
Fail(w) ==
  /\ worker[w].at \in {"send", "store"}
  /\ faults < MaxFaults
  /\ faults' = faults + 1
  /\ Go(worker[w].hand)
  /\ worker' = [worker EXCEPT ![w] = [at |-> "dead", hand |-> Absent]]
  /\ UNCHANGED <<cache, db, todo, requests, clientVars, limiterVars, told, history, broken>>

-----------------------------------------------------------------------------
Tell(t) ==
  /\ t \notin told
  /\ faults < MaxFaults
  /\ faults' = faults + 1
  /\ told' = told \cup {t}
  /\ UNCHANGED <<cache, ready, db, todo, requests, clientVars, limiterVars, worker, history,
                 broken>>

Older(ages) == [k \in DOMAIN ages |-> IF ages[k] < Period THEN ages[k] + 1 ELSE Period]

\* time passes
Tick ==
  /\ recent' = Older(recent)
  /\ passed' = Fresh(Older(passed))
  /\ UNCHANGED <<cache, ready, db, todo, requests, clientVars, limiter, worker, told, history,
                 broken, faults>>

\* the process dies, and is started again; its requests are cut off
Crash ==
  /\ faults < MaxFaults
  /\ faults' = faults + 1
  /\ crashes' = crashes + 1
  /\ cache' = Started.cache /\ waiting' = Started.waiting
  /\ limiter' = Started.limiter /\ worker' = Started.worker
  /\ ready' = {} /\ todo' = <<>> /\ requests' = <<>> /\ lookup' = {} /\ recent' = <<>>
  /\ told' = {} /\ passed' = <<>> /\ broken' = {}
  /\ UNCHANGED <<db, answers>>

Request(p) ==
  \/ Reserve(p) \/ Share(p) \/ Serve(p)

Goes(p) == LookupHit(p) \/ LookupMiss(p) \/ LookupFails(p) \/ Wake(p)

Limits == LimiterTop \/ LimiterPop \/ LimiterAdd \/ LimiterGivesUp

Works(w) == Take(w) \/ Leave(w) \/ Fetch(w) \/ Store(w) \/ Publish(w) \/ Fail(w)

Next ==
  \/ \E p \in Paths : Request(p) \/ Goes(p)
  \/ Limits
  \/ \E w \in Workers : Works(w)
  \/ \E t \in Workers \cup {Limiter} : Tell(t)
  \/ Tick \/ Crash

Spec == Init /\ [][Next]_vars

\* while threads can go on, one of them does; the server answers, and time passes
Step == (\E p \in Paths : Goes(p)) \/ Limits \/ (\E w \in Workers : Works(w))

FairSpec == Spec /\ WF_vars(Step) /\ WF_vars(Tick)

-----------------------------------------------------------------------------
Count(p, s) == Cardinality({k \in 1 .. Len(s) : s[k] = p})

\* who is to fetch the path and let its signal go
Holders(p) ==
  Count(p, todo) + Count(p, requests)
  + Cardinality({x \in lookup : x = p})
  + Cardinality({x \in {limiter} : x.hand = p})
  + Cardinality({w \in Workers : worker[w].hand = p})

\* A path is fetched once in the life of the process, however many requests ask for it at
\* the same time, before, while and after it is fetched (cache.py:146-149, 191).
FetchedOnce ==
  \A p \in Paths :
    /\ Holders(p) <= 1
    /\ p \in ready \/ cache[p] # Reserved => Holders(p) = 0

Orphan(p) == cache[p] = Reserved /\ p \notin ready /\ Holders(p) = 0

\* A path that is reserved, and in no queue and in nobody's hands any more, is one whose lookup
\* failed, or a task that was dropped by a worker that is told to stop, or by the limiter
\* when it gave up; a fetch that fails leaves none (cache.py:149, 170, 200, 224-230).
OrphansHaveReason ==
  \A p \in Paths : Orphan(p) =>
    \/ p \in broken
    \/ limiter.at = "dead"
    \/ \E w \in Workers : worker[w].at = "ended"

\* Requests for a path that is cached are answered alike, before and after a crash: all get
\* the response that is in the database.  Its bytes are the same as well, unless some of them
\* are no ASCII: then the request that finds the path in the database is sent the text of it
\* in UTF-8, and all others the bytes that the server sent (cache.py:167, 174-188, 195, 214-223).
AnswersAgree ==
  \A p \in Cacheable : \A a, b \in answers[p] :
    /\ a.response = b.response
    /\ a.coding = b.coding \/ p \in NonAscii

\* In no period more than Max + 1 tasks are passed on to the workers.  It is not Max: the
\* limiter notes the time before it waits for room in the queue (cache.py:86-97).
RateLimited == Len(passed) <= Max + 1

\* Every request is answered while a worker and the limiter are there, unless its path was
\* orphaned (cache.py:155, 192).
Answered ==
  \A p \in Paths :
    waiting[p] > 0 ~>
      \/ waiting[p] = 0
      \/ Orphan(p)
      \/ limiter.at \in {"dead", "ended"}
      \/ \A w \in Workers : worker[w].at \in {"dead", "ended"}

\* The state of the cache is sound: one fetch for a path, and no more fetches in a period
\* than the rate allows (cache.py:86-99, 146-149).
RelayInv == RelayTypeOK /\ FetchedOnce /\ RateLimited
=============================================================================
