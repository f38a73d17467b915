------------------------------- MODULE Sqlite -------------------------------
(***************************************************************************)
(* jx_sqlite.sqlite: one sqlite3 connection shared by threads.  Only the   *)
(* worker thread touches the connection.  The others put command items on  *)
(* a queue and wait for the answer.  A transaction that has begun delays   *)
(* the items of all others, until it ends and they are put back.           *)
(*                                                                         *)
(* The clients use transactions as `with db.transaction() as t:` does:     *)
(* commit() at the end, rollback() when an exception passes.  They may     *)
(* nest, buffer commands with execute(), query in and outside of a         *)
(* transaction, raise, and catch what is raised.  sqlite3 is modelled by   *)
(* what it does to the set of commands it is given: BEGIN starts a unit,   *)
(* COMMIT makes it durable; a command may fail, BEGIN, COMMIT and ROLLBACK *)
(* do not.  The queue is not at its limit (1024 items).                    *)
(***************************************************************************)
EXTENDS Integers, Sequences, FiniteSets

CONSTANTS Clients,      \* the threads that use the database
          NoClient,
          Owner,        \* the one that made it, and stops it
          MaxTx,        \* bound: Transaction objects made
          MaxNesting,   \* bound, for each thread: transactions one in the other
          MaxCommands,  \* bound: commands of each transaction
          MaxPlain,     \* bound, for each thread: commands outside of transactions
          MaxFailures   \* bound: commands that fail, and exceptions of the callers

ASSUME SqliteAssumption ==
  /\ NoClient \notin Clients
  /\ MaxTx \in Nat /\ MaxFailures \in Nat
  /\ MaxNesting \in [Clients -> Nat]
  /\ MaxCommands \in [1 .. MaxTx -> Nat]
  /\ MaxPlain \in [Clients -> Nat]

Tx == 1 .. MaxTx     \* Transaction objects, in the order they are made
NoTx == 0            \* a command outside of transactions

Commands == [by : Clients, tx : Tx \cup {NoTx}, n : Nat]

\* CommandItem; the commit outside of transactions is the one of stop()
Items == [by : Clients, kind : {"query", "commit", "rollback"}, tx : Tx \cup {NoTx}, n : Nat]

VARIABLES
  queue,       \* Sqlite.queue
  delayedQ,    \* delayed_queries
  delayedT,    \* delayed_transactions
  stack,       \* transaction_stack
  available,   \* available_transactions
  closed,      \* Sqlite.closed
  worker,      \* the worker: in the loop ("pop"), out of it ("out"), or "ended"
  pleaseStop,  \* its please_stop
  tx,          \* tx[t]: the Transaction object t
  made,        \* how many there are
  unit,        \* sqlite3: what was run since BEGIN
  durable,     \* sqlite3: what is committed
  failures,    \* how many commands have failed, or callers raised
  headless,    \* nested transactions that BEGIN was executed for
  thread       \* thread[c]: where the client c is

dbVars == <<unit, durable, failures, headless>>
workerVars == <<queue, delayedQ, delayedT, stack, worker>>
vars == <<queue, delayedQ, delayedT, stack, available, closed, worker, pleaseStop, tx, made,
          unit, durable, failures, headless, thread>>

Outcomes == {"none", "open", "committed", "rolledback", "failed"}

TxRecords == [owner : Clients \cup {NoClient},
              parent : Tx \cup {NoTx},
              line : SUBSET Tx,          \* the transaction, its parent, the parent's parent ...
              todo : SUBSET Nat,         \* commands of execute() that are not run
              issued : Nat,              \* commands given to it
              exception : BOOLEAN,
              outcome : Outcomes]        \* what its thread was told

ThreadRecords == [pc : {"idle", "adding", "waiting", "stopping", "joining", "over"},
                  item : Items,          \* what it adds, or waits for
                  open : Seq(Tx),        \* the `with` blocks it is in
                  raised : BOOLEAN,      \* is an exception on its way?
                  asked : Nat]           \* commands outside of transactions

SqliteTypeOK ==
  /\ queue \in Seq(Items)
  /\ delayedQ \in Seq(Items)
  /\ delayedT \in Seq(Items)
  /\ stack \in Seq(Tx)
  /\ available \subseteq Tx
  /\ closed \in BOOLEAN
  /\ worker \in {"pop", "out", "ended"}
  /\ pleaseStop \in BOOLEAN
  /\ tx \in [Tx -> TxRecords]
  /\ made \in 0 .. MaxTx
  /\ unit \subseteq Commands
  /\ durable \subseteq Commands
  /\ failures \in Nat
  /\ headless \subseteq Tx
  /\ thread \in [Clients -> ThreadRecords]
  /\ {stack[k] : k \in 1 .. Len(stack)} \subseteq available

NoItem(c) == [by |-> c, kind |-> "query", tx |-> NoTx, n |-> 0]

NewTx == [owner |-> NoClient, parent |-> NoTx, line |-> {}, todo |-> {}, issued |-> 0,
          exception |-> FALSE, outcome |-> "none"]

Init ==
  /\ queue = <<>> /\ delayedQ = <<>> /\ delayedT = <<>> /\ stack = <<>>
  /\ available = {}
  /\ closed = FALSE
  /\ worker = "pop"
  /\ pleaseStop = FALSE
  /\ tx = [t \in Tx |-> NewTx]
  /\ made = 0
  /\ unit = {} /\ durable = {} /\ failures = 0 /\ headless = {}
  /\ thread = [c \in Clients |->
                [pc |-> "idle", item |-> NoItem(c), open |-> <<>>, raised |-> FALSE, asked |-> 0]]

-----------------------------------------------------------------------------
(* The clients                                                             *)

Innermost(c) == thread[c].open[Len(thread[c].open)]

InBlock(c) == thread[c].pc = "idle" /\ thread[c].open # <<>>

Mine(c) == {t \in available : tx[t].owner = c}

\* transaction(): the parent is the last one of this thread that is not closed
Open(c) ==
  /\ thread[c].pc = "idle" /\ ~ thread[c].raised
  /\ made < MaxTx /\ Len(thread[c].open) < MaxNesting[c]
  /\ \E p \in Mine(c) \cup {NoTx} :
       /\ \A t \in Mine(c) : t <= p
       /\ tx' = [tx EXCEPT ![made + 1] =
                  [NewTx EXCEPT !.owner = c, !.parent = p, !.outcome = "open",
                                !.line = {made + 1} \cup (IF p = NoTx THEN {} ELSE tx[p].line)]]
  /\ made' = made + 1
  /\ available' = available \cup {made + 1}
  /\ thread' = [thread EXCEPT ![c].open = Append(@, made + 1)]
  /\ UNCHANGED <<workerVars, closed, pleaseStop, dbVars>>

\* Transaction.execute(): buffer a command
Execute(c) ==
  /\ InBlock(c) /\ ~ thread[c].raised
  /\ LET t == Innermost(c) IN
       /\ tx[t].issued < MaxCommands[t]
       /\ tx' = [tx EXCEPT ![t].issued = @ + 1, ![t].todo = @ \cup {tx[t].issued + 1}]
  /\ UNCHANGED <<workerVars, available, closed, pleaseStop, made, dbVars, thread>>

\* query(): an error if the database is closed; if not, the item is added later
Ask(c, item) ==
  LET th == thread[c] IN
  thread' = [thread EXCEPT
    ![c] = IF closed
           THEN [th EXCEPT !.raised = TRUE,
                           !.open = IF item.kind = "query" THEN th.open
                                    ELSE SubSeq(th.open, 1, Len(th.open) - 1)]
           ELSE [th EXCEPT !.pc = "adding", !.item = item]]

\* Transaction.query()
Query(c) ==
  /\ InBlock(c) /\ ~ thread[c].raised
  /\ LET t == Innermost(c) IN
       /\ tx[t].issued < MaxCommands[t]
       /\ tx' = [tx EXCEPT ![t].issued = @ + 1]
       /\ Ask(c, [by |-> c, kind |-> "query", tx |-> t, n |-> tx[t].issued + 1])
  /\ UNCHANGED <<workerVars, available, closed, pleaseStop, made, dbVars>>

\* Transaction.__exit__(): commit(), or rollback() if an exception passes
Exit(c) ==
  /\ InBlock(c)
  /\ LET t == Innermost(c) IN
       /\ tx' = IF closed THEN [tx EXCEPT ![t].outcome = "failed"] ELSE tx
       /\ Ask(c, [by |-> c, kind |-> IF thread[c].raised THEN "rollback" ELSE "commit",
                  tx |-> t, n |-> 0])
  /\ UNCHANGED <<workerVars, available, closed, pleaseStop, made, dbVars>>

\* Sqlite.query(), also by a thread that has a transaction open
QueryOutside(c) ==
  /\ thread[c].pc = "idle" /\ ~ thread[c].raised
  /\ thread[c].asked < MaxPlain[c]
  /\ thread' = [thread EXCEPT
       ![c] = IF closed THEN [@ EXCEPT !.raised = TRUE]
              ELSE [@ EXCEPT !.pc = "adding", !.asked = thread[c].asked + 1,
                             !.item = [by |-> c, kind |-> "query", tx |-> NoTx,
                                       n |-> thread[c].asked + 1]]]
  /\ UNCHANGED <<workerVars, available, closed, pleaseStop, tx, made, dbVars>>

\* self.queue.add(...); signal.acquire()
Add(c) ==
  /\ thread[c].pc = "adding"
  /\ queue' = Append(queue, thread[c].item)
  /\ thread' = [thread EXCEPT ![c].pc = "waiting"]
  /\ UNCHANGED <<delayedQ, delayedT, stack, worker, available, closed, pleaseStop, tx, made,
                 dbVars>>

\* the caller's code raises, or catches what is raised
Raise(c) ==
  /\ InBlock(c) /\ ~ thread[c].raised
  /\ failures < MaxFailures
  /\ failures' = failures + 1
  /\ thread' = [thread EXCEPT ![c].raised = TRUE]
  /\ UNCHANGED <<workerVars, available, closed, pleaseStop, tx, made, unit, durable, headless>>

Catch(c) ==
  /\ thread[c].pc = "idle" /\ thread[c].raised
  /\ thread' = [thread EXCEPT ![c].raised = FALSE]
  /\ UNCHANGED <<workerVars, available, closed, pleaseStop, tx, made, dbVars>>

\* stop(): closed, a COMMIT without a transaction, and the wait for its answer
Stop(c) ==
  /\ c = Owner
  /\ thread[c].pc = "idle" /\ thread[c].open = <<>> /\ ~ thread[c].raised
  /\ ~ closed
  /\ closed' = TRUE
  /\ LET item == [by |-> c, kind |-> "commit", tx |-> NoTx, n |-> 0] IN
       /\ queue' = Append(queue, item)
       /\ thread' = [thread EXCEPT ![c].pc = "waiting", ![c].item = item]
  /\ UNCHANGED <<delayedQ, delayedT, stack, worker, available, pleaseStop, tx, made, dbVars>>

\* self.worker.stop(), whatever the answer was
PleaseStop(c) ==
  /\ c = Owner
  /\ thread[c].pc = "stopping"
  /\ pleaseStop' = TRUE
  /\ thread' = [thread EXCEPT ![c].pc = "joining"]
  /\ UNCHANGED <<workerVars, available, closed, tx, made, dbVars>>

\* .join()
Joined(c) ==
  /\ thread[c].pc = "joining"
  /\ worker = "ended"
  /\ thread' = [thread EXCEPT ![c].pc = "over"]
  /\ UNCHANGED <<workerVars, available, closed, pleaseStop, tx, made, dbVars>>

-----------------------------------------------------------------------------
(* The worker                                                              *)

\* fault: pop() without till
EndTested ==
  /\ worker = "out"
  /\ worker' = "ended"
  /\ closed' = TRUE
  /\ unit' = {}
  /\ UNCHANGED <<queue, delayedQ, delayedT, stack, available, pleaseStop, tx, made,
                 durable, failures, headless, thread>>

\* the loop is left, or pop(till=please_stop) answers None: close the database
End ==
  /\ worker = "out" \/ (worker = "pop" /\ queue = <<>> /\ pleaseStop)
  /\ worker' = "ended"
  /\ closed' = TRUE
  /\ unit' = {}
  /\ UNCHANGED <<queue, delayedQ, delayedT, stack, available, pleaseStop, tx, made,
                 durable, failures, headless, thread>>

\* pop() has an item; when it is processed, please_stop is looked at
Popped ==
  /\ worker = "pop" /\ queue # <<>>
  /\ worker' = IF pleaseStop THEN "out" ELSE "pop"

Top == stack[Len(stack)]

\* is the item delayed by the current transaction?
\* fault: only transactions are delayed
DeferredTransactions(i) ==
  /\ stack # <<>> /\ i.tx # NoTx
  /\ Top \notin {i.tx, tx[i.tx].parent}

Deferred(i) ==
  /\ stack # <<>>
  /\ i.tx # NoTx => Top \notin {i.tx, tx[i.tx].parent}

\* has the transaction of the item failed before?
Refused(i) ==
  /\ stack # <<>> /\ i.tx # NoTx
  /\ Top = i.tx /\ tx[i.tx].exception
  /\ i.kind # "rollback"

\* signal.release(), and what the thread does with the answer
Release(i, ok) ==
  LET th == thread[i.by] IN
  thread' = [thread EXCEPT
    ![i.by] = IF i.tx = NoTx /\ i.kind = "commit"
              THEN [th EXCEPT !.pc = "stopping"]
              ELSE [th EXCEPT !.pc = "idle", !.item = NoItem(i.by),
                              !.raised = th.raised \/ ~ ok,
                              !.open = IF i.kind = "query" THEN th.open
                                       ELSE SubSeq(th.open, 1, Len(th.open) - 1)]]

Delay ==
  /\ Popped
  /\ LET i == Head(queue) IN
       /\ Deferred(i)
       /\ delayedQ' = IF i.tx = NoTx THEN Append(delayedQ, i) ELSE delayedQ
       /\ delayedT' = IF i.tx = NoTx THEN delayedT ELSE Append(delayedT, i)
  /\ queue' = Tail(queue)
  /\ UNCHANGED <<stack, available, closed, pleaseStop, tx, made, dbVars, thread>>

\* "Not allowed to continue using a transaction that failed"
Refuse ==
  /\ Popped
  /\ LET i == Head(queue) IN
       /\ ~ Deferred(i) /\ Refused(i)
       /\ tx' = IF i.kind = "commit" THEN [tx EXCEPT ![i.tx].outcome = "failed"] ELSE tx
       /\ Release(i, FALSE)
  /\ queue' = Tail(queue)
  /\ UNCHANGED <<delayedQ, delayedT, stack, available, closed, pleaseStop, made, dbVars>>

\* a command of a thread outside of transactions: durable where nothing has begun
RunOutside ==
  /\ Popped
  /\ LET i == Head(queue) IN
       /\ ~ Deferred(i) /\ i.tx = NoTx /\ i.kind = "query"
       /\ \/ /\ IF stack = <<>>
                THEN durable' = durable \cup {[by |-> i.by, tx |-> NoTx, n |-> i.n]} /\ UNCHANGED unit
                ELSE unit' = unit \cup {[by |-> i.by, tx |-> NoTx, n |-> i.n]} /\ UNCHANGED durable
             /\ Release(i, TRUE)
             /\ UNCHANGED failures
          \/ /\ failures < MaxFailures
             /\ failures' = failures + 1
             /\ Release(i, FALSE)
             /\ UNCHANGED <<unit, durable>>
  /\ queue' = Tail(queue)
  /\ UNCHANGED <<delayedQ, delayedT, stack, available, closed, pleaseStop, tx, made, headless>>

\* the COMMIT of stop() fails, for there is no transaction to close
StopAnswered ==
  /\ Popped
  /\ LET i == Head(queue) IN
       /\ ~ Deferred(i) /\ i.tx = NoTx /\ i.kind = "commit"
       /\ Release(i, FALSE)
  /\ queue' = Tail(queue)
  /\ UNCHANGED <<delayedQ, delayedT, stack, available, closed, pleaseStop, tx, made, dbVars>>

-----------------------------------------------------------------------------
(* The worker: an item of the current transaction                          *)

Current(i) == Popped /\ i.tx # NoTx /\ ~ Deferred(i) /\ ~ Refused(i)

\* the stack with the transaction on top; BEGIN is executed if it was empty
Raised(t) == IF stack # <<>> /\ Top = t THEN stack ELSE Append(stack, t)

Headless(t) ==
  headless' = IF stack = <<>> /\ tx[t].parent # NoTx THEN headless \cup {t} ELSE headless

\* what do_all() has to run: of the transaction and, before it, of its parents
Todo(t) == UNION {[by : {tx[t].owner}, tx : {a}, n : tx[a].todo] : a \in tx[t].line}

Before(x, y) == x.tx < y.tx \/ (x.tx = y.tx /\ x.n < y.n)

\* do_all() has got to the command last, or to the end of all
Ran(t, last) ==
  [a \in Tx |-> IF a \in tx[t].line /\ a <= last THEN [tx[a] EXCEPT !.todo = {}] ELSE tx[a]]

\* the delayed items go back to the queue, queries first
\* fault: only the queries do
PutBackQueries ==
  /\ queue' = delayedQ \o Tail(queue)
  /\ delayedQ' = <<>>
  /\ UNCHANGED delayedT

PutBack ==
  /\ queue' = delayedQ \o delayedT \o Tail(queue)
  /\ delayedQ' = <<>>
  /\ delayedT' = <<>>

\* _close_transaction(): sqlite3 hears of the outermost one only
Close(t, commit, run) ==
  /\ available' = available \ {t}
  /\ stack' = SubSeq(Raised(t), 1, Len(Raised(t)) - 1)
  /\ unit' = IF Len(Raised(t)) = 1 THEN {} ELSE unit \cup run
  /\ durable' = IF Len(Raised(t)) = 1 /\ commit THEN durable \cup unit \cup run ELSE durable
  /\ PutBack

\* do_all() and then the query, which may fail
RunQuery ==
  /\ LET i == Head(queue)
         command == [by |-> i.by, tx |-> i.tx, n |-> i.n] IN
       /\ Current(i) /\ i.kind = "query"
       /\ stack' = Raised(i.tx)
       /\ Headless(i.tx)
       /\ \/ /\ unit' = unit \cup Todo(i.tx) \cup {command}
             /\ tx' = Ran(i.tx, i.tx)
             /\ Release(i, TRUE)
             /\ UNCHANGED failures
          \/ /\ failures < MaxFailures
             /\ failures' = failures + 1
             /\ unit' = unit \cup Todo(i.tx)
             /\ tx' = [Ran(i.tx, i.tx) EXCEPT ![i.tx].exception = TRUE]
             /\ Release(i, FALSE)
  /\ queue' = Tail(queue)
  /\ UNCHANGED <<delayedQ, delayedT, available, closed, pleaseStop, made, durable>>

\* do_all() and then the end of the transaction
RunEnd ==
  /\ LET i == Head(queue) IN
       /\ Current(i) /\ i.kind # "query"
       /\ Headless(i.tx)
       /\ Close(i.tx, i.kind = "commit", Todo(i.tx))
       /\ tx' = [Ran(i.tx, i.tx) EXCEPT
                  ![i.tx].outcome = IF i.kind = "commit" THEN "committed" ELSE "rolledback"]
       /\ Release(i, TRUE)
  /\ UNCHANGED <<closed, pleaseStop, made, failures>>

\* fault: do_all() fails, and a COMMIT goes on as a COMMIT
DoAllFailsCommitting ==
  /\ failures < MaxFailures
  /\ failures' = failures + 1
  /\ LET i == Head(queue) IN
       /\ Current(i)
       /\ Headless(i.tx)
       /\ \E x \in Todo(i.tx) :
            LET run == {y \in Todo(i.tx) : Before(y, x)} IN
            /\ tx' = [Ran(i.tx, x.tx) EXCEPT
                       ![i.tx].exception = TRUE,
                       ![i.tx].outcome = IF i.kind = "query" THEN @ ELSE "failed"]
            /\ \/ /\ i.kind = "query"
                  /\ stack' = Raised(i.tx)
                  /\ unit' = unit \cup run
                  /\ queue' = Tail(queue)
                  /\ UNCHANGED <<delayedQ, delayedT, available, durable>>
               \/ /\ i.kind # "query"
                  /\ Close(i.tx, i.kind = "commit", run)
       /\ Release(i, FALSE)
  /\ UNCHANGED <<closed, pleaseStop, made>>

\* do_all() fails at a command: the rest of that transaction's is forgotten, and
\* COMMIT becomes ROLLBACK
DoAllFails ==
  /\ failures < MaxFailures
  /\ failures' = failures + 1
  /\ LET i == Head(queue) IN
       /\ Current(i)
       /\ Headless(i.tx)
       /\ \E x \in Todo(i.tx) :
            LET run == {y \in Todo(i.tx) : Before(y, x)} IN
            /\ tx' = [Ran(i.tx, x.tx) EXCEPT
                       ![i.tx].exception = TRUE,
                       ![i.tx].outcome = IF i.kind = "query" THEN @ ELSE "failed"]
            /\ \/ /\ i.kind = "query"
                  /\ stack' = Raised(i.tx)
                  /\ unit' = unit \cup run
                  /\ queue' = Tail(queue)
                  /\ UNCHANGED <<delayedQ, delayedT, available, durable>>
               \/ /\ i.kind # "query"
                  /\ Close(i.tx, FALSE, run)
       /\ Release(i, FALSE)
  /\ UNCHANGED <<closed, pleaseStop, made>>

-----------------------------------------------------------------------------
Worker ==
  \/ End \/ Delay \/ Refuse \/ RunOutside \/ StopAnswered
  \/ RunQuery \/ RunEnd \/ DoAllFails

Next ==
  \/ Worker
  \/ \E c \in Clients :
       \/ Open(c) \/ Execute(c) \/ Query(c) \/ Exit(c) \/ QueryOutside(c) \/ Add(c)
       \/ Raise(c) \/ Catch(c) \/ Stop(c) \/ PleaseStop(c) \/ Joined(c)

Spec == Init /\ [][Next]_vars

\* the worker works; a thread goes on with the call it is in, and leaves its blocks
FairSpec ==
  /\ Spec
  /\ WF_vars(Worker)
  /\ \A c \in Clients : WF_vars(Add(c) \/ Exit(c) \/ PleaseStop(c) \/ Joined(c))

-----------------------------------------------------------------------------
\* Whoever waits is heard of: until the worker ends, the item of a waiting thread is in
\* exactly one of the queue and the two lists of delayed items, and nothing is delayed
\* when no transaction is current (sqlite.py:399-407, 437-455).
NothingLost ==
  /\ worker # "ended" =>
       \A c \in Clients : thread[c].pc = "waiting" =>
         Cardinality({k \in 1 .. Len(queue) : queue[k].by = c})
         + Cardinality({k \in 1 .. Len(delayedQ) : delayedQ[k].by = c})
         + Cardinality({k \in 1 .. Len(delayedT) : delayedT[k].by = c}) = 1
  /\ stack = <<>> => delayedQ = <<>> /\ delayedT = <<>>

Nests(t) == \E s \in Tx : tx[s].parent = t

Of(t) == {x \in durable : x.tx = t}

\* All or nothing, for transactions that are no part of another: one without nested ones is
\* durable with every command it was given if commit() returns, and leaves nothing if it has
\* failed; one that was rolled back leaves nothing, with nested ones or without, unless one of
\* them has begun in its place.  Nothing is said of the others, and the code does not keep it
\* for them: a nested transaction that runs before its parent has begun commits the commands
\* that its parent has buffered, and its own rollback undoes nothing (sqlite.py:457-505).
AllOrNothing ==
  \A t \in Tx : tx[t].parent = NoTx =>
    /\ tx[t].outcome = "committed" /\ ~ Nests(t) =>
         {x.n : x \in Of(t)} = 1 .. tx[t].issued
    /\ tx[t].outcome = "failed" /\ ~ Nests(t) => Of(t) = {}
    /\ tx[t].outcome = "rolledback" /\ (\A s \in headless : t \notin tx[s].line) => Of(t) = {}

Serial == INSTANCE SerialDb WITH
  holder <- IF worker = "ended" \/ stack = <<>> THEN NoClient ELSE tx[stack[1]].owner

\* The threads have the database for themselves between BEGIN and the end of their
\* transaction, whatever the others ask for in the meantime (sqlite.py:437-455).
ImplementsSerial == Serial!Spec

-----------------------------------------------------------------------------
(* Liveness: the reasons why a thread may wait for ever                    *)

\* a thread queries outside of its own transaction, or in the third of three nested
\* ones of which the second has not begun
WaitsForItself ==
  \E c \in Clients :
    /\ thread[c].pc = "waiting"
    /\ stack # <<>> /\ tx[stack[1]].owner = c
    /\ Deferred(thread[c].item)

\* a transaction that failed was committed nevertheless: it stays the current one
Abandoned == \E k \in 1 .. Len(stack) : tx[stack[k]].outcome = "failed"

\* Every call is answered if threads end their transactions, nobody stops the database,
\* nobody waits for itself and nobody catches the failure of a command and commits
\* (sqlite.py:399-407, 468-478).
Answered ==
  \A c \in Clients :
    thread[c].pc = "waiting" ~>
      (thread[c].pc # "waiting" \/ closed \/ WaitsForItself \/ Abandoned)

\* `closed` is set, and the current transaction has no command left: nobody can end it
Orphaned ==
  /\ closed /\ stack # <<>> /\ queue = <<>>
  /\ \A c \in Clients : thread[c].pc # "adding"

\* stop() returns, unless a transaction is left that its thread cannot end any more
\* (sqlite.py:283-293, 583-585).
StopReturns ==
  thread[Owner].item.kind = "commit" /\ thread[Owner].item.tx = NoTx
    ~> (thread[Owner].pc = "over" \/ Orphaned)

\* The state of the worker is sound, and no item is lost in it (sqlite.py:399-407, 437-455).
SqliteInv == SqliteTypeOK /\ NothingLost

\* Every call is answered and stop() returns, but for the reasons named above
\* (sqlite.py:283-293, 399-407, 468-478).
CallsReturn == Answered /\ StopReturns
=============================================================================
