------------------------------ MODULE StoreCalls ------------------------------
(***************************************************************************)
(* How a call reaches the store (store/client_server.py, store/threading.py, *)
(* collections.execute of store/collection/memory.py and mongo.py): over     *)
(* HTTP, with retries, or directly from a thread of the owner's process; then *)
(* under a lock, or in a transaction.  What the calls do to rollouts is the  *)
(* matter of LightningStore; here every call reads one thing and changes it. *)
(*                                                                         *)
(* A call is sent up to MaxTries times, and what was sent may be delayed     *)
(* past the caller's patience: every try is an execution of its own.         *)
(***************************************************************************)
EXTENDS Integers, Sequences, FiniteSets

CONSTANTS
  Callers,     \* each makes one call at most
  MaxTries,    \* one more than len(retry_delays)
  Plans,       \* who may call, how and for what: functions to Ops \X Routes
  Backends     \* the stores behind the server

Ops == {"enqueue", "dequeue", "issue", "report", "wait"}

\* http: from a client, or from a process that did not create the server.
\* direct: from a thread of the owner's process.
Routes == {"http", "direct"}

\* memory: InMemoryLightningStore.  threaded: the same in a LightningStoreThreaded.
\* mongo: MongoLightningStore.
KnownBackends == {"memory", "threaded", "mongo"}

ASSUME CallsAssumption ==
  /\ MaxTries \in Nat \ {0}
  /\ \A p \in Plans : p \in [DOMAIN p -> Ops \X Routes] /\ DOMAIN p \subseteq Callers
  /\ Backends \subseteq KnownBackends

VARIABLES
  backend,   \* what the server holds
  plan,      \* the operation and the route of every caller
  data,      \* what the store holds
  exec,      \* [Callers \X Tries -> an execution in the server's process]
  lock,      \* who holds the threading.Lock, or Nobody
  caller     \* [Callers -> where the caller is, its tries, its result]

callVars == <<backend, plan, data, exec, lock, caller>>

Tries == 1 .. MaxTries
Execs == Callers \X Tries
Nobody == <<>>

Taking == DOMAIN plan

OpOf(c) == plan[c][1]
Remote(c) == plan[c][2] = "http"

NoResult == -1       \* nothing was answered
Nothing == 0         \* the answer None
Done == 1            \* the answer of a report or a wait

\* queue: who enqueued every rollout.  claimed: how many were handed out, in order.
\* number: the last sequence id.  attempt: the status of an attempt that is overdue.
InitialData == [queue |-> <<>>, claimed |-> 0, number |-> 0, attempt |-> "running"]

CallsInit ==
  /\ backend \in Backends
  /\ plan \in Plans
  /\ data = InitialData
  /\ exec = [e \in Execs |-> [at |-> "none", view |-> InitialData, answer |-> NoResult]]
  /\ lock = Nobody
  /\ caller = [c \in Callers |-> [at |-> "idle", tries |-> 0, result |-> NoResult]]

-----------------------------------------------------------------------------
(* The server's process.                                                   *)

\* All requests are served by the event loop of the server; a thread that calls
\* directly runs a loop of its own.
SameLoop(e, f) == (Remote(e[1]) /\ Remote(f[1])) \/ e[1] = f[1]

Inside(e) == exec[e].at \in {"entered", "read"}

\* A thread-safe store is called without the lock.  (A plausible bug of NeedsLock:
\* the in-memory store says of itself that it is thread-safe.)
MutantThreadSafe(e) == FALSE

\* _call_store_method and LightningStoreThreaded: a wait goes on without the lock.
NeedsLock(e) == backend # "mongo" /\ OpOf(e[1]) # "wait"

\* A call that holds the lock does not suspend: it is alone on its loop.
Enter(e) ==
  /\ exec[e].at = "sent"
  /\ backend # "mongo" => \A f \in Taking \X Tries : Inside(f) => ~SameLoop(e, f)
  /\ IF NeedsLock(e) THEN lock = Nobody /\ lock' = e ELSE UNCHANGED lock
  /\ exec' = [exec EXCEPT ![e].at = "entered"]
  /\ UNCHANGED <<backend, plan, data, caller>>

Read(e) ==
  /\ exec[e].at = "entered"
  /\ exec' = [exec EXCEPT ![e].at = "read", ![e].view = data]
  /\ UNCHANGED <<backend, plan, data, lock, caller>>

\* What an operation answers and leaves behind.  A list or a queue is changed in place;
\* a number and a status are written from what was read.
Enqueued(c) == <<Len(data.queue) + 1, [data EXCEPT !.queue = Append(@, c)]>>

Dequeued ==
  IF data.claimed < Len(data.queue)
  THEN <<data.claimed + 1, [data EXCEPT !.claimed = @ + 1]>>
  ELSE <<Nothing, data>>

NextNumber(view) == <<view.number + 1, [data EXCEPT !.number = view.number + 1]>>

\* The health check that comes before a wait.
Checked(view) == IF view.attempt = "running" THEN [data EXCEPT !.attempt = "timeout"] ELSE data

Applied(e) ==
  CASE OpOf(e[1]) = "enqueue" -> Enqueued(e[1])
    [] OpOf(e[1]) = "dequeue" -> Dequeued
    [] OpOf(e[1]) = "issue" -> NextNumber(exec[e].view)
    [] OpOf(e[1]) = "report" -> <<Done, [data EXCEPT !.attempt = "succeeded"]>>
    [] OpOf(e[1]) = "wait" -> <<Done, Checked(exec[e].view)>>

\* The callback runs outside any transaction.  (A plausible bug of Conflicts.)
MutantNoTransaction(e) == FALSE

\* Mongo: somebody else changed what the transaction read and is to write.
Conflicts(e) ==
  /\ backend = "mongo"
  /\ CASE OpOf(e[1]) = "enqueue" -> FALSE
       [] OpOf(e[1]) = "dequeue" -> exec[e].view.claimed # data.claimed
       [] OpOf(e[1]) = "issue" -> exec[e].view.number # data.number
       [] OTHER -> exec[e].view.attempt # data.attempt

\* with_transaction runs the callback again.
Rerun(e) ==
  /\ exec[e].at = "read"
  /\ Conflicts(e)
  /\ exec' = [exec EXCEPT ![e].at = "entered", ![e].view = InitialData]
  /\ UNCHANGED <<backend, plan, data, lock, caller>>

\* The lock is kept.  (A plausible bug of Released.)
MutantKeepsLock(e) == UNCHANGED lock

Released(e) == lock' = IF lock = e THEN Nobody ELSE lock

Write(e) ==
  /\ exec[e].at = "read"
  /\ ~Conflicts(e)
  /\ data' = Applied(e)[2]
  /\ exec' = [exec EXCEPT ![e] = [at |-> "done", view |-> InitialData, answer |-> Applied(e)[1]]]
  /\ Released(e)
  /\ UNCHANGED <<backend, plan, caller>>

\* The transaction fails for good: the connection is lost before the commit or, as
\* far as the server can tell, in it.  The client is told 500.
TransactionFails(e) ==
  /\ backend = "mongo"
  /\ exec[e].at = "read"
  /\ data' \in {data} \cup (IF Conflicts(e) THEN {} ELSE {Applied(e)[2]})
  /\ exec' = [exec EXCEPT ![e].at = "failed", ![e].view = InitialData]
  /\ UNCHANGED <<backend, plan, lock, caller>>

Execution(e) == Enter(e) \/ Read(e) \/ Rerun(e) \/ Write(e)

-----------------------------------------------------------------------------
(* The caller.                                                             *)

\* The k-th try is sent.
Sends(c, k) ==
  /\ caller' = [caller EXCEPT ![c].at = "waiting", ![c].tries = k]
  /\ exec' = [exec EXCEPT ![<<c, k>>].at = "sent"]
  /\ UNCHANGED <<backend, plan, data, lock>>

Call(c) == caller[c].at = "idle" /\ Sends(c, 1)

Ends(c, at, result) ==
  /\ caller' = [caller EXCEPT ![c].at = at, ![c].result = result]
  /\ UNCHANGED <<backend, plan, data, exec, lock>>

Current(c) == exec[<<c, caller[c].tries>>]

Answered(c) ==
  /\ caller[c].at = "waiting"
  /\ Current(c).at = "done"
  /\ Ends(c, "answered", Current(c).answer)

\* A claim is retried like any request.  (A plausible bug of GivesNone.)
MutantRetriesClaims(c) == FALSE

\* dequeue_rollout does not retry: it answers None, whatever happened.
GivesNone(c) == OpOf(c) = "dequeue"

\* The request or the reply is lost, the client waited long enough, or 500 came.
Unanswered(c) ==
  /\ Remote(c)
  /\ caller[c].at = "waiting"
  /\ IF GivesNone(c) THEN Ends(c, "answered", Nothing)
                     ELSE Ends(c, "probing", NoResult)

\* The server answers its health probe: the next try.
Retry(c) ==
  /\ caller[c].at = "probing"
  /\ caller[c].tries < MaxTries
  /\ Sends(c, caller[c].tries + 1)

\* The server does not answer it, or the last try failed: the exception is raised.
GiveUp(c) == caller[c].at = "probing" /\ Ends(c, "failed", NoResult)

\* A direct caller gets the exception of its call.
Raises(c) ==
  /\ ~Remote(c)
  /\ caller[c].at = "waiting"
  /\ Current(c).at = "failed"
  /\ Ends(c, "failed", NoResult)

CallsNext ==
  \/ \E c \in Taking :
       Call(c) \/ Answered(c) \/ Unanswered(c) \/ Retry(c) \/ GiveUp(c) \/ Raises(c)
  \/ \E e \in Taking \X Tries : Execution(e) \/ TransactionFails(e)

CallsSpec == CallsInit /\ [][CallsNext]_callVars

\* Executions proceed; a client that waits gets its answer or loses patience.
CallsFairness ==
  /\ \A e \in Execs : WF_callVars(e[1] \in Taking /\ Execution(e))
  /\ \A c \in Callers :
       WF_callVars(/\ c \in Taking
                   /\ Answered(c) \/ Unanswered(c) \/ Raises(c) \/ Retry(c) \/ GiveUp(c))

-----------------------------------------------------------------------------
(* What is expected.                                                       *)

\* No sequence id and no rollout is handed out twice, to callers in whatever threads
\* and processes, however often their requests were repeated.
NothingTwice ==
  \A c, d \in Taking :
    /\ c # d
    /\ OpOf(c) = OpOf(d)
    /\ OpOf(c) \in {"issue", "dequeue"}
    /\ caller[c].result > Nothing
    => caller[c].result # caller[d].result

Copies(c) == Cardinality({i \in DOMAIN data.queue : data.queue[i] = c})
Claims == Cardinality({c \in Taking : OpOf(c) = "dequeue" /\ caller[c].tries > 0})

\* Lost replies have their price: an enqueue may leave one rollout per try, but none
\* that was answered is missing; a claim may be lost with its reply, but no caller
\* takes a second rollout to make up for it.
LossesAreBounded ==
  /\ \A c \in Taking :
       /\ Copies(c) <= caller[c].tries
       /\ OpOf(c) = "enqueue" /\ caller[c].at = "answered"
            => data.queue[caller[c].result] = c
  /\ data.claimed <= Claims

\* A report that was answered stands: the health check of a wait does not turn the
\* attempt it was about into one that timed out.
ReportStands ==
  \A c \in Taking :
    OpOf(c) = "report" /\ caller[c].at = "answered" => data.attempt = "succeeded"

\* The stores keep reports if they are transactional, or if whoever waits does so on
\* the loop that serves the reports.
ReportStandsOnOneLoop ==
  \/ ReportStands
  \/ /\ backend # "mongo"
     /\ \E c, d \in Taking : OpOf(c) = "wait" /\ OpOf(d) = "report" /\ ~SameLoop(<<c, 1>>, <<d, 1>>)

\* Every call comes to an end, with an answer or an exception.
CallsFinish ==
  \A c \in Callers : caller[c].at = "waiting" ~> caller[c].at \in {"answered", "failed"}
=============================================================================
