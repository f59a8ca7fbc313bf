# A verification of Agent-Lightning

This directory holds TLA+ models of the training framework under
`src/docker/agentlightning`, the TLC configurations that check them, and proofs
that the TLA+ proof system checks. Paths below are relative to
`src/docker/agentlightning` unless they begin with `src/`.

Agent-Lightning trains agents by running them. An algorithm puts *rollouts*
(tasks) into a *store*; *runners* in other tasks, threads or processes claim them,
run the agent, send its spans and report the outcome; the algorithm waits for the
rollouts, reads the spans and turns them into training data. A rollout is run in one
or more *attempts*; a watchdog in the store ends attempts that take too long or fall
silent and sends their rollouts back to the queue. Agents reach their model through an
LLM proxy, which records their calls as spans of the attempt. The store is where
everybody meets, so it is where the core of this verification is.

1. Inventory - 2. Plan - 3. The modules - 4. The runs - 5. Fairness - 6. The proofs -
7. Known gaps - 8. Not modelled

## 1. Inventory

### The store: rollouts, attempts, queue, workers

`store/collection_based.py`, with the caches of `store/memory.py`, the watchdog of
`store/utils.py` and the types of `types/core.py`.

* State: rollouts (status, config), attempts numbered from 1 (status, worker,
  heartbeat), the queue of rollout ids, worker records; in memory also
  `_running_rollout_ids`, which the watchdog reads instead of the rollouts, and
  the completion events, which waiters wait for.
* Operations: `start_rollout`, `enqueue_rollout`, `dequeue_rollout`,
  `start_attempt`, `update_rollout`, `update_attempt`, `update_worker`, `add_span`,
  `add_otel_span`, the watchdog; queries, which change nothing.
* Interaction: each body runs under the store's lock (`_with_collections_execute`);
  `_healthcheck_wrapper` runs the watchdog before most of them, under a lock of
  its own, and not when another call is running it.
* Hard: the same rollout may be in the queue while its status is anything (spans,
  manual attempts and cancellation leave entries behind); three parties write an
  attempt's fate (runner, watchdog, spans) and only that of the latest attempt
  moves the rollout.
* Correct when: no waiting rollout is lost and none is queued twice; the caches
  are exact; rollouts follow their latest attempt; retries are bounded; worker
  records are true; whoever waits is served; timeouts are enforced.

### The store: spans

`store/collection_based.py`, `store/memory.py`.

* State: spans, the sequence id counters, the bytes accounted per rollout and in
  total, the rollouts marked evicted.
* Operations: `get_next_span_sequence_id`, `add_span`, `add_otel_span`, eviction,
  `query_spans`.
* Hard: spans come late, twice, out of order, with ids nobody issued, and for
  attempts that do not exist; eviction happens inside an `add_span`.
* Correct when: ids are fresh, memory is bounded, the oldest rollouts are evicted
  first, and a query that answers leaves nothing out.

### The store: waiting

`wait_for_rollout` of `store/memory.py`: a look under the lock, a wait in a thread,
a second look. Anything may happen between them. Correct when every wait for a
rollout that ends comes back, and comes back with the rollout.

### The ways to the store

`store/client_server.py`, `store/threading.py`, and `execute()` of the collections.

* State: the server's `threading.Lock`, a lock per event loop in the in-memory
  collections, the transaction of a call in MongoDB, the tries of a client.
* Interaction: a call comes over HTTP from a client, or directly from a thread of the
  process that owns the server. A client sends a request again when its reply fails
  to come, after the server's health endpoint has answered; `dequeue_rollout` never
  retries and turns every failure into "nothing to do". The server takes its lock for
  each call but a wait; MongoDB reruns a transaction that conflicts.
* Hard: requests that run although nobody waits for them any more, locks that exclude
  only the callers of one loop, a commit that succeeds without the server knowing.
* Correct when: nothing is handed out twice, losses stay within the tries made, what
  was reported stands, and every call ends.

### The store's collections

`store/collection/base.py`, `memory.py` and `mongo.py`: insert, update, upsert and delete
of batches of items, queries with filters, pages. In memory the items are in nested dicts
by their primary keys, and a query that names keys walks one branch only; in MongoDB the
filter is translated. Correct when both find what the filter says, all of it.

### Runner

`runner/agent.py`. Polls, registers as the attempt's worker, fetches resources, runs
the agent, sends the outcome. Every await is a point where the watchdog may give
the attempt to another runner. Runners die, are cancelled, skip rollouts and lose
replies; none of it may cost a rollout or make two of them share an attempt.

### Execution strategies

`execution/shared_memory.py` and `execution/client_server.py`: one call of `execute()`
runs the algorithm's bundle and the runners' bundles (built by `trainer/trainer.py`),
one of them on the caller's thread, the others in threads or processes.

* State: the stop event they share, the state of each thread or process, the
  exceptions threads leave behind, exit codes, and how far `execute()` is.
* Hard: Ctrl+C, crashes, kills and timeouts between any two steps; a bundle may poll
  the event, need to be cancelled, or heed neither.
* Correct when: failures reach the caller and none is made up; nothing is left running
  that could be stopped; the algorithm is not cut short for nothing; an execution that
  is told to stop ends.

### Server launcher

`utils/server_launcher.py` runs the web servers of the store and of the LLM proxy, on the
caller's event loop, in a thread, or in a process, with uvicorn or gunicorn.

* State: the serve task, its host and what it reported through the event queue; the
  handle by which the launcher knows it; `_is_running`.
* Operations: `start`, `stop`, `run_forever`.
* Hard: a server that does not come up, is unhealthy, dies, lingers over connections or
  hangs, each within one of five timeouts; a start that failed, followed by another one.
* Correct when: calls end, and nothing is left behind but what cannot be stopped.

### LLM proxy

`llm_proxy.py`. The middleware takes rollout and attempt out of a request's path, fetches
a sequence id and puts all of it into the headers; `LightningSpanExporter` collects spans
in a buffer, from several threads, until a root ends, and sends that tree to the store; a
context manager writes LiteLLM's configuration before the server runs and removes it
after; `StreamConversionMiddleware` asks for a complete answer and cuts it into events.
Correct when spans are stored under the identifiers of their own request and are not lost
while the store accepts them, the file is there while the server runs, and a stream
adds up to the answer.

### APO

`algorithm/apo/apo.py`: a beam search over prompts. In each round parents are sampled from
the beam, edited with the help of a model, all candidates are evaluated on one batch, the
best are kept, and the first of them is evaluated on the whole validation set. Correct when
candidates are ranked on the same samples and the prompt reported is the best evaluated.

### VERL daemon and legacy server

`verl/daemon.py` asks for a batch of rollouts, waits for as many results as it asked for,
and gives them to the trainer; in mode v0 through `server.py`, whose tasks are claimed by
clients (`client.py`, `runner/legacy.py`) and given to others when they are late, in mode v1
through the store. Correct when a batch ends, with its own results, and no task is
forgotten.

### Adapters

`adapter/triplet.py`: spans become triplets of prompt, response and reward. One adapter
builds the tree of the spans, moves calls that float under the root below the span that
encloses them, and matches rewards to calls by a policy; the other goes by the
sequence ids. Correct when no span is lost, and a reward goes to the call it is for.

### The rest

Other algorithms, tracers, emitters and decorators, instrumentation, logging, the CLI and
scripts: see section 8.

## 2. Plan

The modules in order, the most important behaviour first. All are written.

1. `LightningStore`: the control plane of the store. `WorkQueue`: the queue as it is
   promised to runners, which the store refines.
2. `RunnerSystem`: runners on top of the store, with their faults.
3. `RolloutWaiter`: waiters on top of both; the system end to end.
4. `SpanStore`: sequence ids and memory.
5. `Execution`: threads and processes of both strategies, the stop event, grace
   periods, cancellation, escalation, and the joins that may not end.
6. `StoreCalls`: how calls reach the store; `Collections`: what is below it.
7. `ServerLauncher`, and `LlmProxy` on top of it; `ProxySpans`; `StreamConversion`.
8. `VerlDaemon` with the legacy server; `BeamSearch`; `TraceTree`.

What would come next: the polling version of `wait_for_rollouts` in the base class; the pool
of MongoDB clients.

## 3. The modules

Module, code, and what the module adds to it:

| module | code |
| --- | --- |
| `LightningStore` | `store/collection_based.py`, caches of `store/memory.py`, `store/utils.py` |
| `WorkQueue` | the promise of `dequeue_rollout` in `store/base.py` |
| `RunnerSystem` (extends `LightningStore`) | `runner/agent.py` over `store/client_server.py` |
| `RolloutWaiter` (extends `RunnerSystem`) | `wait_for_rollout` of `store/memory.py` |
| `SpanStore` | spans, sequence ids and memory of `store/collection_based.py`, `store/memory.py` |
| `StoreCalls` | `store/client_server.py`, `store/threading.py`, `execute()` of the collections |
| `Collections` | `store/collection/memory.py`, `store/collection/mongo.py` |
| `Execution` | `execution/shared_memory.py`, `execution/client_server.py`, the bundles of `trainer/trainer.py` |
| `ServerLauncher` | `utils/server_launcher.py` |
| `LlmProxy` (extends `ServerLauncher`) | the life of the proxy and of its configuration file, `llm_proxy.py` |
| `ProxySpans` | `LightningSpanExporter` and `RolloutAttemptMiddleware`, `llm_proxy.py` |
| `StreamConversion` | `StreamConversionMiddleware`, `llm_proxy.py` |
| `VerlDaemon` | `verl/daemon.py`, `server.py`, `client.py` and the legacy runner |
| `BeamSearch` | `algorithm/apo/apo.py` |
| `TraceTree` | `adapter/triplet.py` |
| `Selections` (used by `Collections` and `TraceTree`) | what is taken out of a list by a filter: `_iter_matching_items` of `store/collection/memory.py`, comprehensions of `adapter/triplet.py` |

The `MC...` modules give the constants values and say what TLC checks. Where several
modules share a run (`MCStorage`, `MCServing`, `MCTraining`), they share no variable: a
behaviour is one of one module, chosen in the initial state, while the others rest.

### LightningStore

| variable | code |
| --- | --- |
| `status`, `config` | the rollouts; `"absent"` is a rollout not created yet |
| `attempts` | per rollout the sequence of its attempts; `sequence_id` is the position |
| `clock` | what the watchdog computes from the times of the latest attempt: it has a heartbeat (`beat`), its age is over `timeout_seconds` (`late`), its silence is over `unresponsive_seconds` (`silent`) |
| `queue` | `rollout_queue` |
| `workers` | status, current rollout and attempt of each worker |
| `running`, `completed` | `_running_rollout_ids`; the completion events that are set |

Every operation is one action named after it; what they share is shared in the
model too (`UpdateRolloutUnlocked`, `PropagateStatus`, `SyncWorkerWithAttempt`,
`OnRolloutUpdate`). `Healthcheck` is an action of its own, not a part of the
operation that called it: the lock is released between the two, and when another
call has set `_healthcheck_running` it is skipped. It may therefore happen at any
time, which includes every schedule of the code. It treats the watched rollouts
at once, because it holds the lock; the order in which it takes them is a
nondeterministic order of the requeued ones, and of the writes to a worker that
owns several attempts.

A `timeout_seconds` or `unresponsive_seconds` is TRUE when it is not None. Inputs,
modes, metadata, resources, timestamps other than the three flags and the calls
that raise because a rollout or an attempt does not exist (nothing has changed by
then) are left out.

`WorkQueue` is the abstract specification: the tasks that wait, which of them is before
which, and a number of tries for each. Who has nobody before it is claimed; tasks may arrive
anywhere (a rollout whose old entry is still in the queue takes its old place when it is
sent back), leave unclaimed, or be started around the queue. The store is mapped to it by
`Line` and `AheadOf`, at the end of `LightningStore`: the waiting tasks are the entries whose
rollout waits, in the order of the queue.

### RunnerSystem

Extends the store with `runner`, one record per worker: where it is in `iter`, which
attempt it was given, the outcome it is about to send and how often the call at hand
was sent in vain. `Poll`, `Register`, `FetchResources`, `EmitSpan`, `FinishRollout`,
`SendOutcome`, `StartOwn` (which is `step`), `EmitHeartbeat` are the runner's own
steps, each containing the store operation it calls. `Sent` is `_request_json`: a
call has its effect and is answered, or the answer is lost, with or without the
effect, and the client tries again or gives up. `Poll` may lose its answer and never
asks again. `CancelRollout` is the cancellation of the task that runs `iter` while it
awaits the agent (`SharedMemoryExecutionStrategy` cancels after a grace period): a
CancelledError is not an Exception, so the `finally` block sends the outcome and
`iter` ends. `Crash` is the end of a runner's process. `LateSpan` is a span from
elsewhere (the LLM proxy, a tracer's queue). `earned` is a history variable: the
attempts whose agent returned.

Not modelled here: a request that takes effect after its client gave up on it (that is
in `StoreCalls`); `max_rollouts` and the stop event, which end a runner between rollouts
as `Crash` does; hooks. `Retries` is the length of the retry schedule.

### RolloutWaiter

Extends the runners with `waiter`, per rollout one call of `wait_for_rollout`:
`WaitForRollout` is the first look, `Wake` the return of `evt.wait`, `GiveUp` its
timeout, `LookAgain` the second look. `Intervene` is a caller's `update_rollout`.

### SpanStore

The counters, spans and books of memory; `Evictable` is the loop of
`_maybe_evict_spans` as the set of rollouts it evicts, `StoreSpan` the in-memory
`_add_span_unlocked`. A span sent twice is accounted twice, a span for an unknown
attempt raises after the counter has moved (`Reject`), both as in the code. `issued`,
`highest` and `accepted` are history variables. What a span does to statuses is
`AddSpan` of LightningStore; the two modules share no variable.

### StoreCalls

Callers with one call each: an operation and a route (`http`, or `direct` from a thread of
the owner's process). Every try of a client is an execution of its own in `exec`, which
may go on after its client lost patience: `Enter` takes the lock or joins the loop, `Read`
and `Write` are the two halves of the operation, `Rerun` and `TransactionFails` what
MongoDB's transactions do. `lock` is the `threading.Lock` of the server or of the threaded
wrapper; that calls of one event loop are serial in an in-memory store is the guard of
`Enter` (`SameLoop`). `Unanswered`, `Retry`, `GiveUp` are the client's loop in
`_request_json` with its health probe. What operations do to rollouts is reduced to one
datum each: a queue, a claim, a counter, the status of an attempt that is overdue.

### Collections

Items have two primary keys, as attempts and spans have, and one more field. `Mutate` writes a
batch item by item (in MongoDB all or nothing), `Evict` is the removal of a branch. `Walk` is
`_iter_matching_items` with the prefix of keys that the filter fixes, `Scan` the walk of
everything, `MongoMatches` the translated filter, `Filters` the filters that the store's own
queries build; `Those` (in `Selections`) takes out of a sequence what is in a set, here the set
of the items a filter matches. `nodes` keeps the order of the outer dict, `size` the counter.

### Execution

One call of `execute()`. `plan` holds the strategy's settings as its constructor accepts
them, chosen in `Init`, so that one specification covers both strategies, every role
and either side on the main thread. `bundle` is the state of each thread or process,
`phase` the place in `execute()`: in `main` the caller's thread runs a bundle, in
`await` it joins without a timeout, then come the joins of the shutdown, for processes
one after each signal. `temper` is what it takes to stop a bundle: the event, a
cancellation or SIGINT, SIGTERM, or SIGKILL. The trainer's runner heeds the event; its
algorithm does not see it (`_algorithm_bundle` passes it on to nobody) and may block the
event loop.

In shared memory `WatcherCancels`, `TakeCancel` and `AbandonAfterGrace` are the parts of
`_run_until_completed_or_canceled`; `CtrlC` cancels the coroutine that waits for the
bundle (`draining`), as asyncio does since Python 3.11, and the second time raises. In
client-server mode `Escalate` is `_shutdown_processes`, and `CtrlC` may reach the whole
process group or the main process alone. `MainEnds`, `AwaitEnds` and `JoinEnds` are the
rest of `execute()`. Two timing facts are built in: a thread that can be cancelled has
been by the time its join times out (`join_timeout` is 15 seconds, two grace periods
are 10), and SIGKILL works. `MaxInterrupts` bounds Ctrl+C.

Not modelled: starting the children, Python 3.10, where Ctrl+C raises in the event loop
at once, the store server's own life, and `ipc`, which is a stub.

### ServerLauncher and LlmProxy

Every call of `start()` that gets past its guard makes a server of its own, with a number.
`server[s]` holds the serve task, the thread or process around it (`host`), and what it
reported through the event queue. `Ready`, `StartupFails`, `HealthFails`, `KillEnds`,
`Fails`, `HeedsStop`, `Closes` are the watchers and hosts of the three modes, with uvicorn
or gunicorn; `Start`, `StartReturns`, `StartFails`, `JoinEnds`, `NoEvent`, `StartCancelled`,
`Stop`, `StopReturns`, `StopCancelsTask`, `StopTimesOut` the caller. A server heeds the
request to exit, lingers until it is cancelled, or hangs; it may also die, and a process be
killed. A timeout expires on those only who would not answer in time: `EndsInTime` says who
would. `MaxStarts` bounds the starts.

`LlmProxy` adds the guards of `start` and `stop` of the proxy and `_serve_context`: the set of
configuration files that exist, and per process the value of `_config_file`.

### ProxySpans

A request gets its sequence id (`Number`), its spans end in any order on any thread
(`Export`), and the thread goes through `export()`: the lock is found or made (`ClearLock`,
`EnsureLock`), the span is appended under it (`AppendSpan`), trees are taken out root by
root (`PopSubtree`), their identifiers are read from the headers in them (`AssignBuffer`),
and they are sent (`Send`, `SendFails`). `locks` is a sequence because two threads may make
a lock each.

### StreamConversion

`Content`, `Slices` and `TextChunks` cut texts and arguments as the code does, over texts of
characters with spaces among them; `OpenAIStream` and `AnthropicStream` are the events in
their order, `Handle` is `dispatch`. The client that puts pieces together again (`Collected`,
`Starts`) is the reference definition that `StreamIsComplete` compares with: it does not know
how the pieces were cut. What walks a text is a recursive function, from each place to the
next; `MaxBlocks` bounds the blocks of an answer.

### VerlDaemon

The daemon's loop (`SetUp`, `QueueTask`, `Collect`, `AllFinished`, `TakeBatch`) and, in mode
v0, the server's queue, claims and results (`NextTask` with its stale-task check,
`StoreRollout`) and the clients that lose tasks (`Lose`). In mode v1 the store stands
behind the same queue: a lost task ends there as a failure, because the daemon's rollouts
have a timeout. `MaxCrashes` bounds the losses.

### BeamSearch

Prompts are version numbers, scores may be anything in `Scores`. `Sample`, `Edit`, `Judge`,
`Select`, `Lead` are the parts of a round; an edit may yield nothing; `Raises` is a failure
anywhere. `scoredIn` and `full` are history variables.

### TraceTree

Spans have parents that may be missing, times that may be equal, and a kind: call, reward
or plain; no span is below itself (`ParentsFirst`). `FromSpans` builds the tree with the roots
it invents; `RepairHierarchy` moves calls, one child of the fork after the other
(`Repaired`), each below the tightest of the spans that enclose it (`Adopted`); `FindCalls` is
the search with its flags and its set of response ids, `Rewards` the matching, item by item in
the order of their times (`HandedOut`); `AdaptBySequence` is the whole of the other adapter.

Where the code recurses over a tree, the model has a function of the number of levels looked
at: `Down` is `traverse`, and `FindCalls` is defined for visits, which are the arguments of a
call of `find_llm_calls`. Both are taken at `Depth`, the number of nodes, where the tree has
ended (`NothingIsOutside`, among the proofs).

`RewardsFindTheirCalls` says of a reward which calls *may* have it and which it is *due* to. By
time it may go to a call that is over when the reward begins (`Over`), and is due to those that
also began before it (`Due`): a call that takes no time and begins with the reward comes before
or after it by the order of the tree. By number the two are the same (`Numbered`).

### Mutants

Operators named `Mutant...` are plausible bugs of the definition that follows them: a
dropped guard, a forgotten reset, a wrong order. No specification refers to them.
PROJECT.json pairs each property of each passing run with one; the property fails
when the mutant takes the definition's place, which shows that it can fail.

## 4. The runs

| run | instance | shows |
| --- | --- | --- |
| `store_api` | 1 rollout, 1 worker, 2 attempts, 3 configs, every status, report and heartbeat the API takes | `NoLostRollout`, `RunningCacheExact`, `BusyWorkerIsOnLiveAttempt`: whatever callers do |
| `store_queue` | 2 rollouts with a timeout and a retry, 2 attempts, enqueued, sent back, revived by spans | `NoDoubleEntry`; `ImplementsWorkQueue`: claims are first come, first served; `QueuedIsServed`, `TimeoutIsEnforced` |
| `runners_faults` | 1 rollout, 2 runners, 1 retry per call, every fault | `AttemptsAreExclusive`, `RetryBudget`, `StatusAgreement`, and `Spec`: the runners' steps are steps of the store |
| `waiters_live` | 1 rollout with a timeout, 2 runners that die and lose replies, a caller who cancels, a waiter | `SuccessIsEarned`, `EveryRolloutEnds`, `EveryWaitEnds` |
| `storage` | spans: 2 rollouts, 3 spans of 1, 2 and 3 bytes, thresholds 5 and 2, ids up to 2. Calls: 3 callers, 2 tries, 3 back ends. Collections: 2 items, 2 values per field, every filter of the store's queries | `MemoryIsBounded`, `AnswersAreComplete`, `SequenceIdsAreFresh`, `OldestGoFirst`; `NothingTwice`, `LossesAreBounded`, `ReportStandsOnOneLoop`, `CallsFinish`; `QueriesAreComplete` |
| `serving` | 2 starts in every mode and setting; 2 requests with trees of 3 and 2 spans on 2 threads; answers of up to 2 blocks with texts of up to 4 characters | `OnlyTheStubbornRemain`, `CallsEnd`, `ConfigWhileServing`; `StoredUnderOwnIds`, `KeptOnceStarted`; `StreamIsComplete` |
| `training` | executions: up to 2 runners, all settings, all tempers, 2 Ctrl+C. Daemon: batches of 2 and 1 tasks, 2 clients, 2 losses. Search: beam 2, 2 rounds, 2 scores. Traces: 3 spans of any shape, 4 calls and rewards with any times or numbers | `OutcomeIsTrue`, `NothingLeftBehind`, `AlgorithmRunsToItsEnd`, `StopLeadsToTheEnd`; `TasksAreKept`, `BatchIsOwn`, `BatchesFinish`; `RankedOnOneBatch`, `BestOfTheWhole`; `NothingIsLost`, `RewardsFindTheirCalls` |
| `runners_cancel` | 1 runner, cancellable | violates `SuccessIsEarned` |
| `waiters_reopened` | 1 runner, a caller who cancels | violates `NothingOnlyAfterTimeout` |
| `execution_ctrlc` | executions, 1 Ctrl+C | violates `InterruptSetsStopEvt` |
| `calls_wait` | the calls of `storage`, in memory and behind threads | violates `ReportStands` |
| `triplets_dedup` | the traces of `training` | violates `ResponsesAreDistinct` |

### Bounds

`AttemptBound` (2) caps attempts: two are needed for a latest attempt and one
given up before it, and every rule of the code compares an attempt with the latest one
only. One rollout is enough where rollouts do not meet (statuses, attempts, caches);
they meet in the queue, where two are taken, so that one may be claimed or stale while the
other waits behind it. Two runners are needed for one to be late with an attempt
the other has taken over. `Retries` 1 lets a call have effect twice. `SequenceBound` 2 is
enough for an id that comes after one that was skipped. The sizes and thresholds of
the spans make one rollout's eviction enough in some states and not enough in
others. `SYMMETRY` is used for workers in `runners_faults`, which checks no liveness.

`MaxTries` 2 lets the first try of a call run before, after and between the steps of the
second. The plans of `MCStorage` are the calls that meet: three that want an id, by both
routes; one that enqueues what two want to claim; a report next to a wait, by either route.
Two items are enough for one to be in the branch a query walks and one outside, or both in
it; pages of one item then have a next one. Of the values one is the upper case of the
other, which is where the back ends may differ.

Two starts let a server that was left behind meet its successor. Two requests on two threads
mix their spans in the buffer; the tree of three has a span between root and leaf that may
be late. `ContentSize` 2, `ArgumentSize` 3 and `ChunkWords` 1 put the ends of pieces at, before
and after those of texts of 0 to 4 characters. An exporter that is new to its process is
explored with one setting of the others.

Executions take two runners, so that one may fail while another is deaf, and two
Ctrl+C, because the second is handled differently from the first and may fall into the
shutdown. The daemon's second batch meets what is left of the first. Beam 2 with two rounds
has survivors, newcomers and a full beam that loses a member. Three spans make a chain, a
pair under a root, or cousins with a lost parent; four make two calls with two rewards.

Deadlock is checked in the runs of the store and the runners. The three shared runs and
`execution_ctrlc`, `calls_wait` and `triplets_dedup` do not check it: `execute()`, calls,
batches, searches and adapters come to an end, and a launcher out of starts rests.

### What the violations show

* `runners_cancel`. `_step_impl` (`runner/agent.py:530`) reports *failed* when
  `has_exception` is set, which `except Exception` does. Cancelling the task raises
  CancelledError, which passes it by: the `finally` block reports *succeeded* for an
  agent that was interrupted.
* `waiters_reopened`. A comment says that a rollout never goes from finished to running
  (`store/memory.py:190`) and the completion event is never cleared. `update_attempt`
  does reopen a finished rollout: it propagates the status of the latest attempt
  whatever the rollout's status (`store/collection_based.py:1060`). A rollout is claimed,
  cancelled by a caller, and registered by the runner: it is *preparing* again. Whoever
  waits for it without a timeout finds the event set, looks, and returns None, where
  the contract (`store/base.py:489`) has them wait for a terminal status.
* `execution_ctrlc`. With the runner on the main thread, the default, Ctrl+C cancels the
  coroutine that waits for the runner. It gives the runner `graceful_delay`, cancels
  it, and returns from its `finally` block (`execution/shared_memory.py:144`), which drops
  the cancellation: no KeyboardInterrupt is raised, the event is not set, and
  `execute()` joins the algorithm's thread, which waits for rollouts nobody runs.
* `calls_wait`. A wait needs no lock because it changes nothing
  (`store/threading.py:185`), but its health check does. It reads an attempt that is overdue
  and still running, a report makes it succeeded and is answered, and the check writes
  *timeout* over it. In memory it takes two event loops, a wait called directly from a
  thread next to a report over HTTP, or two threads on a `LightningStoreThreaded`;
  `ReportStandsOnOneLoop` in `storage` shows that nothing else does it.
* `triplets_dedup`. The set of response ids that is to be shared by the whole search is
  empty when it starts, and an empty set is replaced by a new one
  (`adapter/triplet.py:379`): each branch deduplicates for itself, and siblings with the
  same id both become triplets.

## 5. Fairness

* `store_queue` assumes that runners poll (`iter` loops on `dequeue_rollout`), that the
  watchdog runs (each poll runs it before its body) and that time passes (`Age`).
* `waiters_live` assumes weak fairness of each runner's steps (they are a loop of
  awaits; the agent returns, and calls of the store are bounded by timeouts), of
  `Healthcheck`, of `Age`, and of the waiter's thread and coroutine (`Wake`,
  `LookAgain`). A runner that has died takes no step and fairness asks for none, nor
  for cancellation, loss or death. One runner survives: with nobody polling nothing
  runs the watchdog but the other callers. Nothing is assumed of silence
  (`FallSilent`), so the liveness results rest on `timeout_seconds` alone: for rollouts
  without a timeout they do not hold (a claim lost with its reply is never taken back).
* `CallsFairness`: an execution that may go on does (a loop, a thread or a transaction; what
  waits for the lock gets it when it is free, which weak fairness grants as each caller
  takes it a bounded number of times), and a client gets its answer, or its timeout expires.
  Nothing is assumed of answers: losing them all is fair.
* `LauncherFairness`: the caller's timeouts expire, and watchers and hosts do what the code
  of the module makes them do. No server is assumed to come up, to answer its probe, to die
  or to heed. `CallsEnd` excludes one case for which nothing in the code limits the wait: a
  server that lingers on the caller's own loop after it failed its probe.
* `ExecutionFairness`: timers expire, the caller's thread goes on and a bundle which polls
  the event returns after it is set; nobody is assumed to finish by itself.
  `StopLeadsToTheEnd` is claimed only when the bundles `execute()` waits for without a timeout
  can be stopped. For the others it is false: in client-server mode nothing cancels an
  algorithm on the main process when the runners have failed.
* `DaemonFairness`: the daemon polls, clients ask for tasks and post what they have not
  lost, and a task nobody works on gets late. Losses are bounded, as otherwise every claim
  might be lost.

## 6. The proofs

The theorems hold for every value of the constants, under the assumptions named in the modules
(types of the constants, pieces of at least one character or word, that `max_attempts` of the
configs lies within `AttemptBound`, that the value for "no thread" is not a thread, that the
names which stand for no span, a lost one and the virtual root are three and no spans, and that
a trace is a sequence of spans in the order of their numbers without one that is below itself).
Three have a hypothesis of their own, which is that of the run that checks the property: nobody
opens attempts by hand (`StoreImplementsWorkQueue`), no runner is cancelled and no caller
writes *succeeded* (`SuccessEarned` and the same among waiters; `runners_cancel` shows the
first is needed).

`LightningStoreProofs`, four layers:

1. `TypeCorrect`: one lemma per operation.
2. `StoreInv == TypeOK /\ QueueInv /\ CacheInv` gives `NothingLost`, `NothingDoubled`,
   `CacheExact` and `Signalled`. `NoLostRollout` is not inductive by itself: that the
   queue holds no rollout twice, and none that does not exist (`EntriesExist`), is
   what makes claiming one entry, and creating a rollout, harmless to the others. All
   writes but three go through `UpdateRolloutUnlocked`, so one lemma (`UpdateSafe`)
   carries most of the work.
3. `AttemptInv` adds, rollout by rollout (`RolloutInv`), the relation between a rollout
   and its attempts: `WatchdogMissesNone`, `RetriesBounded`, `StatusesAgree`. Budget and
   agreement need each other: a retry is within the budget because the attempt before
   it was retriable, which is a clause of the agreement. `WorkersTracked` is an
   invariant of its own over `TypeOK`.
4. `StoreImplementsWorkQueue`: `Init` maps to the empty line, and each operation to a step of
   `WorkQueue` or a stutter. The line is exactly the rollouts that wait, each with one entry
   (`LineFacts`, from layer 2), so an update of a status lets one rollout arrive at its
   entry, wherever it is, or withdraw it (`UpdateMapsToLine`); a claim takes the first
   entry whose rollout waits, the stale ones before it being in nobody's order (`Claims`).
   Only claims and `start_rollout` open attempts, the latter for a rollout that has none
   as it did not exist (layer 3); the watchdog touches nobody in line because its cache
   holds only running rollouts.

`RunnerSystemProofs`: `RunnersUseTheStore` (`RunnerSpec => Spec`) says that every step of
the system is a step of the store or leaves it alone, so that all of the above holds of
it; the invariant is that a runner's attempt exists (`RunnerInv`). `OneRunnerPerAttempt`
follows because a runner gets an attempt only when it is created. `WaitersUseTheStore` is
the same for the system with waiters. `SuccessEarned` follows the word *succeeded* back to an
agent (`EarnedInv`): a rollout has it from an attempt (`SuccessIsEarned`), an attempt from a
report (`SuccessesEarned`), and who is about to report it has done the work or sends again
what it has sent (`ReportsEarned`). Each operation of the store is characterised once by what
it can make succeed (`SuccessFrom`); `SuccessEarnedAmongWaiters` reuses those lemmas.

`StorageProofs`, the spans: `SpanInv` says that the counter is never behind the highest id seen
and that a rollout not marked evicted holds all it took in, with a positive account if it holds
anything, which is why eviction cannot pass it by unmarked. It yields `AnswersComplete` and
`SequenceIdsFresh`; `OldestFirst` needs only that the evicted rollouts are a prefix of those by
start time (`EvictsFromOldest`). `MemoryBounded` is about sums over sets: `MemoryInv` says that
the total is the sum of the accounts, that an account covers what its rollout holds, and that
the total is within the threshold. Eviction goes on until the total is down to `SafeThreshold`
or nothing is left (`EvictsEnough`), and it empties an account only with the rollout's spans,
also for a span sent twice, which is accounted twice. The laws of sums (`SumFirst`, `SumSplit`,
`SumMonotone`, `SumWithout`, `SumWith`) rest on an induction over finite sets that is stated
for a set of sets instead of a predicate: `SubsetInduction`, from `Least`, the well-foundedness
of the naturals.

`StorageProofs`, the calls: `CallsGiveNothingTwice`. `CallsInv` goes from the store to the callers:
who needs the lock and is inside has it, so that the number it read is still the number
(`Locked`); what executions answered was handed out (`HandedOut`), to each its own (`Apart`);
and what a caller got is the answer of one of its own tries (`OwnAnswer`, `Tried`). In
MongoDB the transaction takes the place of the lock: a stale number conflicts.
`ReportsStandOnOneLoop`: of the executions of one event loop one is inside at a time
(`Alone`), so a wait that has read a running attempt finds it as it was unless the report
ran on another loop (`WaitsAreCurrent`), and a report that was made stands (`ReportsStand`).
`LossesBounded` counts: an entry of the queue belongs to a try that ended (`OnePerTry`,
`AnswersPoint`), a claim is tried once (`OneTry`) and takes one entry (`OnePerClaim`), so what
nobody knows of is no more than the tries whose answer did not arrive.

`StorageProofs`, the collections: `QueriesFindEverything`, for any values, whatever their case
folds to, and any number of items; the filters are those of the store. `CollInv` says that no
two items have the same keys (`Keyed`), and that in memory every item is in a branch, one for
each first key (`Branched`); a batch keeps both, item by item, as far as it may be written
(`StepsAre`, `BatchLengthIs`, `BatchKeeps`). That a branch is enough takes three steps: an item
that matches has the exact values the filter gives for a key (`ExactValuesHold`), so all that
match are in one branch if the filter has a prefix (`UnderPrefix`); what is found in a scan is
what is found in its branches (`ThoseFlatten`), of which all but one yield nothing
(`ScanOfOne`). That nothing is found twice, or missed, is that branches are disjoint and hold
everything (`ScanHolds`). The laws of `Those` are inductions over sequences (`Appending`); what
a batch leaves is a function defined from 0 up, which exists by `UnfoldExists`.

`SequenceLemmas` holds what the proofs about collections, streams, traces and the beam search
share: induction for sets of numbers and of sequences (`CountingUp`, `Appending`), the laws of
`FlattenSeq`, of `Those` and of what sequences hold (`FlattenHolds`), functions defined from 0
up (`UnfoldExists`), and sorting. The models sort by the place that an item has among the
others (`Place`); in an order (`Orders`) places are distinct and within the length, hence all
taken (`PlacesAreTaken`, a pigeonhole argument), so that what is sorted is what there was, each
once and in order (`SortedByIs`).

`LlmProxyProofs`, the spans: `ProxyStoresUnderOwnIds`. A request has its number before its spans end
(`Numbered`), a tree in a thread's hands is of one request and goes out under that
request's identifiers (`OneRequest`). It holds with any number of lock objects, hence even
while two threads write the buffer at once.

`ProxyKeepsSpans` is for an exporter that is past the making of its
lock (`KeptInv`): one thread is inside at a time (`Serialized`), what it has taken out of the
buffer and not stored is in its hands (`Flushing`), so that a span that ended is in the
buffer, in somebody's hands, stored or refused (`Accounted`), and an export leaves no root in
the buffer unless it failed (`Flushed`).

`LlmProxyProofs`, the launcher and the proxy: `LauncherLeavesTheStubborn`. `LauncherInv` says
what an event, a host and a server's task may be together (`Sound`), that servers begin in
their order (`Begun`), whom the caller holds in which phase (`Caller`), and that before the
next start even that one is gone or would not heed (`NothingToHold`), which is what makes
forgetting it harmless. `ProxyUsesTheLauncher` (`ProxySpec => LauncherSpec`) makes all this
true of the proxy, whose `ProxyKeepsItsConfig` adds who owns which file (`ContextInv`): a
process has a name of its own (`OwnFiles`), threads share the latest one, which an earlier
server cannot delete any more because it has ended (`OneName`).

`StreamConversionProofs`: `StreamsAreWhole`, for texts of any length, pieces of any size and
answers of any number of blocks. The invariant (`StreamInv`) only says that a reply is the
stream of its answer; the proof is that the streams are complete, in four layers:

1. `FlattenSeq` is what a client does. Its laws (`FlattenOneMore`, `FlattenConcat`,
   `FlattenCons`, `FlattenLone`, in `SequenceLemmas`) are induction over lengths. As the prover
   cannot instantiate an induction principle with a predicate, `CountingUp` and `CountingDown`
   state it for a set of numbers, from the well-foundedness of the naturals (`WFMin`).
2. The cuts. A walk whose next place is always further right is a defined function
   (`WalkExists`); that pieces of content end inside the text and not before they begin
   (`PieceEnds`) makes `Content` such a walk, and from the last piece backwards the rest of
   the pieces is the rest of the text (`ContentAddsUp`). Pieces of a fixed size end at
   multiples of it, the last at the end (`CutsExist`), and prefixes telescope (`Telescopes`):
   `SlicesAddUp`. For Anthropic's text the same cuts are made in the words: a piece, and the
   space after it unless it is the last, is a piece of the words each with its space
   (`SomeJoined`, `ChunksAddUp`).
3. The events. What a client collects of a kind and an index from runs of events one after the
   other is the sum of what it collects from each (`CollectedConcat`, `CollectedFlatten`), and
   a block's events say something under its own index only (`BlockAddsUp`, `CallAddsUp`), so
   that blocks do not mix (`RunsOwn`).
4. The streams, `AnthropicComplete` and `OpenAIComplete`: head, runs and tail. In the model
   OpenAI's content has index 0 and the calls count from 1, where the code has them in two
   fields of a delta.

`TrainingProofs`, the daemon and the beam search. `DaemonTasksAreKept` and `DaemonBatchIsOwn`:
`BatchInv` ties the number of tasks queued to the set of them, so that as many results as
tasks, all of them known, are all results; `ServerInv` says that only tasks that were issued
are anywhere. The queue loses and gains elements without repetition by lemmas on injective
sequences. `SearchKeepsTheBest`: while there is no result on the whole set the best score is
the lowest, so the first result becomes the best (`BeamInv`). `BeamIsRankedOnOneBatch`: between
the evaluation and the choice of the leader all candidates have the score of the round
(`RoundInv`); the ranking is a sequence of the candidates because ranks are places
(`RanksArePlaces`, `RanksAreTaken`), so a beam has only candidates, and versions enough for
every branch keep a new prompt from taking an old one's score.

`TrainingProofs`, the executions, for any set of runners and any number of Ctrl+C: `OutcomeTrue`,
`NothingLeft`, `AlgorithmUndisturbed`. `IInv` adds to them where each failure is on its way
to the caller (`MainIsDone`, `PendingHasCause`), that who is shut down has been told
(`ShutdownIsTold`), and that the event is set, or a bundle interrupted, for a reason
(`StopHasCause`, `InterruptHasCause`); an interruption by the escalation has its reason in
the event, and the event in the end of the algorithm, so the two need each other.

`TraceTreeProofs`, for traces of any length, any times and any response ids:
`TreeHasEverySpan` and `EveryRewardFindsItsCall`. Its functions over levels are what they are
defined to be by `UnfoldExists` (`DownIs`, `FindCallsLevels`), and what is at most d levels
below a node (`In`) is the node itself and what is at most d - 1 levels below its children.

1. `TreeInv` has two halves. `Shape`: a node is the child of at most one other, once, and the
   top of none. `Linked`: what is in the tree is on top or below something in it, and *above*
   is an order that every link respects if the times are right. The order (`Above`) is that of
   the enclosing times, and among equal times that of the parents: it is what is left of "no
   span is below itself" once the repair has moved spans by their times: a span is moved only
   below one that spans strictly more (`AdoptedIs`, `MovedLinked`). `FromSpans` makes such a
   tree (`FirstTreeShape`, `FirstTreeLinked`), with Lost as long as its children
   (`LostCovers`), and each step of the repair keeps it (`RepairedKeeps`).
2. Nothing is there twice because of the shape alone: what is below two children is different
   (`BranchesAreDisjoint`, `DownIsInjective`). Nothing is outside because of the links:
   whatever is in the tree has a way up that never comes to the same node twice, so it ends at
   the top, within as many levels as there are nodes (`NothingIsOutside`). `WellTimed` is the
   property's own hypothesis; section 7 has what happens without it, and `Shape` does not need
   it.
3. `TripletInv`: the triplets of an adapter that has finished hand out every reward
   (`AllHandedOut`): a call has at most one, which it may have, and each reward has a place at
   which it went to a call or found all it was due to with rewards they got before
   (`HandingOut`, an induction over the items). For a tree that takes items in the order of
   their times (`ByTimeIs`) and calls that are spans of the tree (`FindCallsAre`, whatever is
   seen on the way); for the proxy's spans, that they come by number
   (`SequencesAreHandedOut`) and that no two calls have one response (`ProxyCallsAre`).

Every invariant and every action property that a passing run checks is proved. Only
model-checked:

* Everything under fairness: `QueuedIsServed`, `TimeoutIsEnforced`, `EveryRolloutEnds`,
  `EveryWaitEnds`, `CallsFinish`, `CallsEnd`, `BatchesFinish`, `StopLeadsToTheEnd`.

## 7. Known gaps

Hazards PROJECT.json lists without a property, and what reading the code showed beyond them:

* Two threads that end the first spans of a process may make a lock each and overwrite each
  other's buffer (`llm_proxy.py:222`): `KeptOnceStarted` claims its result only for exporters
  that are past it. The children of a root that was flushed before they ended stay in the
  buffer for ever (`llm_proxy.py:183`).
* The VERL daemon sets a rollout's timeout in a second call, after a runner may have claimed
  it (`verl/daemon.py:404`); a change of the proxy's address does not reach a proxy that runs
  (`verl/daemon.py:347`).
* A span sent twice is stored once and accounted twice (`store/memory.py:226`): eviction
  sets in early, and `MemoryIsBounded` bounds what is accounted.
* `start_attempt` does not look at `max_attempts` (`store/collection_based.py:387`);
  `RetryBudget` excludes attempts opened by hand.
* A late report on an old attempt sets its worker to idle although it may be busy with
  another one (`store/collection_based.py:190`). `BusyWorkerIsOnLiveAttempt` is the half of
  the relation that holds.
* A wait for a rollout that does not exist answers None where the contract asks for a
  ValueError (`store/memory.py:176`).
* `query_workers` of `LightningStoreThreaded` drops `filter_logic`
  (`store/threading.py:270`).
* MongoDB's *contains* ignores case, memory's does not, and alternatives of which none is
  given match everything in MongoDB and nothing in memory (`store/collection/mongo.py:64`):
  `BackendsAgree`, a part of `QueriesAreComplete`, is claimed for the other filters.
* The pool of MongoDB clients is keyed by the id of an event loop, which may be reused, and
  keeps a lock across an await (`store/collection/mongo.py:246`).
* A deletion of several items in memory stops half way at a missing one, against its comment
  (`store/collection/memory.py:565`), and eviction leaves `_size` as it was (`:704`).
* On the caller's loop a failed startup leaves the serve task running
  (`utils/server_launcher.py:163`), the start may wait without end for a server that
  lingers (`:196`), and a start that is cancelled leaves its server (`:868`).
  `OnlyTheStubbornRemain` and `CallsEnd` name these exceptions.
* A span that outlives its parent can be moved below itself by the repair of the hierarchy:
  `NothingIsLost` assumes clocks that agree. The policy *first_sibling* unpacks the ids of
  siblings as pairs (`adapter/triplet.py:493`).
* APO leaves the rollouts of a batch that timed out in the queue, before those of the next
  one (`algorithm/apo/apo.py:450`).

## 8. Not modelled

* Other algorithms (`algorithm/fast.py`, `algorithm/verl/`): they enqueue and poll, as the
  submitters of `LightningStore` do.
* Tracers: OpenTelemetry's plumbing; what the store sees of it is `AddSpan`.
* Agents, decorators, emitters, `litagent/`: the user's side of the API, without state of its
  own.
* Instrumentation, logging, configuration, CLI, metrics, dashboards, deployment scripts and
  examples: glue, formatting, argument parsing and I/O.
* Of what is modelled: resources, serialisation and OTLP ingestion, sorting and indexes,
  metrics, hooks, the polling version of `wait_for_rollouts` in the base class, the threads
  of the HTTP server, LiteLLM itself and its callbacks, the texts of prompts, the tensors of
  the VERL trainer, the extraction of tokens from spans and their conversion to messages, and
  the start of child processes.
