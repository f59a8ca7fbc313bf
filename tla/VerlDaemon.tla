------------------------------ MODULE VerlDaemon ------------------------------
(***************************************************************************)
(* AgentModeDaemon (verl/daemon.py) and who it works with: batch after batch *)
(* it queues tasks, waits for all of them and hands the results to the       *)
(* trainer.  In mode v0 the tasks are kept by the legacy server (server.py), *)
(* which gives a task to a second client when the first one is late; in mode *)
(* v1 by the store, of which only the outcome matters here.                  *)
(***************************************************************************)
EXTENDS Integers, Sequences, SequencesExt, FiniteSets

CONSTANTS
  Batches,      \* a sequence of sets of tasks: what the trainer asks for
  Clients,
  Idle,         \* a client that has no task
  MaxCrashes    \* bound on the tasks that clients lose

Tasks == UNION {Batches[i] : i \in DOMAIN Batches}

ASSUME DaemonAssumption ==
  /\ Batches \in Seq(SUBSET Tasks)
  /\ \A i, j \in DOMAIN Batches : i # j => Batches[i] \cap Batches[j] = {}
  /\ Idle \notin Tasks
  /\ MaxCrashes \in Nat

VARIABLES
  mode,         \* v0 or v1
  batch,        \* the batch the daemon is at
  doing,        \* where the daemon is
  known,        \* the keys of _task_id_to_original_sample
  total,        \* _total_tasks_queued
  done,         \* the keys of _completed_rollouts_v0
  queue,        \* the tasks nobody has claimed
  processing,   \* v0: the keys of _processing_tasks
  late,         \* v0: those claimed longer ago than _task_timeout_seconds
  completed,    \* v0: the results not yet retrieved.  v1: the rollouts that are finished
  claim,        \* [Clients -> the task the client works on, or Idle]
  crashes

daemonVars ==
  <<mode, batch, doing, known, total, done, queue, processing, late, completed, claim,
    crashes>>

daemonSide == <<mode, batch, doing, known, total, done>>
serverSide == <<queue, processing, late, completed>>

DaemonInit ==
  /\ mode \in {"v0", "v1"}
  /\ batch = 0
  /\ doing = "idle"
  /\ known = {} /\ total = 0 /\ done = {}
  /\ queue = <<>> /\ processing = {} /\ late = {} /\ completed = {}
  /\ claim = [c \in Clients |-> Idle]
  /\ crashes = 0

-----------------------------------------------------------------------------
(* The daemon.                                                             *)

\* clear_data_and_server; the server keeps what it has.
SetUp ==
  /\ doing = "idle"
  /\ batch < Len(Batches)
  /\ batch' = batch + 1
  /\ doing' = "setting"
  /\ known' = {} /\ total' = 0 /\ done' = {}
  /\ UNCHANGED <<mode, serverSide, claim, crashes>>

\* add_task, or enqueue_rollout of the store.
AddTask(t) == queue' = Append(queue, t)

\* The tasks are queued one by one, and clients may claim them meanwhile.
QueueTask ==
  /\ doing = "setting"
  /\ \E t \in Batches[batch] \ known :
       /\ AddTask(t)
       /\ known' = known \cup {t}
       /\ total' = total + 1
       /\ doing' = IF known' = Batches[batch] THEN "running" ELSE doing
  /\ UNCHANGED <<mode, batch, done, processing, late, completed, claim, crashes>>

\* Whatever arrives is taken for a result of the batch.  (A plausible bug of Own.)
MutantEveryResult(results) == results

\* Results of tasks that are not of this batch are skipped.
Own(results) == results \cap known

\* One round of _async_run_until_finished.
Collect ==
  /\ doing = "running"
  /\ Cardinality(done) < total
  /\ done' = done \cup Own(completed)
  /\ completed' = IF mode = "v0" THEN {} ELSE completed
  /\ UNCHANGED <<mode, batch, doing, known, total, queue, processing, late, claim, crashes>>

AllFinished ==
  /\ doing = "running"
  /\ Cardinality(done) >= total
  /\ doing' = "finished"
  /\ UNCHANGED <<mode, batch, known, total, done, serverSide, claim, crashes>>

\* The trainer has got its batch or its metrics.
TakeBatch ==
  /\ doing = "finished"
  /\ doing' = "idle"
  /\ UNCHANGED <<mode, batch, known, total, done, serverSide, claim, crashes>>

-----------------------------------------------------------------------------
(* The clients and the server.                                             *)

GoesLate(t) ==
  /\ t \in processing \ late
  /\ late' = late \cup {t}
  /\ UNCHANGED <<daemonSide, queue, processing, completed, claim, crashes>>

\* Stale tasks are dropped.  (A plausible bug of Requeued.)
MutantNotPutBack == queue

\* _check_and_requeue_stale_tasks
Requeued == IF mode = "v0" THEN queue \o SetToSeq(late) ELSE queue

\* GET /task: late tasks are queued again first.
NextTask(c) ==
  /\ claim[c] = Idle
  /\ Requeued # <<>>
  /\ queue' = Tail(Requeued)
  /\ late' = {}
  /\ processing' =
       IF mode = "v0" THEN (processing \ late) \cup {Head(Requeued)} ELSE processing
  /\ claim' = [claim EXCEPT ![c] = Head(Requeued)]
  /\ UNCHANGED <<daemonSide, completed, crashes>>

\* store_rollout, or the end of the rollout in the store.
StoreRollout(t) ==
  /\ processing' = processing \ {t}
  /\ late' = late \ {t}
  /\ completed' = completed \cup {t}

\* POST /rollout, which the client tries once.
PostRollout(c) ==
  /\ claim[c] # Idle
  /\ StoreRollout(claim[c])
  /\ claim' = [claim EXCEPT ![c] = Idle]
  /\ UNCHANGED <<daemonSide, queue, crashes>>

\* The client dies, or it finds no resources, or the reply that gave it the task or the
\* request with its result gets lost.  In mode v1 the store notices: the daemon's rollouts
\* have a timeout and one attempt, and fail.
Lose(c) ==
  /\ claim[c] # Idle
  /\ crashes < MaxCrashes
  /\ crashes' = crashes + 1
  /\ completed' = IF mode = "v1" THEN completed \cup {claim[c]} ELSE completed
  /\ claim' = [claim EXCEPT ![c] = Idle]
  /\ UNCHANGED <<daemonSide, queue, processing, late>>

\* What nobody works on any more is late some time.
Abandoned == processing \ {claim[c] : c \in Clients}

DaemonStep == QueueTask \/ Collect \/ AllFinished

DaemonNext ==
  \/ SetUp \/ DaemonStep \/ TakeBatch
  \/ \E c \in Clients : NextTask(c) \/ PostRollout(c) \/ Lose(c)
  \/ \E t \in Tasks : GoesLate(t)

DaemonSpec == DaemonInit /\ [][DaemonNext]_daemonVars

\* The daemon polls; clients ask for tasks and finish what they do not lose; time passes.
DaemonFairness ==
  /\ WF_daemonVars(DaemonStep)
  /\ \A c \in Clients :
       /\ WF_daemonVars(PostRollout(c))
       /\ WF_daemonVars(NextTask(c))
  /\ \A t \in Tasks : WF_daemonVars(t \in Abandoned /\ GoesLate(t))

-----------------------------------------------------------------------------
\* A task the daemon waits for is never forgotten, whatever late results, claims and
\* requeues overtake each other, and the server never has two copies of one.
TasksAreKept ==
  /\ \A t \in known \ done :
       t \in ToSet(queue) \cup processing \cup completed \cup {claim[c] : c \in Clients}
  /\ mode = "v0" => known \ done \subseteq ToSet(queue) \cup processing \cup completed
  /\ IsInjective(queue)
  /\ ToSet(queue) \cap processing = {}

\* What the trainer gets are the results of its batch, all of them and no others, even
\* if tasks of an earlier batch are still being worked on.
BatchIsOwn == doing = "finished" => done = Batches[batch]

\* Every batch is finished.
BatchesFinish == \A b \in DOMAIN Batches :
  (doing = "running" /\ batch = b) ~> (doing = "finished" /\ batch = b)
=============================================================================
