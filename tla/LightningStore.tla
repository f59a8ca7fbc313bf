--------------------------- MODULE LightningStore ---------------------------
(***************************************************************************)
(* The control plane of Agent-Lightning: the rollouts, attempts, queue and *)
(* workers kept by CollectionBasedLightningStore (store/collection_based)  *)
(* with the caches InMemoryLightningStore adds to it (store/memory).       *)
(*                                                                         *)
(* Each operation of the store runs its body inside collections.execute,   *)
(* i.e. under the store's lock, so a body is one action.  The watchdog     *)
(* (Healthcheck) runs under a lock acquisition of its own before most of   *)
(* the bodies, so other operations may come between it and the body: it is *)
(* an action of its own.                                                   *)
(*                                                                         *)
(* Inputs, resources, metadata and spans' contents are left out.  Wall     *)
(* clock time is reduced to what the watchdog reads of it, the latest      *)
(* attempt's age and silence (clock).                                      *)
(***************************************************************************)
EXTENDS Naturals, Sequences, FiniteSets, SequencesExt

CONSTANTS
  Rollouts,        \* identifiers that _generate_rollout_id may hand out
  Workers,         \* identifiers of the runners
  None,            \* no worker, no rollout (Python's None)
  Unset,           \* a parameter left at UNSET
  Configs,         \* the RolloutConfigs callers pass
  UpdateStatuses,  \* the statuses callers pass to update_rollout
  ReportStatuses,  \* the statuses callers pass to update_attempt
  ManualAttempts,  \* do callers use start_attempt?
  ConfigUpdates,   \* do callers replace the config of an existing rollout?
  AttemptBound     \* bound: attempts per rollout

VARIABLES
  status,     \* [Rollouts -> status of the rollout; "absent": never created]
  config,     \* [Rollouts -> its RolloutConfig]
  attempts,   \* [Rollouts -> its attempts; sequence_id is the position]
  clock,      \* [Rollouts -> what the watchdog reads of the latest attempt's times]
  queue,      \* rollout_queue, a sequence of rollout ids
  workers,    \* [Workers -> worker record]
  running,    \* InMemoryLightningStore._running_rollout_ids
  completed   \* rollouts whose completion event is set

vars == <<status, config, attempts, clock, queue, workers, running, completed>>

-----------------------------------------------------------------------------
\* Statuses and records (types/core.py).

RolloutStatus ==
  {"queuing", "preparing", "running", "failed", "succeeded", "cancelled", "requeuing"}

AttemptStatus ==
  {"preparing", "running", "failed", "succeeded", "unresponsive", "timeout"}

IsQueuing(s)  == s \in {"queuing", "requeuing"}
IsRunning(s)  == s \in {"preparing", "running"}
IsFinished(s) == s \in {"failed", "succeeded", "cancelled"}

\* timeout_seconds and unresponsive_seconds: TRUE when they are not None.
Config ==
  [max_attempts : Nat \ {0}, retry_condition : SUBSET AttemptStatus,
   timeout_seconds : BOOLEAN, unresponsive_seconds : BOOLEAN]

DefaultConfig ==
  [max_attempts |-> 1, retry_condition |-> {},
   timeout_seconds |-> FALSE, unresponsive_seconds |-> FALSE]

Attempt == [status : AttemptStatus, worker_id : Workers \cup {None}]

NewAttempt == [status |-> "preparing", worker_id |-> None]

\* Of the latest attempt: beat, it has a last_heartbeat_time; late, it started
\* more than timeout_seconds ago; silent, its last heartbeat (its start, when it
\* has none) is more than unresponsive_seconds ago.
Clock == [beat : BOOLEAN, late : BOOLEAN, silent : BOOLEAN]

JustStarted == [beat |-> FALSE, late |-> FALSE, silent |-> FALSE]

\* current_attempt is the sequence_id of the attempt, 0 for None.
Worker ==
  [status : {"absent", "idle", "busy", "unknown"},
   current_rollout : Rollouts \cup {None}, current_attempt : Nat]

ASSUME StoreAssumption ==
  /\ IsFiniteSet(Rollouts)
  /\ None \notin Workers \cup Rollouts
  /\ Unset \notin Workers \cup AttemptStatus \cup {None}
  /\ Configs \subseteq Config
  /\ UpdateStatuses \subseteq RolloutStatus
  /\ ReportStatuses \subseteq AttemptStatus
  /\ ManualAttempts \in BOOLEAN
  /\ ConfigUpdates \in BOOLEAN
  /\ AttemptBound \in Nat
  /\ \A c \in Configs : c.max_attempts <= AttemptBound

-----------------------------------------------------------------------------
\* Operators named Mutant... are plausible bugs of the operator that follows them,
\* used to show that a property can fail; no specification refers to them.

\* The cache never forgets a rollout.
MutantNeverDiscard(S, st) ==
  /\ running'   = running \cup {r \in S : IsRunning(st[r])}
  /\ completed' = completed \cup {r \in S : IsFinished(st[r])}

\* A cancelled rollout is not signalled.
MutantForgetCancelled(S, st) ==
  /\ running'   = (running \ S) \cup {r \in S : IsRunning(st[r])}
  /\ completed' = completed \cup {r \in S : st[r] \in {"failed", "succeeded"}}

\* What one write does to the caches of the in-memory store: on_rollout_update,
\* called once for each rollout in S with its new status in st.
OnRolloutUpdate(S, st) ==
  /\ running'   = (running \ S) \cup {r \in S : IsRunning(st[r])}
  /\ completed' = completed \cup {r \in S : IsFinished(st[r])}

\* Only a retry is enqueued.
MutantEnqueueRetriesOnly(r, s, q) ==
  /\ status' = [status EXCEPT ![r] = s]
  /\ queue'  = IF s = "requeuing" /\ r \notin ToSet(q) THEN Append(q, r) ELSE q
  /\ OnRolloutUpdate({r}, [status EXCEPT ![r] = s])

\* A retry is not enqueued.
MutantForgetRetry(r, s, q) ==
  /\ status' = [status EXCEPT ![r] = s]
  /\ queue'  = IF s = "queuing" /\ r \notin ToSet(q) THEN Append(q, r) ELSE q
  /\ OnRolloutUpdate({r}, [status EXCEPT ![r] = s])

\* An entry is added although there is one.
MutantEnqueueAgain(r, s, q) ==
  /\ status' = [status EXCEPT ![r] = s]
  /\ queue'  = IF IsQueuing(s) THEN Append(q, r) ELSE q
  /\ OnRolloutUpdate({r}, [status EXCEPT ![r] = s])

\* _update_rollout_unlocked with status s, in an operation that has already
\* brought the queue to q.
UpdateRolloutUnlocked(r, s, q) ==
  /\ status' = [status EXCEPT ![r] = s]
  /\ queue'  = IF IsQueuing(s) /\ r \notin ToSet(q) THEN Append(q, r) ELSE q
  /\ OnRolloutUpdate({r}, [status EXCEPT ![r] = s])

\* One retry too many.
MutantRetryOnceMore(s, n, c) ==
  IF s \in {"preparing", "running", "succeeded"} THEN s
  ELSE IF s \in c.retry_condition /\ n <= c.max_attempts THEN "requeuing"
  ELSE "failed"

\* propagate_status: the rollout's status when its latest attempt, number n,
\* has status s.
PropagateStatus(s, n, c) ==
  IF s \in {"preparing", "running", "succeeded"} THEN s
  ELSE IF s \in c.retry_condition /\ n < c.max_attempts THEN "requeuing"
  ELSE "failed"

\* _sync_worker_with_attempt: the record of the worker of attempt n of r.
SyncWorkerWithAttempt(r, n, s) ==
  CASE s \in {"succeeded", "failed"} ->
         [status |-> "idle", current_rollout |-> None, current_attempt |-> 0]
    [] s \in {"timeout", "unresponsive"} ->
         [status |-> "unknown", current_rollout |-> None, current_attempt |-> 0]
    [] OTHER ->
         [status |-> "busy", current_rollout |-> r, current_attempt |-> n]

-----------------------------------------------------------------------------
Init ==
  /\ status    = [r \in Rollouts |-> "absent"]
  /\ config    = [r \in Rollouts |-> DefaultConfig]
  /\ attempts  = [r \in Rollouts |-> <<>>]
  /\ clock     = [r \in Rollouts |-> JustStarted]
  /\ queue     = <<>>
  /\ workers   = [w \in Workers |-> [status |-> "absent", current_rollout |-> None,
                                     current_attempt |-> 0]]
  /\ running   = {}
  /\ completed = {}

\* start_rollout: the caller runs the rollout itself, it never sees the queue.
StartRollout(r, c) ==
  /\ status[r] = "absent"
  /\ status'   = [status EXCEPT ![r] = "preparing"]
  /\ config'   = [config EXCEPT ![r] = c]
  /\ attempts' = [attempts EXCEPT ![r] = <<NewAttempt>>]
  /\ OnRolloutUpdate({r}, [status EXCEPT ![r] = "preparing"])
  /\ UNCHANGED <<clock, queue, workers>>

EnqueueRollout(r, c) ==
  /\ status[r] = "absent"
  /\ status' = [status EXCEPT ![r] = "queuing"]
  /\ config' = [config EXCEPT ![r] = c]
  /\ queue'  = Append(queue, r)
  /\ OnRolloutUpdate({r}, [status EXCEPT ![r] = "queuing"])
  /\ UNCHANGED <<attempts, clock, workers>>

\* dequeue_rollout first marks the calling worker idle; it leaves the worker's
\* current rollout and attempt as they are.
MarkIdle(w) ==
  workers' = IF w = None THEN workers ELSE [workers EXCEPT ![w].status = "idle"]

\* The entries whose rollout still waits, by position: the others are stale and
\* the loop of dequeue_rollout drops them.
Eligible == {i \in DOMAIN queue : IsQueuing(status[queue[i]])}

\* A retry runs under the number of the attempt it replaces.
MutantReuseAttempt(r) ==
  /\ attempts' = [attempts EXCEPT ![r] = <<NewAttempt>>]
  /\ clock'    = [clock EXCEPT ![r] = JustStarted]

\* A new attempt, whose sequence_id is one more than the number of attempts.
InsertAttempt(r) ==
  /\ attempts' = [attempts EXCEPT ![r] = Append(@, NewAttempt)]
  /\ clock'    = [clock EXCEPT ![r] = JustStarted]

\* Entry i is claimed, with every entry before it dropped.
Claim(i, w) ==
  /\ InsertAttempt(queue[i])
  /\ UpdateRolloutUnlocked(queue[i], "preparing", SubSeq(queue, i + 1, Len(queue)))
  /\ MarkIdle(w)
  /\ UNCHANGED config

\* The newest rollout goes first.
MutantClaimLast(w) == \E i \in Eligible : (\A j \in Eligible : i >= j) /\ Claim(i, w)

\* The entries before the first eligible one are stale.
ClaimFirst(w) == \E i \in Eligible : (\A j \in Eligible : i <= j) /\ Claim(i, w)

\* Nothing is eligible: every entry is dropped and the caller gets None.
FindNothing(w) ==
  /\ Eligible = {}
  /\ queue' = <<>>
  /\ MarkIdle(w)
  /\ UNCHANGED <<status, config, attempts, clock, running, completed>>

DequeueRollout(w) == ClaimFirst(w) \/ FindNothing(w)

\* start_attempt: whatever the status of the rollout, and without a look at
\* max_attempts.  An entry of the rollout in the queue stays there.
StartAttempt(r) ==
  /\ status[r] # "absent"
  /\ Len(attempts[r]) < AttemptBound
  /\ InsertAttempt(r)
  /\ UpdateRolloutUnlocked(r, "preparing", queue)
  /\ UNCHANGED <<config, workers>>

\* update_rollout: any status to any other.
UpdateRollout(r, s, c) ==
  /\ status[r] # "absent"
  /\ IsQueuing(s) => Len(attempts[r]) < AttemptBound
  /\ config' = [config EXCEPT ![r] = c]
  /\ UpdateRolloutUnlocked(r, s, queue)
  /\ UNCHANGED <<attempts, clock, workers>>

-----------------------------------------------------------------------------
\* A heartbeat of attempt n, of which the watchdog sees the latest attempt's.
Heartbeat(r, n) ==
  clock' = IF n = Len(attempts[r])
           THEN [clock EXCEPT ![r].beat = TRUE, ![r].silent = FALSE]
           ELSE clock

\* update_attempt on attempt n of r: s and w are the status and worker_id
\* parameters, beat says whether a last_heartbeat_time is given.
UpdatedAttempt(r, n, s, w) ==
  [attempts[r][n] EXCEPT !.status    = IF s = Unset THEN @ ELSE s,
                         !.worker_id = IF w = Unset THEN @ ELSE w]

\* A worker is freed only by a call that names it.
MutantSyncNamed(r, n, a, s, w) ==
  workers' = IF w # Unset /\ w # None
             THEN [workers EXCEPT ![w] = SyncWorkerWithAttempt(r, n, a.status)]
             ELSE workers

\* The worker on record for the attempt is synced when its status or worker_id is
\* given, be it the old one.
SyncWorker(r, n, a, s, w) ==
  workers' = IF (s # Unset \/ w # Unset) /\ a.worker_id # None
             THEN [workers EXCEPT ![a.worker_id] = SyncWorkerWithAttempt(r, n, a.status)]
             ELSE workers

\* A report on any attempt moves the rollout.
MutantFollowAny(r, n, s) ==
  UpdateRolloutUnlocked(r, PropagateStatus(s, n, config[r]), queue)

\* The rollout follows its latest attempt, whatever was updated of it, a worker_id
\* or metadata alone included.
FollowLatest(r, n, s) ==
  IF n = Len(attempts[r])
  THEN UpdateRolloutUnlocked(r, PropagateStatus(s, n, config[r]), queue)
  ELSE UNCHANGED <<status, queue, running, completed>>

UpdateAttempt(r, n, s, w, beat) ==
  LET a == UpdatedAttempt(r, n, s, w) IN
  /\ status[r] # "absent"
  /\ n \in DOMAIN attempts[r]
  /\ attempts' = [attempts EXCEPT ![r][n] = a]
  /\ SyncWorker(r, n, a, s, w)
  /\ FollowLatest(r, n, a.status)
  /\ IF beat THEN Heartbeat(r, n) ELSE UNCHANGED clock
  /\ UNCHANGED config

\* A span of the latest attempt makes a rollout run that was not finished.
Revived(r, n) ==
  IF n = Len(attempts[r]) /\ status[r] \in {"preparing", "queuing", "requeuing"}
  THEN [status EXCEPT ![r] = "running"]
  ELSE status

\* The caches are not told.
MutantReviveQuietly(r, n) ==
  /\ status' = Revived(r, n)
  /\ UNCHANGED <<running, completed>>

ReviveRollout(r, n) ==
  /\ status' = Revived(r, n)
  /\ IF Revived(r, n) # status
     THEN OnRolloutUpdate({r}, Revived(r, n))
     ELSE UNCHANGED <<running, completed>>

\* add_span and add_otel_span with a span the store has not seen: a heartbeat
\* of its attempt.  (A duplicate span changes nothing here.)
AddSpan(r, n) ==
  /\ n \in DOMAIN attempts[r]
  /\ attempts' = [attempts EXCEPT ![r][n].status =
                     IF @ \in {"preparing", "unresponsive"} THEN "running" ELSE @]
  /\ Heartbeat(r, n)
  /\ ReviveRollout(r, n)
  /\ UNCHANGED <<config, queue, workers>>

\* update_worker: a heartbeat creates the worker and touches nothing else of it.
UpdateWorker(w) ==
  /\ workers' = [workers EXCEPT ![w].status = IF @ = "absent" THEN "unknown" ELSE @]
  /\ UNCHANGED <<status, config, attempts, clock, queue, running, completed>>

-----------------------------------------------------------------------------
\* The watchdog.  It looks at the rollouts of get_running_rollouts: those in the
\* cache that have an attempt.
Watched == {r \in running : attempts[r] # <<>>}

Ended(r) == Last(attempts[r]).status \in {"failed", "succeeded"}

\* The status healthcheck leaves the latest attempt of r with.
Diagnosis(r) ==
  LET s == Last(attempts[r]).status IN
  IF Ended(r) THEN s
  ELSE IF config[r].timeout_seconds /\ clock[r].late THEN "timeout"
  ELSE IF config[r].unresponsive_seconds /\ clock[r].silent THEN "unresponsive"
  ELSE IF clock[r].beat /\ s = "preparing" THEN "running"
  ELSE s

\* The rollouts whose latest attempt it writes (update_attempt_status) ...
Diagnosed ==
  {r \in Watched : /\ ~Ended(r)
                   /\ \/ config[r].timeout_seconds /\ clock[r].late
                      \/ config[r].unresponsive_seconds /\ clock[r].silent
                      \/ clock[r].beat /\ Last(attempts[r]).status = "preparing"}

\* ... and those whose status it writes.
Reviewed == Diagnosed \cup {r \in Watched : Ended(r)}

ReviewedStatus(r) ==
  IF r \in Reviewed
  THEN PropagateStatus(Diagnosis(r), Len(attempts[r]), config[r])
  ELSE status[r]

\* The watched rollouts are taken in no particular order, which shows only in
\* the order of the requeued ones and in the record of a worker that owns
\* several of the attempts written.
Healthcheck ==
  LET st       == [r \in Rollouts |-> ReviewedStatus(r)]
      requeued == {r \in Reviewed : IsQueuing(st[r])} \ ToSet(queue)
      OwnedBy(w) == {r \in Diagnosed : Last(attempts[r]).worker_id = w} IN
  /\ status'   = st
  /\ attempts' = [r \in Rollouts |->
                    IF r \in Diagnosed
                    THEN [attempts[r] EXCEPT ![Len(attempts[r])].status = Diagnosis(r)]
                    ELSE attempts[r]]
  /\ \E order \in SetToSeqs(requeued) : queue' = queue \o order
  /\ \E final \in [Workers -> Rollouts] :
       /\ \A w \in Workers : OwnedBy(w) # {} => final[w] \in OwnedBy(w)
       /\ workers' = [w \in Workers |->
                        IF OwnedBy(w) = {} THEN workers[w]
                        ELSE SyncWorkerWithAttempt(final[w], Len(attempts[final[w]]),
                                                   Diagnosis(final[w]))]
  /\ OnRolloutUpdate(Reviewed, st)
  /\ UNCHANGED <<config, clock>>

\* Time passes for the latest attempt of a rollout the watchdog looks at: its
\* timeout passes, or it has been silent for too long.
Age(r) ==
  /\ r \in Watched
  /\ config[r].timeout_seconds /\ ~clock[r].late
  /\ clock' = [clock EXCEPT ![r].late = TRUE]
  /\ UNCHANGED <<status, config, attempts, queue, workers, running, completed>>

FallSilent(r) ==
  /\ r \in Watched
  /\ config[r].unresponsive_seconds /\ ~clock[r].silent
  /\ clock' = [clock EXCEPT ![r].silent = TRUE]
  /\ UNCHANGED <<status, config, attempts, queue, workers, running, completed>>

Elapse(r) == Age(r) \/ FallSilent(r)

-----------------------------------------------------------------------------
\* The operations, with the parameters the callers use.
Submit ==
  \E r \in Rollouts, c \in Configs : StartRollout(r, c) \/ EnqueueRollout(r, c)

Dequeue == \E w \in Workers \cup {None} : DequeueRollout(w)

Manage ==
  \E r \in Rollouts :
    \/ ManualAttempts /\ StartAttempt(r)
    \/ \E s \in UpdateStatuses : UpdateRollout(r, s, config[r])
    \/ ConfigUpdates /\ \E c \in Configs : UpdateRollout(r, status[r], c)

Report ==
  \E r \in Rollouts : \E n \in DOMAIN attempts[r] :
    \/ AddSpan(r, n)
    \/ \E s \in ReportStatuses \cup {Unset}, w \in Workers \cup {Unset}, beat \in BOOLEAN :
         UpdateAttempt(r, n, s, w, beat)

Next ==
  \/ Submit
  \/ Dequeue
  \/ Manage
  \/ Report
  \/ \E w \in Workers : UpdateWorker(w)
  \/ Healthcheck
  \/ \E r \in Rollouts : Elapse(r)

Spec == Init /\ [][Next]_vars

\* Runners poll dequeue_rollout for as long as they live (runner/agent.py, iter),
\* and every poll runs the watchdog before the body; time passes by itself.
Fairness ==
  /\ WF_vars(Dequeue)
  /\ WF_vars(Healthcheck)
  /\ \A r \in Rollouts : WF_vars(Age(r))

FairSpec == Spec /\ Fairness

-----------------------------------------------------------------------------
TypeOK ==
  /\ status    \in [Rollouts -> RolloutStatus \cup {"absent"}]
  /\ config    \in [Rollouts -> Config]
  /\ attempts  \in [Rollouts -> Seq(Attempt)]
  /\ clock     \in [Rollouts -> Clock]
  /\ queue     \in Seq(Rollouts)
  /\ workers   \in [Workers -> Worker]
  /\ running   \subseteq Rollouts
  /\ completed \subseteq Rollouts

\* A rollout that waits is in the queue, whatever operations moved it in and out
\* of a queuing status while its entry was there: dequeue_rollout drops entries
\* and add_span, start_attempt and update_rollout leave them.
NoLostRollout == \A r \in Rollouts : IsQueuing(status[r]) => r \in ToSet(queue)

\* A rollout has at most one entry in the queue (store/base.py, update_rollout:
\* "ensure the rollout is enqueued exactly once"), so no two runners claim it.
NoDoubleEntry == IsInjective(queue)

\* The cache the watchdog reads instead of the rollouts is exact: no running
\* rollout escapes it and none is reviewed after it stopped running.
RunningCacheExact == running = {r \in Rollouts : IsRunning(status[r])}

\* Whoever waits for a finished rollout finds its completion event set.
FinishedIsSignalled == \A r \in Rollouts : IsFinished(status[r]) => r \in completed

\* A worker shown busy is on an attempt that exists and, if that attempt is
\* still the worker's, that has not ended: ending an attempt frees its worker.
LiveAssignment(w) ==
  LET r == workers[w].current_rollout
      n == workers[w].current_attempt IN
  /\ r \in Rollouts
  /\ n \in DOMAIN attempts[r]
  /\ attempts[r][n].worker_id = w => attempts[r][n].status \in {"preparing", "running"}

BusyWorkerIsOnLiveAttempt ==
  \A w \in Workers : workers[w].status = "busy" => LiveAssignment(w)

\* While no caller forces a running status, a running rollout has an attempt.
\* ("The rollout is running but has no attempts, this should not happen", says
\* get_running_rollouts, which skips such a rollout: the watchdog never sees it.)
NoForcedRun == UpdateStatuses \cap {"preparing", "running"} = {}

RunningHasAttempt ==
  NoForcedRun => \A r \in Rollouts : IsRunning(status[r]) => attempts[r] # <<>>

-----------------------------------------------------------------------------
\* The callers this repository has besides verl's daemon: runners claim, report
\* success or failure and emit spans; nobody forces a status, replaces a config
\* or starts an attempt of an existing rollout by hand.
RunnerProtocol ==
  /\ ~ManualAttempts /\ ~ConfigUpdates
  /\ UpdateStatuses = {}
  /\ ReportStatuses \subseteq {"failed", "succeeded"}

\* Retries stay within max_attempts in every interleaving of claims, late spans,
\* reports and watchdog verdicts, those about attempts given up long ago included.
WithinBudget(r) ==
  /\ Len(attempts[r]) <= config[r].max_attempts
  /\ IsQueuing(status[r]) => Len(attempts[r]) < config[r].max_attempts

RetryBudget ==
  RunnerProtocol => \A r \in Rollouts : status[r] # "absent" => WithinBudget(r)

\* How far a rollout and its latest attempt may disagree.  A late span revives
\* the rollout of an attempt that failed or timed out while the retry waits, and
\* revives an unresponsive attempt of a rollout that has been given up; every
\* other disagreement (a requeued rollout whose attempt runs, a success without
\* a succeeded attempt, a preparing rollout nobody claimed) is excluded.
Retriable(r) ==
  /\ Last(attempts[r]).status \in config[r].retry_condition
  /\ Len(attempts[r]) < config[r].max_attempts

Agreeing(r) ==
  IF attempts[r] = <<>> THEN status[r] \in {"absent", "queuing"}
  ELSE LET s == Last(attempts[r]).status IN
       \/ status[r] = "preparing" /\ s = "preparing"
       \/ status[r] = "running"   /\ s = "running"
       \/ status[r] = "running"   /\ s \in {"failed", "timeout"} /\ Retriable(r)
       \/ status[r] = "succeeded" /\ s = "succeeded"
       \/ status[r] = "failed"    /\ s \in {"failed", "timeout", "unresponsive", "running"}
       \/ status[r] = "requeuing" /\ s \in {"failed", "timeout", "unresponsive"} /\ Retriable(r)

StatusAgreement == RunnerProtocol => \A r \in Rollouts : Agreeing(r)

\* Every rollout that waits is claimed or taken off the queue by a late span.
QueuedIsServed ==
  \A r \in Rollouts : IsQueuing(status[r]) ~> ~IsQueuing(status[r])

\* No attempt outlives its timeout, whatever its runner and other callers do: the
\* rollout stops running, be it only to be requeued.
TimeoutIsEnforced ==
  \A r \in Rollouts :
    (IsRunning(status[r]) /\ attempts[r] # <<>> /\ config[r].timeout_seconds)
      ~> ~IsRunning(status[r])

-----------------------------------------------------------------------------
\* The queue the store shows to runners is a WorkQueue: the line is made of the
\* entries whose rollout waits, the stale ones are invisible.
Line == {queue[i] : i \in Eligible}

AheadOf ==
  {p \in Rollouts \X Rollouts :
     \E i, j \in Eligible : i < j /\ p = <<queue[i], queue[j]>>}

Queue == INSTANCE WorkQueue WITH
  Tasks   <- Rollouts,
  waiting <- Line,
  before  <- AheadOf,
  tries   <- [r \in Rollouts |-> Len(attempts[r])]

\* Claims are first come first served among the rollouts that remain in the
\* queue (while nobody opens attempts by hand), one rollout and one attempt at a
\* time, whatever stale entries are between them (store/base.py, dequeue_rollout:
\* "Retrieval must be FIFO across rollouts that remain in queuing or requeuing
\* state").
ImplementsWorkQueue == Queue!Spec
=============================================================================
