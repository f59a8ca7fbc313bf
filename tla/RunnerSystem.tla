---------------------------- MODULE RunnerSystem ----------------------------
(***************************************************************************)
(* Runners at work on the store: LitAgentRunner.iter and step              *)
(* (runner/agent.py) on top of LightningStore, reached in process or over  *)
(* HTTP through LightningStoreClient (store/client_server.py).             *)
(*                                                                         *)
(* Every await of the runner is a point where other runners, the watchdog  *)
(* and callers act, so each call of the store is a step of its own, and    *)
(* the runner acts on the attempt it was given however stale that is.      *)
(* Over HTTP a request may run and its reply be lost: dequeue_rollout then *)
(* returns None and never asks again, the other calls are sent again.      *)
(***************************************************************************)
EXTENDS LightningStore

CONSTANTS
  Unreliable,   \* is the store reached over HTTP?
  Retries,      \* length of LightningStoreClient._retry_delays
  Crashes,      \* may the process of a runner die?
  Cancellable,  \* may the task that runs iter be cancelled?
  LateSpans     \* may spans of an attempt arrive after its runner left it?

ASSUME RunnerAssumption ==
  /\ {Unreliable, Crashes, Cancellable, LateSpans} \subseteq BOOLEAN
  /\ Retries \in Nat
  /\ {"failed", "succeeded"} \subseteq ReportStatuses

VARIABLES
  runner,  \* [Workers -> what the runner is at]
  earned   \* history: attempts <<rollout, number>> whose agent returned normally

rvars == <<vars, runner, earned>>

\* polling: about to call dequeue_rollout.    claimed: about to register as the
\* attempt's worker.   registered: about to fetch the resources.   working: the
\* agent runs.   reporting: about to send the outcome.   leaving: the same, then
\* iter ends.   stopped: iter has ended or the process is gone.
Phase == {"polling", "claimed", "registered", "working", "reporting", "leaving", "stopped"}

\* tries counts the times the call at hand was sent in vain.
Runner ==
  [pc : Phase, rollout : Rollouts \cup {None}, attempt : Nat,
   outcome : {"succeeded", "failed", Unset}, tries : 0 .. Retries]

At(pc, r, n, o) == [pc |-> pc, rollout |-> r, attempt |-> n, outcome |-> o, tries |-> 0]
Polling == At("polling", None, 0, Unset)
Stopped == At("stopped", None, 0, Unset)

Becomes(w, rec) == runner' = [runner EXCEPT ![w] = rec]

RunnerInit ==
  /\ Init
  /\ runner = [w \in Workers |-> Polling]
  /\ earned = {}

-----------------------------------------------------------------------------
\* Operators named Mutant... are plausible bugs of the operator that follows them.

\* The task is taken off the queue before it is claimed.
MutantPopThenClaim(w) ==
  /\ runner[w].pc = "polling" /\ queue # <<>>
  /\ queue' = Tail(queue)
  /\ Becomes(w, At("claimed", Head(queue), 1, Unset))
  /\ UNCHANGED <<status, config, attempts, clock, workers, running, completed, earned>>

\* The task given by the store is lost with the reply: the claim stands, and the
\* runner polls on.
Poll(w) ==
  /\ runner[w].pc = "polling"
  /\ UNCHANGED earned
  /\ \/ FindNothing(w) /\ UNCHANGED runner
     \/ \E i \in Eligible :
          LET r == queue[i] IN
          /\ \A j \in Eligible : i <= j
          /\ Claim(i, w)
          /\ \/ Becomes(w, At("claimed", r, Len(attempts'[r]), Unset))
             \/ Unreliable /\ UNCHANGED runner

\* step: the runner starts a rollout of its own.
StartOwn(w, r, c) ==
  /\ runner[w].pc = "polling"
  /\ StartRollout(r, c)
  /\ Becomes(w, At("claimed", r, 1, Unset))
  /\ UNCHANGED earned

\* A call that the client sends again until it runs out of retries or finds the
\* server unhealthy: call, its effect on the store; done, where the runner is after
\* an answer; failed, where it is when the client gives up.
Sent(w, call, done, failed) ==
  \/ call /\ Becomes(w, done)
  \/ /\ Unreliable
     /\ call \/ UNCHANGED vars
     /\ \/ runner[w].tries < Retries /\ Becomes(w, [runner[w] EXCEPT !.tries = @ + 1])
        \/ Becomes(w, failed)

\* The claim is made known with update_attempt(worker_id); a runner that fails in
\* this gives the rollout up without a word.
Register(w) ==
  LET r == runner[w].rollout
      n == runner[w].attempt IN
  /\ runner[w].pc = "claimed"
  /\ Sent(w, UpdateAttempt(r, n, Unset, w, FALSE), At("registered", r, n, Unset), Polling)
  /\ UNCHANGED earned

\* _step_impl: without resources the rollout is skipped, its attempt left as it is.
FetchResources(w) ==
  LET r == runner[w].rollout
      n == runner[w].attempt IN
  /\ runner[w].pc = "registered"
  /\ Becomes(w, At("working", r, n, Unset)) \/ Becomes(w, Polling)
  /\ UNCHANGED <<vars, earned>>

\* The agent's spans, from its tracer or from _post_process_rollout_result.
EmitSpan(w) ==
  /\ runner[w].pc = "working"
  /\ AddSpan(runner[w].rollout, runner[w].attempt)
  /\ UNCHANGED <<runner, earned>>

\* An exception of the agent goes unnoticed.
MutantSwallowException(w) ==
  LET r == runner[w].rollout
      n == runner[w].attempt IN
  /\ runner[w].pc = "working"
  /\ Becomes(w, At("reporting", r, n, "succeeded"))
  /\ earned' \in {earned, earned \cup {<<r, n>>}}
  /\ UNCHANGED vars

\* The agent returns or raises.
FinishRollout(w) ==
  LET r == runner[w].rollout
      n == runner[w].attempt IN
  /\ runner[w].pc = "working"
  /\ \/ Becomes(w, At("reporting", r, n, "succeeded")) /\ earned' = earned \cup {<<r, n>>}
     \/ Becomes(w, At("reporting", r, n, "failed"))    /\ UNCHANGED earned
  /\ UNCHANGED vars

\* A CancelledError is no Exception: has_exception stays False, the finally block
\* reports the outcome and iter ends.
CancelRollout(w) ==
  /\ Cancellable
  /\ runner[w].pc = "working"
  /\ Becomes(w, At("leaving", runner[w].rollout, runner[w].attempt, "succeeded"))
  /\ UNCHANGED <<vars, earned>>

\* update_attempt(status); a client that gives up is not heard of again.
SendOutcome(w) ==
  LET r    == runner[w].rollout
      n    == runner[w].attempt
      next == IF runner[w].pc = "leaving" THEN Stopped ELSE Polling IN
  /\ runner[w].pc \in {"reporting", "leaving"}
  /\ Sent(w, UpdateAttempt(r, n, runner[w].outcome, Unset, FALSE), next, next)
  /\ UNCHANGED earned

\* _emit_heartbeat.
EmitHeartbeat(w) ==
  /\ runner[w].pc # "stopped"
  /\ UpdateWorker(w)
  /\ UNCHANGED <<runner, earned>>

\* The process of a runner dies; one is left.
Crash(w) ==
  /\ Crashes
  /\ \E v \in Workers \ {w} : runner[v].pc # "stopped"
  /\ runner[w].pc # "stopped"
  /\ Becomes(w, Stopped)
  /\ UNCHANGED <<vars, earned>>

\* A span exported by the LLM proxy or flushed by a tracer after its time.
LateSpan ==
  /\ LateSpans
  /\ \E r \in Rollouts : \E n \in DOMAIN attempts[r] : AddSpan(r, n)
  /\ UNCHANGED <<runner, earned>>

RunnerStep(w) ==
  \/ Poll(w)
  \/ Register(w)
  \/ FetchResources(w)
  \/ FinishRollout(w)
  \/ SendOutcome(w)

Surroundings ==
  \/ \E r \in Rollouts, c \in Configs : EnqueueRollout(r, c)
  \/ Healthcheck
  \/ \E r \in Rollouts : Elapse(r)

RunnerNext ==
  \/ \E w \in Workers :
       \/ RunnerStep(w)
       \/ \E r \in Rollouts, c \in Configs : StartOwn(w, r, c)
       \/ EmitSpan(w)
       \/ CancelRollout(w)
       \/ EmitHeartbeat(w)
       \/ Crash(w)
  \/ LateSpan
  \/ Surroundings /\ UNCHANGED <<runner, earned>>

RunnerSpec == RunnerInit /\ [][RunnerNext]_rvars

-----------------------------------------------------------------------------
OnAttempt(w) == runner[w].pc \notin {"polling", "stopped"}

\* No two runners are ever on the same attempt, although a rollout may be run by
\* two at once (its attempt timed out and was retried while the runner went on).
AttemptsAreExclusive ==
  \A v, w \in Workers :
    v # w /\ OnAttempt(v) /\ OnAttempt(w) =>
      <<runner[v].rollout, runner[v].attempt>> # <<runner[w].rollout, runner[w].attempt>>

\* A succeeded rollout had an attempt in which the agent did its work to the end.
SuccessIsEarned ==
  \A r \in Rollouts : status[r] = "succeeded" => \E n \in DOMAIN attempts[r] : <<r, n>> \in earned

\* A rollout with a timeout, once enqueued, ends, although claims are lost with
\* their replies, runners die and skip rollouts, and reports get lost.
EveryRolloutEnds ==
  \A r \in Rollouts : status[r] = "queuing" ~> IsFinished(status[r])
=============================================================================
