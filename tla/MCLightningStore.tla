-------------------------- MODULE MCLightningStore --------------------------
(* Instances of LightningStore for TLC. *)
EXTENDS LightningStore

\* A policy with every watchdog and a retry, one without the silence watchdog,
\* one that retries failures only, and the default one.
Watchful ==
  [max_attempts |-> 2, retry_condition |-> {"failed", "timeout", "unresponsive"},
   timeout_seconds |-> TRUE, unresponsive_seconds |-> TRUE]
Timed    == [Watchful EXCEPT !.unresponsive_seconds = FALSE]
Retrying == [DefaultConfig EXCEPT !.max_attempts = 2, !.retry_condition = {"failed"}]

OnlyTimed       == {Timed}
EveryPolicy     == {DefaultConfig, Retrying, Watchful}

NoStatus        == {}
AnyStatus       == RolloutStatus
Retry           == {"queuing"}
AnyReport       == AttemptStatus
RunnerReports   == {"failed", "succeeded"}

Symmetry == Permutations(Rollouts) \cup Permutations(Workers)
=============================================================================
