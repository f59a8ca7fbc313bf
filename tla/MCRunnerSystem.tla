--------------------------- MODULE MCRunnerSystem ---------------------------
(* Instances of RunnerSystem for TLC. *)
EXTENDS RunnerSystem

Timed ==
  [max_attempts |-> 2, retry_condition |-> {"failed", "timeout"},
   timeout_seconds |-> TRUE, unresponsive_seconds |-> FALSE]
Watchful == [Timed EXCEPT !.retry_condition = @ \cup {"unresponsive"},
                          !.unresponsive_seconds = TRUE]
OneShot == [Timed EXCEPT !.max_attempts = 1]

OnlyWatchful  == {Watchful}
OnlyOneShot   == {OneShot}
NoStatus      == {}
RunnerReports == {"failed", "succeeded"}

Symmetry == Permutations(Rollouts) \cup Permutations(Workers)
=============================================================================
