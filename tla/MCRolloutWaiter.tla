--------------------------- MODULE MCRolloutWaiter ---------------------------
(* Instances of RolloutWaiter for TLC. *)
EXTENDS RolloutWaiter

Timed ==
  [max_attempts |-> 2, retry_condition |-> {"failed", "timeout"},
   timeout_seconds |-> TRUE, unresponsive_seconds |-> FALSE]

OnlyTimed     == {Timed}
Cancellation  == {"cancelled"}
RunnerReports == {"failed", "succeeded"}
=============================================================================
