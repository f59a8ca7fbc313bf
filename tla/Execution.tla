------------------------------ MODULE Execution ------------------------------
(***************************************************************************)
(* One call of execute() of an execution strategy: shared memory           *)
(* (execution/shared_memory.py) and client-server                          *)
(* (execution/client_server.py).  It runs one bundle on its own thread and *)
(* the others in threads or processes, and ends by stopping them.  Bundles *)
(* return, crash, are slow to stop or deaf; Ctrl+C and the operating       *)
(* system's killer may strike at any point.                                *)
(*                                                                         *)
(* The model begins when the children have been started.  asyncio handles  *)
(* Ctrl+C as it does since Python 3.11: the first one cancels the main     *)
(* task, the next raises KeyboardInterrupt at once.                        *)
(***************************************************************************)
EXTENDS Integers, FiniteSets

CONSTANTS
  Runners,       \* the runners' worker ids
  MaxInterrupts  \* bound on the number of Ctrl+C

ASSUME RunnersAssumption == Runners # {} /\ "algorithm" \notin Runners
ASSUME InterruptsAssumption == MaxInterrupts \in Nat

VARIABLES
  plan,        \* the strategy's settings
  temper,      \* [Bundles -> what it takes to stop the bundle]
  bundle,      \* [Bundles -> the state of its thread or process]
  phase,       \* how far execute() is
  stopEvt,     \* the event all bundles share
  pending,     \* what execute() has caught
  outcome,     \* how execute() ended
  interrupts   \* the number of Ctrl+C so far

vars == <<plan, temper, bundle, phase, stopEvt, pending, outcome, interrupts>>

Bundles == {"algorithm"} \cup Runners

\* stop: heeds the event.  cancel: ends when its task is cancelled.  block: blocks
\* its event loop.  mask: ignores SIGTERM as well.
Tempers == {"stop", "cancel", "block", "mask"}

\* draining: Ctrl+C reached the coroutine that waits for it.  cancelling,
\* unwinding: its task was cancelled, by the watcher or by Ctrl+C.
AliveStates == {"running", "draining", "cancelling", "unwinding"}
States == AliveStates \cup
  {"absent", "returned", "crashed", "cancelled", "interrupted", "terminated", "killed"}

ShutdownPhases == {"graceful", "sigint", "sigterm", "sigkill"}

Plan ==
  [strategy : {"shm", "cs"}, role : {"both", "algorithm", "runner"},
   main : {"algorithm", "runner"}, runners : (SUBSET Runners) \ {{}}]

\* What the constructor of each strategy accepts.
ShmPlans ==
  {p \in Plan : /\ p.strategy = "shm"
                /\ p.role = "both"
                /\ p.main = "runner" => Cardinality(p.runners) = 1}

CsPlans ==
  {p \in Plan : /\ p.strategy = "cs"
                /\ p.main = "runner" => p.role = "both" /\ Cardinality(p.runners) = 1}

\* The bundles of an execution.
TakingPart(p) ==
  (IF p.role = "runner" THEN {} ELSE {"algorithm"})
    \cup (IF p.role = "algorithm" THEN {} ELSE p.runners)

\* The bundle that runs on the caller's thread, if any.
OnMain(p) ==
  IF p.role = "runner"
  THEN IF Cardinality(p.runners) = 1 THEN p.runners ELSE {}
  ELSE IF p.main = "runner" THEN p.runners ELSE {"algorithm"}

\* The bundles in threads (shm) or processes (cs) of their own.
Children(p) == TakingPart(p) \ OnMain(p)

Active == TakingPart(plan)

Shm == plan.strategy = "shm"
Cs == plan.strategy = "cs"

Alive(b) == bundle[b] \in AliveStates

AliveChildren == {b \in Children(plan) : Alive(b)}

\* It blocks the loop it runs on, watcher and all.
Deaf(b) == temper[b] \in {"block", "mask"}

Init ==
  /\ plan \in ShmPlans \cup CsPlans
  /\ temper \in {t \in [Bundles -> Tempers] : \A b \in Bundles \ Active : t[b] = "stop"}
  /\ bundle = [b \in Bundles |-> IF b \in Active THEN "running" ELSE "absent"]
  /\ phase = IF OnMain(plan) = {} THEN "await" ELSE "main"
  /\ stopEvt = FALSE
  /\ pending = "none"
  /\ outcome = "none"
  /\ interrupts = 0

-----------------------------------------------------------------------------
(* Bundles.  What a bundle does, it does while execute() has not ended.    *)

Steps(b) ==
  /\ phase # "ended"
  /\ Alive(b)
  /\ UNCHANGED <<plan, temper, phase, pending, outcome, interrupts>>

Becomes(b, s) == bundle' = [bundle EXCEPT ![b] = s]

\* The bundle's coroutine returns: its work is done, or it saw the event.  After
\* Ctrl+C the pending cancellation surfaces at an await of the wrapper, or never.
ReturnShm(b) ==
  /\ Shm
  /\ Steps(b)
  /\ IF bundle[b] \in {"draining", "unwinding"}
     THEN Becomes(b, "interrupted") /\ stopEvt' = TRUE
     ELSE Becomes(b, "returned") /\ UNCHANGED stopEvt

ReturnCs(b) ==
  /\ Cs
  /\ Steps(b)
  /\ \/ Becomes(b, "returned")
     \/ bundle[b] = "unwinding" /\ Becomes(b, "interrupted")
  /\ UNCHANGED stopEvt

Return(b) == ReturnShm(b) \/ ReturnCs(b)

\* An exception leaves the bundle.
Crash(b) ==
  /\ Steps(b)
  /\ Becomes(b, "crashed")
  /\ stopEvt' = TRUE

\* Nobody watches over the caller's thread.  (A plausible bug of WatcherCancels.)
MutantWatchThreads(b) ==
  /\ Shm
  /\ stopEvt
  /\ ~Deaf(b)
  /\ b \in Children(plan)
  /\ bundle[b] = "running"
  /\ Steps(b)
  /\ Becomes(b, "cancelling")
  /\ UNCHANGED stopEvt

\* The watcher cancels whoever is still there after the grace period.
WatcherCancels(b) ==
  /\ Shm
  /\ stopEvt
  /\ ~Deaf(b)
  /\ Steps(b)
  /\ \/ bundle[b] = "running" /\ Becomes(b, "cancelling")
     \/ bundle[b] = "draining" /\ Becomes(b, "unwinding")
  /\ UNCHANGED stopEvt

\* A cancelled task ends.
TakeCancel(b) ==
  /\ ~Deaf(b)
  /\ Steps(b)
  /\ \/ /\ bundle[b] = "cancelling"
        /\ Becomes(b, "cancelled")
        /\ UNCHANGED stopEvt
     \/ /\ bundle[b] = "unwinding"
        /\ Becomes(b, "interrupted")
        /\ stopEvt' = TRUE

\* After Ctrl+C the bundle is given graceful_delay once more, then cancelled; the
\* `return` in the finally block drops the interrupt.
AbandonAfterGrace(b) ==
  /\ Shm
  /\ bundle[b] = "draining"
  /\ ~Deaf(b)
  /\ Steps(b)
  /\ Becomes(b, "returned")
  /\ UNCHANGED stopEvt

\* The operating system kills a process.
OsKills(b) ==
  /\ Cs
  /\ b \in Children(plan)
  /\ Steps(b)
  /\ Becomes(b, "killed")
  /\ UNCHANGED stopEvt

-----------------------------------------------------------------------------
(* execute().                                                              *)

\* What SIGINT makes of a bundle: the handler cancels the main task, the second
\* time it raises.
Interrupted(b) ==
  IF bundle[b] = "running" /\ Shm THEN "draining"
  ELSE IF bundle[b] \in {"running", "cancelling"} THEN "unwinding"
  ELSE IF bundle[b] \in {"draining", "unwinding"} /\ temper[b] # "mask" THEN "interrupted"
  ELSE bundle[b]

\* SIGINT is delivered to the bundles in B; those that end by it set the event.
Interrupts(B) ==
  bundle' = [b \in Bundles |-> IF b \in B THEN Interrupted(b) ELSE bundle[b]]

EndedByInterrupt(B) == \E b \in B : Interrupted(b) = "interrupted" /\ Alive(b)

\* The statements after an `except KeyboardInterrupt`, and after any other one.
Catches(exception) ==
  /\ pending' = exception
  /\ stopEvt' = TRUE
  /\ phase' = "graceful"

\* Ctrl+C at a terminal reaches the processes of the group as well, never a thread.
Reached(group) == IF Cs /\ group THEN AliveChildren ELSE {}

CtrlC(group) ==
  LET kids == Reached(group) IN
  /\ interrupts < MaxInterrupts
  /\ interrupts' = interrupts + 1
  /\ \/ /\ phase = "main"
        /\ \E b \in OnMain(plan) : Alive(b)
        /\ Interrupts(OnMain(plan) \cup kids)
        /\ stopEvt' = (stopEvt \/ EndedByInterrupt(OnMain(plan) \cup kids))
        /\ UNCHANGED <<phase, pending, outcome>>
     \/ /\ phase = "await"
        /\ Interrupts(kids)
        /\ Catches("interrupt")
        /\ UNCHANGED outcome
     \/ /\ phase \in ShutdownPhases
        /\ Interrupts(kids)
        /\ stopEvt' = (stopEvt \/ EndedByInterrupt(kids))
        /\ phase' = "ended"
        /\ outcome' = "interrupt"
        /\ UNCHANGED pending
  /\ UNCHANGED <<plan, temper>>

\* The end of the runner stops the algorithm too.  (A plausible bug of GoesOn.)
MutantStopAll ==
  /\ stopEvt' = TRUE
  /\ phase' = "graceful"
  /\ UNCHANGED pending

\* The bundle on the caller's thread came to its end.  The runners are asked to
\* stop after the algorithm; the algorithm is waited for after the runner.
GoesOn ==
  /\ IF plan.role = "both" /\ plan.main = "runner"
     THEN phase' = "await" /\ UNCHANGED stopEvt
     ELSE phase' = "graceful" /\ stopEvt' = (stopEvt \/ Children(plan) # {})
  /\ UNCHANGED pending

MainEnds ==
  /\ phase = "main"
  /\ \A b \in OnMain(plan) :
       \/ bundle[b] = "interrupted" /\ Catches("interrupt")
       \/ bundle[b] = "crashed" /\ Catches("crash")
       \/ bundle[b] \in {"returned", "cancelled"} /\ GoesOn
  /\ UNCHANGED <<plan, temper, bundle, outcome, interrupts>>

\* Any process that is gone is fine.  (A plausible bug of FailedChildren.)
MutantOnlyKilled == {b \in Children(plan) : bundle[b] = "killed"}

\* The children that make execute() raise: the exceptions of threads, and the
\* processes with an exit code other than 0 and that of SIGTERM.
FailedChildren ==
  {b \in Children(plan) :
     bundle[b] \in IF Shm THEN {"crashed"} ELSE {"crashed", "interrupted", "killed"}}

\* The joins without a timeout are through.  Runners without an algorithm are
\* checked here already.
AwaitEnds ==
  /\ phase = "await"
  /\ AliveChildren = {}
  /\ IF plan.role = "runner" /\ FailedChildren # {}
     THEN Catches("crash")
     ELSE phase' = "graceful" /\ stopEvt' = (stopEvt \/ Cs) /\ UNCHANGED pending
  /\ UNCHANGED <<plan, temper, bundle, outcome, interrupts>>

\* execute() ends.  Of the strategies only shm raises what a thread left behind
\* when Ctrl+C ended the rest.
Ends ==
  /\ phase' = "ended"
  /\ outcome' = IF \/ pending = "crash"
                   \/ FailedChildren # {} /\ (Shm \/ pending = "none")
                THEN "raised" ELSE "returned"
  /\ UNCHANGED <<plan, temper, bundle, stopEvt, pending, interrupts>>

\* The children are joined, or the last join timed out.  Of the threads those are
\* left alone that cannot be stopped: join_timeout is longer than what the watcher
\* takes for the others.
JoinEnds ==
  /\ phase \in ShutdownPhases
  /\ \/ AliveChildren = {}
     \/ Shm /\ \A b \in AliveChildren : Deaf(b)
     \/ Cs /\ phase = "sigkill"
  /\ Ends

\* terminate() is the last word.  (A plausible bug of Escalate.)
MutantNoKill ==
  /\ Cs
  /\ AliveChildren # {}
  /\ phase \in {"graceful", "sigint"}
  /\ phase' = IF phase = "graceful" THEN "sigint" ELSE "sigkill"
  /\ bundle' = [b \in Bundles |->
       IF b \in AliveChildren /\ temper[b] # "mask" THEN "terminated" ELSE bundle[b]]
  /\ UNCHANGED <<plan, temper, stopEvt, pending, outcome, interrupts>>

\* A join of processes timed out: the next signal.
Escalate ==
  /\ Cs
  /\ AliveChildren # {}
  /\ \/ /\ phase = "graceful"
        /\ phase' = "sigint"
        /\ Interrupts(AliveChildren)
        /\ stopEvt' = (stopEvt \/ EndedByInterrupt(AliveChildren))
     \/ /\ phase = "sigint"
        /\ phase' = "sigterm"
        /\ bundle' = [b \in Bundles |->
             IF b \in AliveChildren /\ temper[b] # "mask" THEN "terminated" ELSE bundle[b]]
        /\ UNCHANGED stopEvt
     \/ /\ phase = "sigterm"
        /\ phase' = "sigkill"
        /\ bundle' = [b \in Bundles |-> IF b \in AliveChildren THEN "killed" ELSE bundle[b]]
        /\ UNCHANGED stopEvt
  /\ UNCHANGED <<plan, temper, pending, outcome, interrupts>>

Next ==
  \/ \E b \in Bundles :
       \/ Return(b)
       \/ Crash(b)
       \/ WatcherCancels(b)
       \/ TakeCancel(b)
       \/ AbandonAfterGrace(b)
       \/ OsKills(b)
  \/ \E group \in BOOLEAN : CtrlC(group)
  \/ MainEnds
  \/ AwaitEnds
  \/ JoinEnds
  \/ Escalate

Spec == Init /\ [][Next]_vars

\* A bundle that polls the event returns once it is set.
Heed(b) == stopEvt /\ temper[b] = "stop" /\ Return(b)

\* Timeouts expire, timers fire and the caller's thread goes on.  No bundle is
\* assumed to come to its end by itself.
ExecutionFairness ==
  /\ WF_vars(MainEnds) /\ WF_vars(AwaitEnds) /\ WF_vars(JoinEnds) /\ WF_vars(Escalate)
  /\ \A b \in Bundles :
       /\ WF_vars(Heed(b))
       /\ WF_vars(WatcherCancels(b))
       /\ WF_vars(TakeCancel(b))
       /\ WF_vars(AbandonAfterGrace(b))

FairSpec == Spec /\ ExecutionFairness

-----------------------------------------------------------------------------
(* Properties.                                                             *)

\* The states a bundle can be in: cancellation by a watcher is for shm, signals are
\* for processes, and of the threads Ctrl+C reaches only the main one.
Possible(b) ==
  IF b \notin Active THEN {"absent"}
  ELSE {"running", "returned", "crashed"}
    \cup (IF Shm THEN {"cancelling", "cancelled"} ELSE {"unwinding", "interrupted"})
    \cup (IF b \in OnMain(plan)
          THEN IF Shm THEN {"draining", "unwinding", "interrupted"} ELSE {}
          ELSE IF Cs THEN {"terminated", "killed"} ELSE {})

\* Every variable keeps its type, and no bundle meets what is meant for others.
TypeOK ==
  /\ plan \in ShmPlans \cup CsPlans
  /\ temper \in [Bundles -> Tempers]
  /\ bundle \in [Bundles -> States]
  /\ \A b \in Bundles : bundle[b] \in Possible(b)
  /\ phase \in {"main", "await", "ended"} \cup ShutdownPhases
  /\ stopEvt \in BOOLEAN
  /\ pending \in {"none", "interrupt", "crash"}
  /\ outcome \in {"none", "returned", "raised", "interrupt"}
  /\ interrupts \in 0 .. MaxInterrupts

\* execute() tells how it went.  It returns only when no bundle crashed and no
\* process was killed, unless Ctrl+C took over from the client-server strategy; and
\* it raises only when a bundle crashed or a process did not end in good order.
OutcomeIsTrue ==
  /\ outcome = "returned" =>
       \A b \in Active : bundle[b] \in {"crashed", "killed"} => Cs /\ interrupts > 0
  /\ outcome = "raised" =>
       \/ \E b \in Active : bundle[b] = "crashed"
       \/ Cs /\ \E b \in Children(plan) : bundle[b] \in {"interrupted", "killed"}

\* When execute() is over nothing runs any more, but for threads nobody can stop;
\* those can see that they should.  Ctrl+C during the shutdown leaves it undone.
NothingLeftBehind ==
  outcome \in {"returned", "raised"} =>
    \A b \in AliveChildren : Shm /\ Deaf(b) /\ stopEvt

\* The algorithm is cut short only after Ctrl+C or the failure of a bundle, never
\* because a runner came to its end.
AlgorithmRunsToItsEnd ==
  bundle["algorithm"] \in {"cancelling", "cancelled", "draining", "unwinding", "interrupted", "terminated"} =>
    interrupts > 0 \/ \E b \in Active : bundle[b] \in {"crashed", "killed"}

\* The bundles execute() waits for without a timeout.
Awaited ==
  IF OnMain(plan) = {} \/ plan.main = "runner" THEN Active ELSE OnMain(plan)

\* Once the event is set execute() comes to its end, if those it waits for without
\* a timeout can be stopped: by the event, and in shm by a cancellation as well.
StopLeadsToTheEnd ==
  (/\ stopEvt
   /\ \A b \in Awaited : temper[b] = "stop" \/ (Shm /\ temper[b] = "cancel")) ~> (phase = "ended")

\* "When Ctrl+C occurs we set `stop_evt`": once the caller's thread is past its own
\* bundle in a shared-memory execution that was interrupted, whoever still runs can
\* see that it should stop.
InterruptSetsStopEvt ==
  (Shm /\ interrupts > 0 /\ phase # "main" /\ AliveChildren # {}) => stopEvt
=============================================================================
