---------------------------- MODULE RolloutWaiter ----------------------------
(***************************************************************************)
(* Those who wait for rollouts while runners work on them:                 *)
(* wait_for_rollout of InMemoryLightningStore (store/memory.py), one call  *)
(* per rollout.  The call looks at the rollout under the store's lock,     *)
(* waits for its completion event in a thread, and looks again: anything   *)
(* may happen between the three.  A caller may cancel the rollout, or send *)
(* it back, with update_rollout.                                           *)
(***************************************************************************)
EXTENDS RunnerSystem

\* [Rollouts -> the call that waits for it].  away: before the call.  waiting: for the
\* event.  woken: about to look again.  given: the rollout was returned.  nothing: None
\* was returned.  timed: the call has a timeout.  known: the rollout existed when it was
\* made.
VARIABLE waiter

wvars == <<rvars, waiter>>

Moves(r, pc) == waiter' = [waiter EXCEPT ![r].pc = pc]

WaiterInit ==
  /\ RunnerInit
  /\ waiter = [r \in Rollouts |-> [pc |-> "away", timed |-> FALSE, known |-> FALSE]]

\* What a look at the rollout makes of the call: the rollout, when it is finished.
Outcome(r, otherwise) == IF IsFinished(status[r]) THEN "given" ELSE otherwise

\* A rollout nobody created has no event, and the call ends at once.
WaitForRollout(r, timed) ==
  /\ waiter[r].pc = "away"
  /\ waiter' = [waiter EXCEPT ![r] =
       [pc    |-> Outcome(r, IF status[r] = "absent" THEN "nothing" ELSE "waiting"),
        timed |-> timed,
        known |-> status[r] # "absent"]]
  /\ UNCHANGED rvars

\* evt.wait returns: the event is set, or time is up.
Wake(r) ==
  /\ waiter[r].pc = "waiting"
  /\ r \in completed
  /\ Moves(r, "woken")
  /\ UNCHANGED rvars

GiveUp(r) ==
  /\ waiter[r].pc = "waiting"
  /\ waiter[r].timed
  /\ Moves(r, "nothing")
  /\ UNCHANGED rvars

\* The rollout may have left its terminal status by now, or long ago: the event
\* stays set.
LookAgain(r) ==
  /\ waiter[r].pc = "woken"
  /\ Moves(r, Outcome(r, "nothing"))
  /\ UNCHANGED rvars

\* update_rollout by a caller.
Intervene(r) ==
  /\ \E s \in UpdateStatuses : UpdateRollout(r, s, config[r])
  /\ UNCHANGED <<runner, earned, waiter>>

WaiterNext ==
  \/ RunnerNext /\ UNCHANGED waiter
  \/ \E r \in Rollouts :
       \/ \E timed \in BOOLEAN : WaitForRollout(r, timed)
       \/ Wake(r)
       \/ GiveUp(r)
       \/ LookAgain(r)
       \/ Intervene(r)

WaiterSpec == WaiterInit /\ [][WaiterNext]_wvars

\* A runner goes on for as long as it lives: its agent ends, and an await of the
\* store ends, be it with a timeout.  Time passes, and each poll runs the watchdog.
\* The thread that waits for the event returns when it is set, and the event loop
\* then resumes the call.
WaiterFairness ==
  /\ \A r \in Rollouts : WF_wvars(Wake(r)) /\ WF_wvars(LookAgain(r))
  /\ \A w \in Workers : WF_wvars(RunnerStep(w) /\ UNCHANGED waiter)
  /\ WF_wvars(Healthcheck /\ UNCHANGED <<runner, earned, waiter>>)
  /\ \A r \in Rollouts : WF_wvars(Age(r) /\ UNCHANGED <<runner, earned, waiter>>)

FairWaiterSpec == WaiterSpec /\ WaiterFairness

-----------------------------------------------------------------------------
\* Whoever waits for a rollout with a timeout_seconds is answered, without a
\* timeout of their own too: the rollout ends although claims are lost with their
\* replies, runners die and reports get lost, and its end is not missed however it
\* falls between the look at the rollout and the wait for the event.
EveryWaitEnds ==
  \A r \in Rollouts : waiter[r].pc = "waiting" ~> waiter[r].pc \in {"given", "nothing"}

-----------------------------------------------------------------------------
\* "Block until the targeted rollouts reach a terminal status or the timeout
\* expires. ... None waits indefinitely" (store/base.py, wait_for_rollouts): a call
\* without a timeout on a rollout that exists never comes back without it.
NothingOnlyAfterTimeout ==
  \A r \in Rollouts :
    waiter[r].pc = "nothing" /\ waiter[r].known => waiter[r].timed
=============================================================================
