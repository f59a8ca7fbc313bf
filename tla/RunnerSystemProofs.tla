------------------------ MODULE RunnerSystemProofs ------------------------
(***************************************************************************)
(* Proofs about RunnerSystem and RolloutWaiter: the runners, and those who *)
(* wait for rollouts and intervene, use the store as LightningStore says   *)
(* callers may, so what is proved of the store holds of the system; no two *)
(* runners are ever on one attempt; and no rollout succeeds unearned.      *)
(***************************************************************************)
EXTENDS RolloutWaiter, LightningStoreProofs

-----------------------------------------------------------------------------
\* What a runner knows of its task.

Assigned(w) ==
  /\ runner[w] \in Runner
  /\ OnAttempt(w) => /\ runner[w].rollout \in Rollouts
                     /\ runner[w].attempt \in DOMAIN attempts[runner[w].rollout]
  /\ runner[w].pc \in {"reporting", "leaving"} => runner[w].outcome \in {"succeeded", "failed"}

RunnerInv ==
  /\ runner \in [Workers -> Runner]
  /\ \A w \in Workers : Assigned(w)
  /\ AttemptsAreExclusive

\* The store's side of a step of the system is a step of the store.
LEMMA StoreStep == RunnerInv /\ [RunnerNext]_rvars => [Next]_vars
<1> SUFFICES ASSUME RunnerInv, RunnerNext
             PROVE  Next \/ UNCHANGED vars
  BY DEF rvars, vars
<1>1. ASSUME NEW w \in Workers, Poll(w)
      PROVE  Next
  <2>1. FindNothing(w) \/ ClaimFirst(w)
    BY <1>1 DEF Poll, ClaimFirst
  <2>2. QED BY <2>1 DEF Next, Dequeue, DequeueRollout
<1>2. ASSUME NEW w \in Workers, Register(w)
      PROVE  Next \/ UNCHANGED vars
  <2> DEFINE r == runner[w].rollout
             n == runner[w].attempt
  <2>1. UpdateAttempt(r, n, Unset, w, FALSE) \/ UNCHANGED vars
    BY <1>2 DEF Register, Sent
  <2>2. r \in Rollouts /\ n \in DOMAIN attempts[r]
    BY <1>2 DEF Register, RunnerInv, Assigned, OnAttempt
  <2>3. QED BY <2>1, <2>2 DEF Next, Report
<1>3. ASSUME NEW w \in Workers, SendOutcome(w)
      PROVE  Next \/ UNCHANGED vars
  <2> DEFINE r == runner[w].rollout
             n == runner[w].attempt
  <2>1. UpdateAttempt(r, n, runner[w].outcome, Unset, FALSE) \/ UNCHANGED vars
    BY <1>3 DEF SendOutcome, Sent
  <2>2. /\ r \in Rollouts /\ n \in DOMAIN attempts[r]
        /\ runner[w].outcome \in ReportStatuses
    BY <1>3, RunnerAssumption DEF SendOutcome, RunnerInv, Assigned, OnAttempt
  <2>3. QED BY <2>1, <2>2 DEF Next, Report
<1>4. ASSUME NEW w \in Workers, EmitSpan(w)
      PROVE  Next
  BY <1>4 DEF EmitSpan, RunnerInv, Assigned, OnAttempt, Next, Report
<1>5. CASE LateSpan
  BY <1>5 DEF LateSpan, Next, Report
<1>6. ASSUME NEW w \in Workers, EmitHeartbeat(w)
      PROVE  Next
  BY <1>6 DEF EmitHeartbeat, Next
<1>7. ASSUME NEW w \in Workers, NEW r \in Rollouts, NEW c \in Configs, StartOwn(w, r, c)
      PROVE  Next
  BY <1>7 DEF StartOwn, Next, Submit
<1>8. CASE Surroundings
  BY <1>8 DEF Surroundings, Next, Submit
<1>9. ASSUME NEW w \in Workers,
             FetchResources(w) \/ FinishRollout(w) \/ CancelRollout(w) \/ Crash(w)
      PROVE  UNCHANGED vars
  BY <1>9 DEF FetchResources, FinishRollout, CancelRollout, Crash
<1>10. QED
  BY <1>1, <1>2, <1>3, <1>4, <1>5, <1>6, <1>7, <1>8, <1>9 DEF RunnerNext, RunnerStep

-----------------------------------------------------------------------------
\* Attempts are never taken away.

LEMMA AttemptsGrow ==
  ASSUME TypeOK, AttemptInv, [Next]_vars
  PROVE  \A r \in Rollouts : DOMAIN attempts[r] \subseteq DOMAIN attempts'[r]
<1>1. CASE Submit
  <2>1. PICK r \in Rollouts, c \in Configs : StartRollout(r, c) \/ EnqueueRollout(r, c)
    BY <1>1 DEF Submit
  <2>2. attempts[r] = <<>> /\ \A x \in Rollouts \ {r} : attempts'[x] = attempts[x]
    BY <2>1 DEF StartRollout, EnqueueRollout, AttemptInv, RolloutInv, TypeOK
  <2>3. QED BY <2>2
<1>2. CASE Dequeue
  <2>1. CASE attempts' = attempts
    BY <2>1
  <2>2. CASE attempts' # attempts
    <3>1. PICK i \in Eligible : InsertAttempt(queue[i])
      BY <1>2, <2>2 DEF Dequeue, DequeueRollout, FindNothing, ClaimFirst, Claim
    <3>2. queue[i] \in Rollouts
      BY DEF Eligible, TypeOK
    <3>3. QED BY <3>1, <3>2, InsertFacts
  <2>3. QED BY <2>1, <2>2
<1>3. CASE Manage
  <2>1. CASE attempts' = attempts
    BY <2>1
  <2>2. CASE attempts' # attempts
    <3>1. PICK r \in Rollouts : InsertAttempt(r)
      BY <1>3, <2>2 DEF Manage, UpdateRollout, StartAttempt
    <3>2. QED BY <3>1, InsertFacts
  <2>3. QED BY <2>1, <2>2
<1>4. ASSUME NEW r \in Rollouts, NEW n, NEW a, Rewrite(r, n, a)
      PROVE  \A x \in Rollouts : DOMAIN attempts[x] \subseteq DOMAIN attempts'[x]
  BY <1>4 DEF Rewrite, TypeOK
<1>5. CASE Report
  <2>1. PICK r \in Rollouts : \E n \in DOMAIN attempts[r] :
          \/ AddSpan(r, n)
          \/ \E s \in ReportStatuses \cup {Unset}, w \in Workers \cup {Unset}, beat \in BOOLEAN :
               UpdateAttempt(r, n, s, w, beat)
    BY <1>5 DEF Report
  <2>2. PICK n \in DOMAIN attempts[r] :
          \/ AddSpan(r, n)
          \/ \E s \in ReportStatuses \cup {Unset}, w \in Workers \cup {Unset}, beat \in BOOLEAN :
               UpdateAttempt(r, n, s, w, beat)
    BY <2>1
  <2>3. CASE AddSpan(r, n)
    <3> DEFINE a == [attempts[r][n] EXCEPT !.status =
                       IF @ \in {"preparing", "unresponsive"} THEN "running" ELSE @]
    <3>1. Rewrite(r, n, a)
      BY <2>3 DEF AddSpan, TypeOK, Rewrite
    <3>2. QED BY <1>4, <3>1
  <2>4. ASSUME NEW s \in ReportStatuses \cup {Unset}, NEW w \in Workers \cup {Unset},
               NEW beat \in BOOLEAN, UpdateAttempt(r, n, s, w, beat)
        PROVE  \A x \in Rollouts : DOMAIN attempts[x] \subseteq DOMAIN attempts'[x]
    <3>1. Rewrite(r, n, UpdatedAttempt(r, n, s, w))
      BY <2>4 DEF UpdateAttempt, TypeOK, Rewrite
    <3>2. QED BY <1>4, <3>1
  <2>5. QED BY <2>2, <2>3, <2>4
<1>6. CASE Healthcheck
  BY <1>6, HealthcheckFacts
<1>7. CASE (\E w \in Workers : UpdateWorker(w)) \/ (\E r \in Rollouts : Elapse(r)) \/ UNCHANGED vars
  BY <1>7 DEF UpdateWorker, Elapse, Age, FallSilent, vars
<1>8. QED BY <1>1, <1>2, <1>3, <1>5, <1>6, <1>7 DEF Next

-----------------------------------------------------------------------------
\* A runner that stays on its attempt, or leaves it.
LEMMA KeepsOn ==
  ASSUME RunnerInv, NEW w \in Workers, NEW rec \in Runner, Becomes(w, rec),
         \A r \in Rollouts : DOMAIN attempts[r] \subseteq DOMAIN attempts'[r],
         rec.pc \notin {"polling", "stopped"} =>
           /\ OnAttempt(w)
           /\ rec.rollout = runner[w].rollout
           /\ rec.attempt = runner[w].attempt,
         rec.pc \in {"reporting", "leaving"} => rec.outcome \in {"succeeded", "failed"}
  PROVE  RunnerInv'
<1>1. /\ runner' \in [Workers -> Runner] /\ runner'[w] = rec
      /\ \A v \in Workers \ {w} : runner'[v] = runner[v]
  BY DEF Becomes, RunnerInv
<1>2. ASSUME NEW v \in Workers
      PROVE  /\ Assigned(v)'
             /\ OnAttempt(v)' => /\ OnAttempt(v)
                                 /\ runner'[v].rollout = runner[v].rollout
                                 /\ runner'[v].attempt = runner[v].attempt
  BY <1>1 DEF Assigned, OnAttempt, RunnerInv
<1>3. AttemptsAreExclusive'
  BY <1>2 DEF AttemptsAreExclusive, RunnerInv
<1>4. QED BY <1>1, <1>2, <1>3 DEF RunnerInv

\* A runner that is given an attempt opened in this step.
LEMMA TakesNew ==
  ASSUME RunnerInv, NEW w \in Workers, NEW r \in Rollouts, NEW n \in Nat,
         Becomes(w, At("claimed", r, n, Unset)),
         \A x \in Rollouts : DOMAIN attempts[x] \subseteq DOMAIN attempts'[x],
         n \in DOMAIN attempts'[r], n \notin DOMAIN attempts[r]
  PROVE  RunnerInv'
<1> DEFINE rec == At("claimed", r, n, Unset)
<1>1. /\ rec \in Runner /\ rec.pc = "claimed" /\ rec.rollout = r /\ rec.attempt = n
  BY RunnerAssumption DEF At, Runner, Phase
<1> HIDE DEF rec
<1>2. /\ runner' \in [Workers -> Runner] /\ runner'[w] = rec
      /\ \A v \in Workers \ {w} : runner'[v] = runner[v]
  BY <1>1 DEF Becomes, RunnerInv, rec
<1>3. \A v \in Workers : Assigned(v)'
  BY <1>1, <1>2 DEF Assigned, OnAttempt, RunnerInv
<1>4. AttemptsAreExclusive'
  <2> SUFFICES ASSUME NEW u \in Workers, NEW v \in Workers, u # v,
                      OnAttempt(u)', OnAttempt(v)',
                      runner'[u].rollout = runner'[v].rollout,
                      runner'[u].attempt = runner'[v].attempt
               PROVE  FALSE
    BY DEF AttemptsAreExclusive
  <2>1. ASSUME NEW x \in Workers \ {w}, OnAttempt(x)', runner'[x].rollout = r
        PROVE  runner'[x].attempt # n
    BY <1>2, <2>1 DEF Assigned, OnAttempt, RunnerInv
  <2>2. CASE u = w
    BY <1>1, <1>2, <2>1, <2>2
  <2>3. CASE v = w
    BY <1>1, <1>2, <2>1, <2>3
  <2>4. CASE u # w /\ v # w
    BY <1>2, <2>4 DEF AttemptsAreExclusive, OnAttempt, RunnerInv
  <2>5. QED BY <2>2, <2>3, <2>4
<1>5. QED BY <1>2, <1>3, <1>4 DEF RunnerInv

\* The places a runner moves to within its task.
LEMMA PlaceType ==
  ASSUME NEW r \in Rollouts, NEW n \in Nat, NEW pc \in Phase,
         NEW o \in {"succeeded", "failed", Unset}
  PROVE  At(pc, r, n, o) \in Runner /\ Polling \in Runner /\ Stopped \in Runner
BY RunnerAssumption DEF At, Polling, Stopped, Runner, Phase

\* A call on behalf of the task, sent until it is answered or given up.
LEMMA SentKeepsOn ==
  ASSUME RunnerInv, NEW w \in Workers, OnAttempt(w), NEW ACTION call,
         NEW done \in Runner, NEW failed \in {Polling, Stopped},
         \A r \in Rollouts : DOMAIN attempts[r] \subseteq DOMAIN attempts'[r],
         done.pc \notin {"reporting", "leaving"},
         done.pc \notin {"polling", "stopped"} =>
           /\ done.rollout = runner[w].rollout
           /\ done.attempt = runner[w].attempt,
         Sent(w, call, done, failed)
  PROVE  RunnerInv'
<1> DEFINE again == [runner[w] EXCEPT !.tries = @ + 1]
<1>1. runner[w] \in Runner
  BY DEF RunnerInv
<1>2. CASE Becomes(w, done)
  BY <1>2, KeepsOn
<1>3. CASE runner[w].tries < Retries /\ Becomes(w, again)
  <2>1. again \in Runner /\ again.pc = runner[w].pc /\ again.rollout = runner[w].rollout
        /\ again.attempt = runner[w].attempt /\ again.outcome = runner[w].outcome
    BY <1>1, <1>3, RunnerAssumption DEF Runner
  <2>2. again.pc \in {"reporting", "leaving"} => again.outcome \in {"succeeded", "failed"}
    BY <2>1 DEF RunnerInv, Assigned
  <2> HIDE DEF again
  <2>3. QED BY <1>3, <2>1, <2>2, KeepsOn
<1>4. CASE Becomes(w, failed)
  <2>1. failed \in Runner /\ failed.pc \in {"polling", "stopped"}
    BY RunnerAssumption DEF At, Polling, Stopped, Runner, Phase
  <2>2. QED BY <1>4, <2>1, KeepsOn
<1>5. QED BY <1>2, <1>3, <1>4 DEF Sent

LEMMA RunnerInvStep ==
  TypeOK /\ AttemptInv /\ RunnerInv /\ [RunnerNext]_rvars => RunnerInv'
<1> SUFFICES ASSUME TypeOK, AttemptInv, RunnerInv, [RunnerNext]_rvars
             PROVE  RunnerInv'
  OBVIOUS
<1>1. \A r \in Rollouts : DOMAIN attempts[r] \subseteq DOMAIN attempts'[r]
  BY StoreStep, AttemptsGrow
<1>2. CASE runner' = runner
  <2>1. \A w \in Workers : Assigned(w)'
    BY <1>1, <1>2 DEF RunnerInv, Assigned, OnAttempt
  <2>2. AttemptsAreExclusive'
    BY <1>2 DEF RunnerInv, AttemptsAreExclusive, OnAttempt
  <2>3. QED BY <1>2, <2>1, <2>2 DEF RunnerInv
<1>3. ASSUME NEW w \in Workers, Poll(w), runner' # runner
      PROVE  RunnerInv'
  <2>1. PICK i \in Eligible :
          Claim(i, w) /\ Becomes(w, At("claimed", queue[i], Len(attempts'[queue[i]]), Unset))
    BY <1>3 DEF Poll
  <2>2. queue[i] \in Rollouts /\ InsertAttempt(queue[i])
    BY <2>1 DEF Eligible, TypeOK, Claim
  <2>3. /\ Len(attempts'[queue[i]]) \in Nat
        /\ Len(attempts'[queue[i]]) \in DOMAIN attempts'[queue[i]]
        /\ Len(attempts'[queue[i]]) \notin DOMAIN attempts[queue[i]]
    <3>1. attempts[queue[i]] \in Seq(Attempt) /\ attempts'[queue[i]] = Append(attempts[queue[i]], NewAttempt)
      BY <2>2 DEF InsertAttempt, TypeOK
    <3>2. QED BY <3>1
  <2>4. QED BY <1>1, <2>1, <2>2, <2>3, TakesNew
<1>4. ASSUME NEW w \in Workers, NEW r \in Rollouts, NEW c \in Configs, StartOwn(w, r, c)
      PROVE  RunnerInv'
  <2>1. attempts[r] = <<>> /\ attempts'[r] = <<NewAttempt>>
    BY <1>4 DEF StartOwn, StartRollout, AttemptInv, RolloutInv, TypeOK
  <2>2. 1 \in DOMAIN attempts'[r] /\ 1 \notin DOMAIN attempts[r]
    BY <2>1
  <2>3. Becomes(w, At("claimed", r, 1, Unset))
    BY <1>4 DEF StartOwn
  <2>4. QED BY <1>1, <2>2, <2>3, TakesNew
<1>5. ASSUME NEW w \in Workers, OnAttempt(w)
      PROVE  /\ runner[w].rollout \in Rollouts /\ runner[w].attempt \in Nat
             /\ runner[w] \in Runner
  BY <1>5 DEF RunnerInv, Assigned, Runner
<1>6. ASSUME NEW w \in Workers, Register(w)
      PROVE  RunnerInv'
  <2> DEFINE r == runner[w].rollout
             n == runner[w].attempt
             done == At("registered", r, n, Unset)
  <2>1. OnAttempt(w)
    BY <1>6 DEF Register, OnAttempt
  <2>2. done \in Runner /\ Polling \in {Polling, Stopped}
    BY <1>5, <2>1, PlaceType DEF Phase
  <2>3. done.pc = "registered" /\ done.rollout = r /\ done.attempt = n
    BY DEF At
  <2>4. Sent(w, UpdateAttempt(r, n, Unset, w, FALSE), done, Polling)
    BY <1>6 DEF Register
  <2> HIDE DEF done
  <2>5. QED BY <1>1, <2>1, <2>2, <2>3, <2>4, SentKeepsOn
<1>7. ASSUME NEW w \in Workers, SendOutcome(w)
      PROVE  RunnerInv'
  <2> DEFINE r == runner[w].rollout
             n == runner[w].attempt
             next == IF runner[w].pc = "leaving" THEN Stopped ELSE Polling
  <2>1. OnAttempt(w)
    BY <1>7 DEF SendOutcome, OnAttempt
  <2>2. next \in Runner /\ next \in {Polling, Stopped} /\ next.pc \in {"polling", "stopped"}
    BY RunnerAssumption DEF At, Polling, Stopped, Runner, Phase
  <2>3. Sent(w, UpdateAttempt(r, n, runner[w].outcome, Unset, FALSE), next, next)
    BY <1>7 DEF SendOutcome
  <2> HIDE DEF next
  <2>4. QED BY <1>1, <2>1, <2>2, <2>3, SentKeepsOn
<1>8. ASSUME NEW w \in Workers, FetchResources(w) \/ FinishRollout(w) \/ CancelRollout(w)
      PROVE  RunnerInv'
  <2> DEFINE r == runner[w].rollout
             n == runner[w].attempt
  <2>1. OnAttempt(w)
    BY <1>8 DEF FetchResources, FinishRollout, CancelRollout, OnAttempt
  <2>2. PICK pc \in Phase, o \in {"succeeded", "failed", Unset} :
          /\ Becomes(w, At(pc, r, n, o)) \/ Becomes(w, Polling)
          /\ pc \in {"reporting", "leaving"} => o \in {"succeeded", "failed"}
    BY <1>8 DEF FetchResources, FinishRollout, CancelRollout, Phase
  <2>3. At(pc, r, n, o) \in Runner /\ Polling \in Runner
    BY <1>5, <2>1, PlaceType
  <2>4. /\ At(pc, r, n, o).pc = pc /\ At(pc, r, n, o).rollout = r
        /\ At(pc, r, n, o).attempt = n /\ At(pc, r, n, o).outcome = o
        /\ Polling.pc = "polling"
    BY DEF At, Polling
  <2>5. CASE Becomes(w, At(pc, r, n, o))
    BY <1>1, <2>1, <2>2, <2>3, <2>4, <2>5, KeepsOn
  <2>6. CASE Becomes(w, Polling)
    BY <1>1, <2>3, <2>4, <2>6, KeepsOn
  <2>7. QED BY <2>2, <2>5, <2>6
<1>9. ASSUME NEW w \in Workers, Crash(w)
      PROVE  RunnerInv'
  <2>1. Becomes(w, Stopped) /\ Stopped \in Runner /\ Stopped.pc = "stopped"
    BY <1>9, RunnerAssumption DEF Crash, At, Stopped, Runner, Phase
  <2>2. QED BY <1>1, <2>1, KeepsOn
<1>10. CASE RunnerNext /\ runner' # runner
  BY <1>3, <1>4, <1>6, <1>7, <1>8, <1>9, <1>10
  DEF RunnerNext, RunnerStep, EmitSpan, EmitHeartbeat, LateSpan
<1>11. QED BY <1>2, <1>10 DEF rvars

SystemInv == StoreInv /\ AttemptInv /\ RunnerInv

LEMMA SystemInvStep == SystemInv /\ [RunnerNext]_rvars => SystemInv'
<1> SUFFICES ASSUME SystemInv, [RunnerNext]_rvars
             PROVE  SystemInv'
  OBVIOUS
<1>1. [Next]_vars
  BY StoreStep DEF SystemInv
<1>2. StoreInv' /\ AttemptInv'
  BY <1>1, StoreInvStep, AttemptInvStep DEF SystemInv
<1>3. RunnerInv'
  BY RunnerInvStep DEF SystemInv, StoreInv
<1>4. QED BY <1>2, <1>3 DEF SystemInv

LEMMA RunnerInitInv == RunnerInit => SystemInv
<1>1. RunnerInit => RunnerInv
  BY RunnerAssumption
  DEF RunnerInit, RunnerInv, Assigned, AttemptsAreExclusive, OnAttempt, At, Polling, Runner, Phase
<1>2. RunnerInit => StoreInv /\ AttemptInv
  BY StoreInvInit, AttemptInvInit DEF RunnerInit
<1>3. QED BY <1>1, <1>2 DEF SystemInv

LEMMA SystemInvariant == RunnerSpec => []SystemInv
BY RunnerInitInv, SystemInvStep, PTL DEF RunnerSpec

\* Every history of the system is, as far as the store sees, a history of the
\* store used the way LightningStore allows: its theorems hold of the system.
THEOREM RunnersUseTheStore == RunnerSpec => Spec
<1>1. RunnerInit => Init
  BY DEF RunnerInit
<1>2. SystemInv /\ [RunnerNext]_rvars => [Next]_vars
  BY StoreStep DEF SystemInv
<1>3. QED BY <1>1, <1>2, SystemInvariant, PTL DEF RunnerSpec, Spec

\* In every history no two runners are on the same attempt, however the store's
\* replies and the runners get lost.
THEOREM OneRunnerPerAttempt == RunnerSpec => []AttemptsAreExclusive
<1>1. SystemInv => AttemptsAreExclusive
  BY DEF SystemInv, RunnerInv
<1>2. QED BY <1>1, SystemInvariant, PTL

-----------------------------------------------------------------------------
\* The runners with those who wait for rollouts, cancel them and send them back.

LEMMA InterveneStep ==
  ASSUME NEW r \in Rollouts, Intervene(r)
  PROVE  Manage
BY DEF Intervene, Manage

LEMMA WaiterStep == RunnerInv /\ [WaiterNext]_wvars => [Next]_vars
<1> SUFFICES ASSUME RunnerInv, [WaiterNext]_wvars
             PROVE  [Next]_vars
  OBVIOUS
<1>1. CASE [RunnerNext]_rvars
  BY <1>1, StoreStep
<1>2. ASSUME NEW r \in Rollouts, Intervene(r)
      PROVE  Next
  BY <1>2, InterveneStep DEF Next
<1>3. ASSUME NEW r \in Rollouts,
             (\E timed \in BOOLEAN : WaitForRollout(r, timed)) \/ Wake(r) \/ GiveUp(r) \/ LookAgain(r)
      PROVE  UNCHANGED rvars
  BY <1>3 DEF WaitForRollout, Wake, GiveUp, LookAgain
<1>4. QED BY <1>1, <1>2, <1>3 DEF WaiterNext, wvars

LEMMA WaitersSystemStep == SystemInv /\ [WaiterNext]_wvars => SystemInv'
<1> SUFFICES ASSUME SystemInv, [WaiterNext]_wvars
             PROVE  SystemInv'
  OBVIOUS
<1>1. [Next]_vars
  BY WaiterStep DEF SystemInv
<1>2. StoreInv' /\ AttemptInv'
  BY <1>1, StoreInvStep, AttemptInvStep DEF SystemInv
<1>3. CASE [RunnerNext]_rvars
  BY <1>3, SystemInvStep
<1>4. CASE runner' = runner
  <2>1. \A r \in Rollouts : DOMAIN attempts[r] \subseteq DOMAIN attempts'[r]
    BY <1>1, AttemptsGrow DEF SystemInv, StoreInv
  <2>2. RunnerInv'
    BY <1>4, <2>1 DEF SystemInv, RunnerInv, Assigned, AttemptsAreExclusive, OnAttempt
  <2>3. QED BY <1>2, <2>2 DEF SystemInv
<1>5. QED
  BY <1>3, <1>4
  DEF WaiterNext, WaitForRollout, Wake, GiveUp, LookAgain, Intervene, rvars, wvars

LEMMA WaitersSystemInvariant == WaiterSpec => []SystemInv
<1>1. WaiterInit => SystemInv
  BY RunnerInitInv DEF WaiterInit
<1>2. QED BY <1>1, WaitersSystemStep, PTL DEF WaiterSpec

\* The store's theorems hold of the system with waiters who intervene, too: no
\* interleaving of their calls with the runners' is foreign to LightningStore.
THEOREM WaitersUseTheStore == WaiterSpec => Spec
<1>1. WaiterInit => Init
  BY DEF WaiterInit, RunnerInit
<1>2. SystemInv /\ [WaiterNext]_wvars => [Next]_vars
  BY WaiterStep DEF SystemInv
<1>3. QED BY <1>1, <1>2, WaitersSystemInvariant, PTL DEF WaiterSpec, Spec

-----------------------------------------------------------------------------
\* Where successes come from.  A step makes successes only of the attempts in S: an
\* attempt succeeds if it did or is one of them, a rollout if it did or has a
\* succeeded attempt.

SuccessFrom(S) ==
  /\ \A r \in Rollouts : \A n \in DOMAIN attempts'[r] :
       attempts'[r][n].status = "succeeded" =>
         \/ <<r, n>> \in S
         \/ n \in DOMAIN attempts[r] /\ attempts[r][n].status = "succeeded"
  /\ \A r \in Rollouts :
       status'[r] = "succeeded" =>
         \/ status[r] = "succeeded"
         \/ \E n \in DOMAIN attempts'[r] : attempts'[r][n].status = "succeeded"

\* Opening an attempt, or writing a status other than success, makes none.
LEMMA InsertSuccess ==
  ASSUME TypeOK, NEW r \in Rollouts, InsertAttempt(r),
         status' = [status EXCEPT ![r] = "preparing"]
  PROVE  SuccessFrom({})
<1>1. attempts[r] \in Seq(Attempt) /\ attempts'[r] = Append(attempts[r], NewAttempt)
  BY DEF TypeOK, InsertAttempt
<1>2. \A n \in DOMAIN attempts'[r] :
        \/ n \in DOMAIN attempts[r] /\ attempts'[r][n] = attempts[r][n]
        \/ attempts'[r][n] = NewAttempt
  BY <1>1
<1>3. \A x \in Rollouts \ {r} : attempts'[x] = attempts[x]
  BY InsertFacts
<1>4. \A x \in Rollouts : status'[x] = "succeeded" => status[x] = "succeeded"
  BY DEF TypeOK
<1>5. NewAttempt.status # "succeeded"
  BY DEF NewAttempt
<1>6. QED BY <1>2, <1>3, <1>4, <1>5 DEF SuccessFrom

LEMMA WriteSuccess ==
  ASSUME TypeOK, NEW r \in Rollouts, NEW s, s = "succeeded" => s = status[r],
         status' = [status EXCEPT ![r] = s], UNCHANGED attempts
  PROVE  SuccessFrom({})
BY DEF SuccessFrom, TypeOK

\* A report makes a success of its own attempt, if it reports one.
LEMMA ReportSuccess ==
  ASSUME TypeOK, NEW r \in Rollouts, NEW n \in DOMAIN attempts[r],
         NEW s \in ReportStatuses \cup {Unset}, NEW w \in Workers \cup {Unset},
         NEW beat \in BOOLEAN, UpdateAttempt(r, n, s, w, beat)
  PROVE  SuccessFrom(IF s = "succeeded" THEN {<<r, n>>} ELSE {})
<1> DEFINE a == UpdatedAttempt(r, n, s, w)
           S == IF s = "succeeded" THEN {<<r, n>>} ELSE {}
<1>1. attempts[r][n] \in Attempt /\ attempts[r] \in Seq(Attempt)
  BY DEF TypeOK
<1>2. a \in Attempt /\ a.status = IF s = Unset THEN attempts[r][n].status ELSE s
  BY <1>1, UpdatedType DEF UpdatedAttempt, Attempt
<1>3. Rewrite(r, n, a)
  BY DEF UpdateAttempt, TypeOK, Rewrite
<1>4. status' = IF n = Len(attempts[r])
                THEN [status EXCEPT ![r] = PropagateStatus(a.status, n, config[r])]
                ELSE status
  BY DEF UpdateAttempt, FollowLatest, UpdateRolloutUnlocked
<1>5. a.status = "succeeded" =>
        <<r, n>> \in S \/ attempts[r][n].status = "succeeded"
  BY <1>2
<1> HIDE DEF a, S
<1>6. /\ DOMAIN attempts'[r] = DOMAIN attempts[r] /\ attempts'[r][n] = a
      /\ \A m \in DOMAIN attempts[r] \ {n} : attempts'[r][m] = attempts[r][m]
      /\ \A x \in Rollouts \ {r} : attempts'[x] = attempts[x]
  BY <1>2, <1>3, RewriteFacts
<1>7. ASSUME NEW x \in Rollouts, status'[x] = "succeeded", status[x] # "succeeded"
      PROVE  \E m \in DOMAIN attempts'[x] : attempts'[x][m].status = "succeeded"
  <2>1. x = r /\ PropagateStatus(a.status, n, config[r]) = "succeeded"
    BY <1>4, <1>7 DEF TypeOK
  <2>2. a.status = "succeeded"
    BY <2>1 DEF PropagateStatus
  <2>3. QED BY <1>6, <2>1, <2>2
<1>8. ASSUME NEW x \in Rollouts, NEW m \in DOMAIN attempts'[x],
             attempts'[x][m].status = "succeeded"
      PROVE  \/ <<x, m>> \in S
             \/ m \in DOMAIN attempts[x] /\ attempts[x][m].status = "succeeded"
  BY <1>5, <1>6, <1>8
<1>9. SuccessFrom(S)
  BY <1>7, <1>8 DEF SuccessFrom
<1>10. QED BY <1>9 DEF S

\* A span and the watchdog make none: the watchdog only passes on a success it finds.
LEMMA SpanSuccess ==
  ASSUME TypeOK, NEW r \in Rollouts, NEW n \in DOMAIN attempts[r], AddSpan(r, n)
  PROVE  SuccessFrom({})
<1> DEFINE a == [attempts[r][n] EXCEPT !.status =
                   IF @ \in {"preparing", "unresponsive"} THEN "running" ELSE @]
<1>1. attempts[r][n] \in Attempt
  BY DEF TypeOK
<1>2. /\ a \in Attempt
      /\ a.status = "succeeded" => attempts[r][n].status = "succeeded"
  BY <1>1 DEF Attempt, AttemptStatus
<1>3. Rewrite(r, n, a)
  BY DEF AddSpan, TypeOK, Rewrite
<1> HIDE DEF a
<1>4. /\ DOMAIN attempts'[r] = DOMAIN attempts[r] /\ attempts'[r][n] = a
      /\ \A m \in DOMAIN attempts[r] \ {n} : attempts'[r][m] = attempts[r][m]
      /\ \A x \in Rollouts \ {r} : attempts'[x] = attempts[x]
  BY <1>2, <1>3, RewriteFacts
<1>5. \A x \in Rollouts : status'[x] = "succeeded" => status[x] = "succeeded"
  BY DEF AddSpan, ReviveRollout, Revived, TypeOK
<1>6. QED BY <1>2, <1>4, <1>5 DEF SuccessFrom

LEMMA WatchdogSuccess == TypeOK /\ Healthcheck => SuccessFrom({})
<1> SUFFICES ASSUME TypeOK, Healthcheck
             PROVE  SuccessFrom({})
  OBVIOUS
<1>1. \A r \in Rollouts :
        r \in Diagnosed => ~Ended(r) /\ r \in Watched /\ r \in Reviewed
  BY DEF Diagnosed, Reviewed
<1>2. ASSUME NEW r \in Diagnosed
      PROVE  Diagnosis(r) # "succeeded"
  <2>1. Last(attempts[r]).status # "succeeded"
    BY <1>2 DEF Diagnosed, Ended
  <2>2. QED BY <2>1 DEF Diagnosis, Diagnosed, Ended
<1>3. ASSUME NEW r \in Rollouts, NEW n \in DOMAIN attempts'[r],
             attempts'[r][n].status = "succeeded"
      PROVE  n \in DOMAIN attempts[r] /\ attempts[r][n].status = "succeeded"
  <2>1. /\ n \in DOMAIN attempts[r]
        /\ n # Len(attempts[r]) \/ r \notin Diagnosed => attempts'[r][n] = attempts[r][n]
        /\ r \in Diagnosed => attempts'[r][Len(attempts[r])].status = Diagnosis(r)
    BY HealthcheckFacts
  <2>2. QED BY <1>2, <1>3, <2>1
<1>4. ASSUME NEW r \in Rollouts, status'[r] = "succeeded", status[r] # "succeeded"
      PROVE  \E n \in DOMAIN attempts'[r] : attempts'[r][n].status = "succeeded"
  <2>1. status'[r] = ReviewedStatus(r)
    BY DEF Healthcheck
  <2>2. r \in Reviewed
    BY <1>4, <2>1 DEF ReviewedStatus
  <2>3. Diagnosis(r) = "succeeded"
    BY <1>4, <2>1, <2>2 DEF ReviewedStatus, PropagateStatus
  <2>4. /\ Len(attempts[r]) \in DOMAIN attempts[r] /\ Last(attempts[r]).status = "succeeded"
        /\ Last(attempts[r]) = attempts[r][Len(attempts[r])]
        /\ r \notin Diagnosed
    BY <1>2, <2>2, <2>3, ReviewedFacts, WatchedFacts DEF Reviewed, Diagnosis
  <2>5. DOMAIN attempts'[r] = DOMAIN attempts[r]
        /\ attempts'[r][Len(attempts[r])] = attempts[r][Len(attempts[r])]
    BY <2>4, HealthcheckFacts
  <2>6. QED BY <2>4, <2>5
<1>5. QED BY <1>3, <1>4 DEF SuccessFrom

\* Callers who manage rollouts make none, unless they force the status.
LEMMA ManageSuccess ==
  ASSUME TypeOK, "succeeded" \notin UpdateStatuses, Manage
  PROVE  SuccessFrom({})
<1>1. PICK r \in Rollouts :
        \/ StartAttempt(r)
        \/ \E s \in UpdateStatuses : UpdateRollout(r, s, config[r])
        \/ \E c \in Configs : UpdateRollout(r, status[r], c)
  BY DEF Manage
<1>2. CASE StartAttempt(r)
  BY <1>2, InsertSuccess DEF StartAttempt, UpdateRolloutUnlocked
<1>3. ASSUME NEW s \in UpdateStatuses \cup {status[r]}, NEW c, UpdateRollout(r, s, c)
      PROVE  SuccessFrom({})
  BY <1>3, WriteSuccess DEF UpdateRollout, UpdateRolloutUnlocked
<1>4. QED BY <1>1, <1>2, <1>3

LEMMA SubmitSuccess ==
  ASSUME TypeOK, NEW r \in Rollouts, NEW c, StartRollout(r, c) \/ EnqueueRollout(r, c)
  PROVE  SuccessFrom({})
<1>1. CASE EnqueueRollout(r, c)
  BY <1>1, WriteSuccess DEF EnqueueRollout
<1>2. CASE StartRollout(r, c)
  <2>1. /\ attempts' = [attempts EXCEPT ![r] = <<NewAttempt>>]
        /\ status' = [status EXCEPT ![r] = "preparing"]
    BY <1>2 DEF StartRollout
  <2>2. NewAttempt.status # "succeeded" /\ DOMAIN <<NewAttempt>> = {1}
    BY DEF NewAttempt
  <2>3. QED BY <2>1, <2>2 DEF SuccessFrom, TypeOK
<1>3. QED BY <1>1, <1>2

LEMMA ClaimSuccess ==
  ASSUME TypeOK, NEW w, NEW i \in Eligible, Claim(i, w)
  PROVE  SuccessFrom({})
<1>1. queue[i] \in Rollouts
  BY DEF Eligible, TypeOK
<1>2. QED BY <1>1, InsertSuccess DEF Claim, UpdateRolloutUnlocked

\* Steps that write neither attempts nor statuses.
LEMMA QuietSuccess == UNCHANGED <<attempts, status>> => SuccessFrom({})
BY DEF SuccessFrom

-----------------------------------------------------------------------------
\* What is on record as succeeded, or about to be reported so, was earned.

SuccessesEarned ==
  \A r \in Rollouts : \A n \in DOMAIN attempts[r] :
    attempts[r][n].status = "succeeded" => <<r, n>> \in earned

ReportsEarned ==
  \A w \in Workers :
    runner[w].pc \in {"reporting", "leaving"} /\ runner[w].outcome = "succeeded" =>
      <<runner[w].rollout, runner[w].attempt>> \in earned

EarnedInv == SuccessesEarned /\ ReportsEarned /\ SuccessIsEarned

\* A step whose successes were earned keeps the record so.
LEMMA EarnedKept ==
  ASSUME EarnedInv, NEW S, SuccessFrom(S), S \subseteq earned', earned \subseteq earned',
         \A r \in Rollouts : DOMAIN attempts[r] \subseteq DOMAIN attempts'[r],
         ReportsEarned'
  PROVE  EarnedInv'
<1>1. SuccessesEarned'
  BY DEF EarnedInv, SuccessesEarned, SuccessFrom
<1>2. ASSUME NEW r \in Rollouts, status'[r] = "succeeded"
      PROVE  \E n \in DOMAIN attempts'[r] : <<r, n>> \in earned'
  BY <1>1, <1>2 DEF EarnedInv, SuccessIsEarned, SuccessesEarned, SuccessFrom
<1>3. QED BY <1>1, <1>2 DEF EarnedInv, SuccessIsEarned

\* A runner that is not about to report a success it has not earned.
LEMMA HonestMove ==
  ASSUME RunnerInv, ReportsEarned, earned \subseteq earned',
         NEW w \in Workers, NEW rec, Becomes(w, rec),
         rec.pc \in {"reporting", "leaving"} /\ rec.outcome = "succeeded" =>
           <<rec.rollout, rec.attempt>> \in earned'
  PROVE  ReportsEarned'
<1>1. runner'[w] = rec /\ \A v \in Workers \ {w} : runner'[v] = runner[v]
  BY DEF Becomes, RunnerInv
<1>2. QED BY <1>1 DEF ReportsEarned

LEMMA SameReports ==
  ASSUME ReportsEarned, UNCHANGED <<runner, earned>>
  PROVE  ReportsEarned'
BY DEF ReportsEarned

\* A call on behalf of the task: what it makes of the store was earned, if what it
\* would make was.
LEMMA SentHonestly ==
  ASSUME SystemInv, EarnedInv, NEW w \in Workers, NEW ACTION call, NEW done, NEW failed,
         NEW S, S \subseteq earned, call => SuccessFrom(S),
         \A r \in Rollouts : DOMAIN attempts[r] \subseteq DOMAIN attempts'[r],
         done.pc \notin {"reporting", "leaving"}, failed.pc \notin {"reporting", "leaving"},
         Sent(w, call, done, failed), UNCHANGED earned
  PROVE  EarnedInv'
<1> DEFINE again == [runner[w] EXCEPT !.tries = @ + 1]
<1>1. runner[w] \in Runner /\ RunnerInv /\ ReportsEarned
  BY DEF SystemInv, RunnerInv, EarnedInv
<1>2. /\ again.pc = runner[w].pc /\ again.rollout = runner[w].rollout
      /\ again.attempt = runner[w].attempt /\ again.outcome = runner[w].outcome
  BY <1>1 DEF Runner
<1>3. again.pc \in {"reporting", "leaving"} /\ again.outcome = "succeeded" =>
        <<again.rollout, again.attempt>> \in earned'
  BY <1>1, <1>2 DEF ReportsEarned
<1>4. Becomes(w, done) \/ Becomes(w, again) \/ Becomes(w, failed)
  BY DEF Sent
<1> HIDE DEF again
<1>5. ReportsEarned'
  BY <1>1, <1>3, <1>4, HonestMove
<1>6. call \/ UNCHANGED vars
  BY DEF Sent
<1>7. UNCHANGED vars => SuccessFrom({})
  BY QuietSuccess DEF vars
<1>8. QED BY <1>5, <1>6, <1>7, EarnedKept

LEMMA EarnedStep ==
  ASSUME ~Cancellable, "succeeded" \notin UpdateStatuses,
         SystemInv, EarnedInv, RunnerNext
  PROVE  EarnedInv'
<1>1. [Next]_vars /\ TypeOK /\ AttemptInv /\ RunnerInv /\ ReportsEarned
  BY StoreStep DEF SystemInv, StoreInv, EarnedInv
<1>2. \A r \in Rollouts : DOMAIN attempts[r] \subseteq DOMAIN attempts'[r]
  BY <1>1, AttemptsGrow
<1>3. ASSUME SuccessFrom({}), earned \subseteq earned', ReportsEarned'
      PROVE  EarnedInv'
  BY <1>2, <1>3, EarnedKept
<1>4. ASSUME SuccessFrom({}), UNCHANGED <<runner, earned>>
      PROVE  EarnedInv'
  BY <1>1, <1>3, <1>4, SameReports
<1>5. ASSUME NEW w \in Workers, Poll(w)
      PROVE  EarnedInv'
  <2>1. SuccessFrom({})
    BY <1>1, <1>5, ClaimSuccess, QuietSuccess DEF Poll, FindNothing
  <2>2. UNCHANGED earned
    BY <1>5 DEF Poll
  <2>3. CASE UNCHANGED runner
    BY <1>4, <2>1, <2>2, <2>3
  <2>4. CASE ~UNCHANGED runner
    <3>1. PICK r, n : Becomes(w, At("claimed", r, n, Unset))
      BY <1>5, <2>4 DEF Poll
    <3>2. At("claimed", r, n, Unset).pc = "claimed"
      BY DEF At
    <3>3. ReportsEarned'
      BY <1>1, <2>2, <3>1, <3>2, HonestMove
    <3>4. QED BY <1>3, <2>1, <2>2, <3>3
  <2>5. QED BY <2>3, <2>4
<1>6. ASSUME NEW w \in Workers, NEW r \in Rollouts, NEW c \in Configs, StartOwn(w, r, c)
      PROVE  EarnedInv'
  <2>1. SuccessFrom({}) /\ UNCHANGED earned /\ Becomes(w, At("claimed", r, 1, Unset))
    BY <1>1, <1>6, SubmitSuccess DEF StartOwn
  <2>2. At("claimed", r, 1, Unset).pc = "claimed"
    BY DEF At
  <2>3. ReportsEarned'
    BY <1>1, <2>1, <2>2, HonestMove
  <2>4. QED BY <1>3, <2>1, <2>3
<1>7. ASSUME NEW w \in Workers, Register(w)
      PROVE  EarnedInv'
  <2> DEFINE r == runner[w].rollout
             n == runner[w].attempt
             done == At("registered", r, n, Unset)
             S == {}
  <2>1. r \in Rollouts /\ n \in DOMAIN attempts[r] /\ S \subseteq earned
    BY <1>1, <1>7 DEF Register, RunnerInv, Assigned, OnAttempt
  <2>2. UpdateAttempt(r, n, Unset, w, FALSE) => SuccessFrom(S)
    BY <1>1, <2>1, ReportSuccess, StoreAssumption DEF AttemptStatus
  <2>3. Sent(w, UpdateAttempt(r, n, Unset, w, FALSE), done, Polling) /\ UNCHANGED earned
    BY <1>7 DEF Register
  <2>4. done.pc = "registered" /\ Polling.pc = "polling"
    BY DEF At, Polling
  <2> HIDE DEF done, S
  <2>5. QED BY <1>2, <2>1, <2>2, <2>3, <2>4, SentHonestly
<1>8. ASSUME NEW w \in Workers, SendOutcome(w)
      PROVE  EarnedInv'
  <2> DEFINE r == runner[w].rollout
             n == runner[w].attempt
             o == runner[w].outcome
             next == IF runner[w].pc = "leaving" THEN Stopped ELSE Polling
             S == IF o = "succeeded" THEN {<<r, n>>} ELSE {}
  <2>1. r \in Rollouts /\ n \in DOMAIN attempts[r] /\ o \in ReportStatuses
    BY <1>1, <1>8, RunnerAssumption DEF SendOutcome, RunnerInv, Assigned, OnAttempt
  <2>2. UpdateAttempt(r, n, o, Unset, FALSE) => SuccessFrom(S)
    BY <1>1, <2>1, ReportSuccess
  <2>3. S \subseteq earned
    BY <1>1, <1>8 DEF SendOutcome, ReportsEarned
  <2>4. Sent(w, UpdateAttempt(r, n, o, Unset, FALSE), next, next) /\ UNCHANGED earned
    BY <1>8 DEF SendOutcome
  <2>5. next.pc \in {"polling", "stopped"}
    BY DEF At, Polling, Stopped
  <2> HIDE DEF next, S
  <2>6. QED BY <1>2, <2>2, <2>3, <2>4, <2>5, SentHonestly
<1>9. ASSUME NEW w \in Workers, FetchResources(w) \/ Crash(w)
      PROVE  EarnedInv'
  <2>1. SuccessFrom({}) /\ UNCHANGED earned
    BY <1>9, QuietSuccess DEF FetchResources, Crash, vars
  <2>2. PICK pc, r, n : /\ Becomes(w, At(pc, r, n, Unset))
                        /\ pc \in {"working", "polling", "stopped"}
    BY <1>9 DEF FetchResources, Crash, Polling, Stopped
  <2>3. At(pc, r, n, Unset).pc = pc
    BY DEF At
  <2>4. ReportsEarned'
    BY <1>1, <2>1, <2>2, <2>3, HonestMove
  <2>5. QED BY <1>3, <2>1, <2>4
<1>10. ASSUME NEW w \in Workers, FinishRollout(w)
       PROVE  EarnedInv'
  <2> DEFINE r == runner[w].rollout
             n == runner[w].attempt
  <2>1. SuccessFrom({})
    BY <1>10, QuietSuccess DEF FinishRollout, vars
  <2>2. PICK o \in {"succeeded", "failed"} :
          /\ Becomes(w, At("reporting", r, n, o))
          /\ o = "succeeded" => <<r, n>> \in earned'
          /\ earned \subseteq earned'
    BY <1>10 DEF FinishRollout
  <2>3. /\ At("reporting", r, n, o).outcome = o /\ At("reporting", r, n, o).rollout = r
        /\ At("reporting", r, n, o).attempt = n
    BY DEF At
  <2>4. ReportsEarned'
    BY <1>1, <2>2, <2>3, HonestMove
  <2>5. QED BY <1>3, <2>1, <2>2, <2>4
<1>11. ASSUME NEW w \in Workers, EmitSpan(w)
       PROVE  EarnedInv'
  BY <1>1, <1>4, <1>11, SpanSuccess DEF EmitSpan, RunnerInv, Assigned, OnAttempt
<1>12. ASSUME NEW w \in Workers, EmitHeartbeat(w)
       PROVE  EarnedInv'
  BY <1>4, <1>12, QuietSuccess DEF EmitHeartbeat, UpdateWorker
<1>13. CASE LateSpan
  BY <1>1, <1>4, <1>13, SpanSuccess DEF LateSpan
<1>14. CASE Surroundings /\ UNCHANGED <<runner, earned>>
  <2>1. CASE \E r \in Rollouts, c \in Configs : EnqueueRollout(r, c)
    BY <1>1, <1>4, <1>14, <2>1, SubmitSuccess
  <2>2. CASE Healthcheck
    BY <1>1, <1>4, <1>14, <2>2, WatchdogSuccess
  <2>3. CASE \E r \in Rollouts : Elapse(r)
    BY <1>4, <1>14, <2>3, QuietSuccess DEF Elapse, Age, FallSilent
  <2>4. QED BY <1>14, <2>1, <2>2, <2>3 DEF Surroundings
<1>15. QED
  BY <1>5, <1>6, <1>7, <1>8, <1>9, <1>10, <1>11, <1>12, <1>13, <1>14
  DEF RunnerNext, RunnerStep, CancelRollout

LEMMA EarnedInit == RunnerInit => EarnedInv
BY DEF RunnerInit, Init, EarnedInv, SuccessesEarned, ReportsEarned, SuccessIsEarned, At, Polling

\* In every history in which iter is not cancelled and nobody forces the status, a
\* rollout that succeeded had an attempt whose agent did its work to the end, be the
\* report sent twice, late, for an attempt given up long ago, or by a runner that
\* died meanwhile.  (With cancellation it fails, as the run runners_cancel shows.)
THEOREM SuccessEarned ==
  ASSUME ~Cancellable, "succeeded" \notin UpdateStatuses
  PROVE  RunnerSpec => []SuccessIsEarned
<1>1. SystemInv /\ EarnedInv /\ [RunnerNext]_rvars => EarnedInv'
  <2>1. ASSUME EarnedInv, UNCHANGED rvars
        PROVE  EarnedInv'
    BY <2>1
    DEF EarnedInv, SuccessesEarned, ReportsEarned, SuccessIsEarned, rvars, vars
  <2>2. QED BY <2>1, EarnedStep
<1>2. EarnedInv => SuccessIsEarned
  BY DEF EarnedInv
<1>3. QED BY <1>1, <1>2, EarnedInit, SystemInvariant, PTL DEF RunnerSpec

\* The same with callers who wait, cancel rollouts, or send them back to the queue.
THEOREM SuccessEarnedAmongWaiters ==
  ASSUME ~Cancellable, "succeeded" \notin UpdateStatuses
  PROVE  WaiterSpec => []SuccessIsEarned
<1>1. SystemInv /\ EarnedInv /\ [WaiterNext]_wvars => EarnedInv'
  <2> SUFFICES ASSUME SystemInv, EarnedInv, [WaiterNext]_wvars
               PROVE  EarnedInv'
    OBVIOUS
  <2>1. CASE UNCHANGED rvars
    BY <2>1
    DEF EarnedInv, SuccessesEarned, ReportsEarned, SuccessIsEarned, rvars, vars
  <2>2. CASE RunnerNext
    BY <2>2, EarnedStep
  <2>3. ASSUME NEW r \in Rollouts, Intervene(r)
        PROVE  EarnedInv'
    <3>1. TypeOK /\ AttemptInv /\ [Next]_vars
      BY WaiterStep DEF SystemInv, StoreInv
    <3>2. SuccessFrom({})
      BY <2>3, <3>1, InterveneStep, ManageSuccess
    <3>3. \A x \in Rollouts : DOMAIN attempts[x] \subseteq DOMAIN attempts'[x]
      BY <3>1, AttemptsGrow
    <3>4. ReportsEarned' /\ UNCHANGED earned
      BY <2>3, SameReports DEF Intervene, EarnedInv
    <3>5. QED BY <3>2, <3>3, <3>4, EarnedKept
  <2>4. QED
    BY <2>1, <2>2, <2>3
    DEF WaiterNext, WaitForRollout, Wake, GiveUp, LookAgain, wvars
<1>2. WaiterInit => EarnedInv /\ SystemInv
  BY EarnedInit, RunnerInitInv DEF WaiterInit
<1>3. EarnedInv => SuccessIsEarned
  BY DEF EarnedInv
<1>4. QED BY <1>1, <1>2, <1>3, WaitersSystemInvariant, PTL DEF WaiterSpec
=============================================================================
