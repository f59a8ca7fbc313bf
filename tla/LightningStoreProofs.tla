------------------------ MODULE LightningStoreProofs ------------------------
(***************************************************************************)
(* Proofs about LightningStore, for every set of rollouts, workers and     *)
(* configs and every use of the API the constants allow.                   *)
(***************************************************************************)
EXTENDS LightningStore, FiniteSetTheorems, TLAPS

-----------------------------------------------------------------------------
\* Facts about sequences.

\* Appending an element.
LEMMA AppendFacts ==
  ASSUME NEW S, NEW q \in Seq(S), NEW e \in S
  PROVE  /\ Append(q, e) \in Seq(S)
         /\ ToSet(Append(q, e)) = ToSet(q) \cup {e}
         /\ IsInjective(q) /\ e \notin ToSet(q) => IsInjective(Append(q, e))
<1>1. DOMAIN Append(q, e) = 1 .. Len(q) + 1 /\ DOMAIN q = 1 .. Len(q) /\ Len(q) \in Nat
  OBVIOUS
<1>2. /\ \A i \in 1 .. Len(q) : Append(q, e)[i] = q[i]
      /\ Append(q, e)[Len(q) + 1] = e
  OBVIOUS
<1>3. ToSet(Append(q, e)) = ToSet(q) \cup {e}
  BY <1>1, <1>2 DEF ToSet
<1>4. ASSUME IsInjective(q), e \notin ToSet(q)
      PROVE  IsInjective(Append(q, e))
  BY <1>1, <1>2, <1>4 DEF ToSet, IsInjective
<1>5. QED
  BY <1>3, <1>4

\* Dropping a prefix.
LEMMA SuffixFacts ==
  ASSUME NEW S, NEW q \in Seq(S), NEW i \in DOMAIN q
  PROVE  LET t == SubSeq(q, i + 1, Len(q)) IN
         /\ t \in Seq(S)
         /\ ToSet(t) = {q[j] : j \in {k \in DOMAIN q : k > i}}
         /\ IsInjective(q) => IsInjective(t)
<1> DEFINE t == SubSeq(q, i + 1, Len(q))
<1>1. /\ t \in Seq(S) /\ Len(t) = Len(q) - i /\ Len(q) \in Nat /\ i \in 1 .. Len(q)
      /\ DOMAIN t = 1 .. Len(q) - i /\ DOMAIN q = 1 .. Len(q)
      /\ \A j \in 1 .. Len(q) - i : t[j] = q[j + i]
  OBVIOUS
<1>2. ASSUME NEW j \in DOMAIN q, j > i
      PROVE  j - i \in DOMAIN t /\ t[j - i] = q[j]
  <2>1. j - i \in 1 .. Len(q) - i /\ (j - i) + i = j
    BY <1>1, <1>2
  <2>2. QED BY <2>1, <1>1
<1>3. ToSet(t) = {q[j] : j \in {k \in DOMAIN q : k > i}}
  BY <1>1, <1>2 DEF ToSet
<1>4. IsInjective(q) => IsInjective(t)
  BY <1>1 DEF IsInjective
<1>5. QED
  BY <1>1, <1>3, <1>4

\* A sequence that lists a finite set.
LEMMA ListingFacts ==
  ASSUME NEW T, NEW S, S \subseteq T, IsFiniteSet(S), NEW f \in SetToSeqs(S)
  PROVE  f \in Seq(T) /\ ToSet(f) = S /\ IsInjective(f)
<1> DEFINE n == Cardinality(S)
<1>1. n \in Nat
  BY FS_CardinalityType
<1>2. f \in [1 .. n -> S] /\ \A i, j \in 1 .. n : i # j => f[i] # f[j]
  BY DEF SetToSeqs
<1>3. f \in Seq(T) /\ Len(f) = n /\ DOMAIN f = 1 .. n
  BY <1>1, <1>2
<1>4. IsInjective(f)
  BY <1>2, <1>3 DEF IsInjective
<1>5. ToSet(f) \subseteq S
  BY <1>2, <1>3 DEF ToSet
<1>6. f \in Bijection(1 .. n, ToSet(f))
  BY <1>2, <1>3 DEF Bijection, Injection, Surjection, ToSet, IsInjective
<1>7. Cardinality(ToSet(f)) = n
  BY <1>1, <1>6, FS_CountingElements DEF ExistsBijection
<1>8. ToSet(f) = S
  BY <1>5, <1>7, FS_Subset
<1>9. QED
  BY <1>3, <1>4, <1>8

\* Concatenating a sequence of new elements.
LEMMA ConcatFacts ==
  ASSUME NEW S, NEW p \in Seq(S), NEW q \in Seq(S)
  PROVE  /\ p \o q \in Seq(S)
         /\ ToSet(p \o q) = ToSet(p) \cup ToSet(q)
         /\ IsInjective(p) /\ IsInjective(q) /\ ToSet(p) \cap ToSet(q) = {}
              => IsInjective(p \o q)
<1>1. /\ p \o q \in Seq(S) /\ DOMAIN (p \o q) = 1 .. Len(p) + Len(q)
      /\ Len(p) \in Nat /\ Len(q) \in Nat
      /\ DOMAIN p = 1 .. Len(p) /\ DOMAIN q = 1 .. Len(q)
  OBVIOUS
<1>2. /\ \A i \in DOMAIN p : (p \o q)[i] = p[i]
      /\ \A i \in DOMAIN q : (p \o q)[i + Len(p)] = q[i]
      /\ \A i \in DOMAIN (p \o q) : i \in DOMAIN p \/ i - Len(p) \in DOMAIN q
  BY <1>1
<1>3. ToSet(p \o q) = ToSet(p) \cup ToSet(q)
  <2>1. ASSUME NEW i \in DOMAIN (p \o q)
        PROVE  (p \o q)[i] \in ToSet(p) \cup ToSet(q)
    <3>1. CASE i \in DOMAIN p
      BY <3>1, <1>2 DEF ToSet
    <3>2. CASE i - Len(p) \in DOMAIN q
      BY <3>2, <1>1, <1>2 DEF ToSet
    <3>3. QED BY <1>2, <3>1, <3>2
  <2>2. \A i \in DOMAIN p : p[i] \in ToSet(p \o q)
    BY <1>1, <1>2 DEF ToSet
  <2>3. ASSUME NEW i \in DOMAIN q
        PROVE  q[i] \in ToSet(p \o q)
    <3>1. i + Len(p) \in DOMAIN (p \o q)
      BY <1>1
    <3>2. QED BY <3>1, <1>2 DEF ToSet
  <2>4. QED BY <2>1, <2>2, <2>3 DEF ToSet
<1>4. ASSUME IsInjective(p), IsInjective(q), ToSet(p) \cap ToSet(q) = {}
      PROVE  IsInjective(p \o q)
  <2> SUFFICES ASSUME NEW i \in DOMAIN (p \o q), NEW j \in DOMAIN (p \o q),
                      (p \o q)[i] = (p \o q)[j]
               PROVE  i = j
    BY DEF IsInjective
  <2>1. \A k \in DOMAIN p, m \in DOMAIN q : p[k] # q[m]
    BY <1>4 DEF ToSet
  <2>2. CASE i \in DOMAIN p /\ j \in DOMAIN p
    BY <2>2, <1>2, <1>4 DEF IsInjective
  <2>3. CASE i - Len(p) \in DOMAIN q /\ j - Len(p) \in DOMAIN q
    <3>1. q[i - Len(p)] = q[j - Len(p)]
      BY <2>3, <1>1, <1>2
    <3>2. QED BY <3>1, <2>3, <1>1, <1>4 DEF IsInjective
  <2>4. CASE i \in DOMAIN p /\ j - Len(p) \in DOMAIN q
    BY <2>4, <2>1, <1>1, <1>2
  <2>5. CASE i - Len(p) \in DOMAIN q /\ j \in DOMAIN p
    BY <2>5, <2>1, <1>1, <1>2
  <2>6. QED BY <1>2, <2>2, <2>3, <2>4, <2>5
<1>5. QED BY <1>1, <1>3, <1>4

-----------------------------------------------------------------------------
\* Facts about the helpers of the model.

\* The statuses a policy and the propagation may produce.
LEMMA PropagateType ==
  ASSUME NEW s \in AttemptStatus, NEW n, NEW c
  PROVE  PropagateStatus(s, n, c) \in RolloutStatus
BY DEF PropagateStatus, AttemptStatus, RolloutStatus

LEMMA SyncType ==
  ASSUME NEW r \in Rollouts, NEW n \in Nat, NEW s
  PROVE  SyncWorkerWithAttempt(r, n, s) \in Worker
BY DEF SyncWorkerWithAttempt, Worker

\* What _update_rollout_unlocked keeps, whatever operation calls it.
LEMMA UpdateFacts ==
  ASSUME TypeOK, NEW r \in Rollouts, NEW s \in RolloutStatus,
         NEW q \in Seq(Rollouts), UpdateRolloutUnlocked(r, s, q)
  PROVE  /\ status' \in [Rollouts -> RolloutStatus \cup {"absent"}]
         /\ queue' \in Seq(Rollouts)
         /\ running' \subseteq Rollouts
         /\ completed' \subseteq Rollouts
         /\ status' = [status EXCEPT ![r] = s]
         /\ ToSet(q) \subseteq ToSet(queue')
         /\ ToSet(queue') \subseteq ToSet(q) \cup {r}
         /\ IsQueuing(s) => r \in ToSet(queue')
         /\ IsInjective(q) => IsInjective(queue')
         /\ RunningCacheExact => RunningCacheExact'
         /\ FinishedIsSignalled => FinishedIsSignalled'
<1> USE DEF TypeOK
<1>1. /\ status' = [status EXCEPT ![r] = s]
      /\ status' \in [Rollouts -> RolloutStatus \cup {"absent"}]
  BY DEF UpdateRolloutUnlocked
<1>2. /\ queue' \in Seq(Rollouts)
      /\ ToSet(q) \subseteq ToSet(queue')
      /\ ToSet(queue') \subseteq ToSet(q) \cup {r}
      /\ IsQueuing(s) => r \in ToSet(queue')
      /\ IsInjective(q) => IsInjective(queue')
  BY AppendFacts DEF UpdateRolloutUnlocked
<1>3. /\ running' = (running \ {r}) \cup {x \in {r} : IsRunning(status'[x])}
      /\ completed' = completed \cup {x \in {r} : IsFinished(status'[x])}
  BY DEF UpdateRolloutUnlocked, OnRolloutUpdate
<1>4. RunningCacheExact => RunningCacheExact'
  BY <1>1, <1>3 DEF RunningCacheExact
<1>5. FinishedIsSignalled => FinishedIsSignalled'
  BY <1>1, <1>3 DEF FinishedIsSignalled
<1>6. QED BY <1>1, <1>2, <1>3, <1>4, <1>5

\* A watched rollout is one of the rollouts and has a latest attempt.
LEMMA WatchedFacts ==
  ASSUME TypeOK, NEW r \in Watched
  PROVE  /\ r \in Rollouts
         /\ Len(attempts[r]) \in DOMAIN attempts[r]
         /\ Last(attempts[r]) = attempts[r][Len(attempts[r])]
         /\ Last(attempts[r]) \in Attempt
         /\ Diagnosis(r) \in AttemptStatus
<1>1. r \in Rollouts /\ attempts[r] \in Seq(Attempt) /\ attempts[r] # <<>>
  BY DEF TypeOK, Watched
<1>2. /\ Len(attempts[r]) \in DOMAIN attempts[r]
      /\ Last(attempts[r]) = attempts[r][Len(attempts[r])]
      /\ Last(attempts[r]) \in Attempt
  BY <1>1 DEF Last
<1>3. Diagnosis(r) \in AttemptStatus
  BY <1>2 DEF Diagnosis, Attempt, AttemptStatus
<1>4. QED BY <1>1, <1>2, <1>3

LEMMA ReviewedFacts ==
  ASSUME TypeOK
  PROVE  /\ Diagnosed \subseteq Watched
         /\ Reviewed \subseteq Watched
         /\ Watched \subseteq Rollouts
         /\ \A r \in Reviewed :
              ReviewedStatus(r) \in RolloutStatus \ {"absent"}
         /\ \A r \in Rollouts \ Reviewed : ReviewedStatus(r) = status[r]
         /\ [r \in Rollouts |-> ReviewedStatus(r)]
              \in [Rollouts -> RolloutStatus \cup {"absent"}]
<1>1. Diagnosed \subseteq Watched /\ Reviewed \subseteq Watched /\ Watched \subseteq Rollouts
  BY DEF Diagnosed, Reviewed, Watched, TypeOK
<1>2. ASSUME NEW r \in Reviewed
      PROVE  ReviewedStatus(r) \in RolloutStatus \ {"absent"}
  <2>1. Diagnosis(r) \in AttemptStatus
    BY <1>1, WatchedFacts
  <2>2. PropagateStatus(Diagnosis(r), Len(attempts[r]), config[r]) \in RolloutStatus
    BY <2>1, PropagateType
  <2>3. QED BY <2>2 DEF ReviewedStatus, RolloutStatus
<1>3. \A r \in Rollouts \ Reviewed : ReviewedStatus(r) = status[r]
  BY DEF ReviewedStatus
<1>4. \A r \in Rollouts : ReviewedStatus(r) \in RolloutStatus \cup {"absent"}
  BY <1>2, <1>3 DEF TypeOK
<1>5. QED BY <1>1, <1>2, <1>3, <1>4

-----------------------------------------------------------------------------
\* Type correctness, operation by operation.

LEMMA InitType == Init => TypeOK
BY StoreAssumption
   DEF Init, TypeOK, Config, DefaultConfig, Clock, JustStarted, Worker

LEMMA SubmitType == TypeOK /\ Submit => TypeOK'
<1> SUFFICES ASSUME TypeOK, NEW r \in Rollouts, NEW c \in Configs,
                    StartRollout(r, c) \/ EnqueueRollout(r, c)
             PROVE  TypeOK'
  BY DEF Submit
<1> USE DEF TypeOK
<1>1. c \in Config
  BY StoreAssumption
<1>2. CASE StartRollout(r, c)
  <2>1. NewAttempt \in Attempt
    BY DEF NewAttempt, Attempt, AttemptStatus
  <2>2. <<NewAttempt>> \in Seq(Attempt)
    BY <2>1
  <2>3. QED
    BY <1>1, <1>2, <2>2 DEF StartRollout, OnRolloutUpdate, RolloutStatus
<1>3. CASE EnqueueRollout(r, c)
  <2>1. queue' \in Seq(Rollouts)
    BY <1>3, AppendFacts DEF EnqueueRollout
  <2>2. QED
    BY <1>1, <1>3, <2>1 DEF EnqueueRollout, OnRolloutUpdate, RolloutStatus
<1>4. QED BY <1>2, <1>3

\* Inserting an attempt (_start_attempt and the body of dequeue_rollout).
LEMMA InsertType ==
  ASSUME TypeOK, NEW r \in Rollouts, InsertAttempt(r)
  PROVE  /\ attempts' \in [Rollouts -> Seq(Attempt)]
         /\ clock' \in [Rollouts -> Clock]
<1>1. NewAttempt \in Attempt /\ JustStarted \in Clock
  BY DEF NewAttempt, Attempt, AttemptStatus, JustStarted, Clock
<1>2. attempts[r] \in Seq(Attempt)
  BY DEF TypeOK
<1>3. Append(attempts[r], NewAttempt) \in Seq(Attempt)
  BY <1>1, <1>2
<1>4. QED BY <1>1, <1>3 DEF InsertAttempt, TypeOK

LEMMA MarkIdleType ==
  ASSUME TypeOK, NEW w \in Workers \cup {None}, MarkIdle(w)
  PROVE  workers' \in [Workers -> Worker]
BY DEF TypeOK, MarkIdle, Worker

LEMMA DequeueType == TypeOK /\ Dequeue => TypeOK'
<1> SUFFICES ASSUME TypeOK, NEW w \in Workers \cup {None}, DequeueRollout(w)
             PROVE  TypeOK'
  BY DEF Dequeue
<1>1. CASE FindNothing(w)
  BY <1>1, MarkIdleType DEF FindNothing, TypeOK
<1>2. CASE ClaimFirst(w)
  <2>1. PICK i \in Eligible :
          /\ InsertAttempt(queue[i])
          /\ UpdateRolloutUnlocked(queue[i], "preparing", SubSeq(queue, i + 1, Len(queue)))
          /\ MarkIdle(w)
          /\ UNCHANGED config
    BY <1>2 DEF ClaimFirst, Claim
  <2>2. i \in DOMAIN queue /\ queue \in Seq(Rollouts) /\ queue[i] \in Rollouts
    BY DEF Eligible, TypeOK
  <2>3. SubSeq(queue, i + 1, Len(queue)) \in Seq(Rollouts)
    BY <2>2, SuffixFacts
  <2>4. "preparing" \in RolloutStatus
    BY DEF RolloutStatus
  <2>5. QED
    BY <2>1, <2>2, <2>3, <2>4, InsertType, MarkIdleType, UpdateFacts DEF TypeOK
<1>3. QED BY <1>1, <1>2 DEF DequeueRollout

LEMMA ManageType == TypeOK /\ Manage => TypeOK'
<1> SUFFICES ASSUME TypeOK, NEW r \in Rollouts,
                    \/ StartAttempt(r)
                    \/ \E s \in UpdateStatuses : UpdateRollout(r, s, config[r])
                    \/ \E c \in Configs : UpdateRollout(r, status[r], c)
             PROVE  TypeOK'
  BY DEF Manage
<1>q. queue \in Seq(Rollouts)
  BY DEF TypeOK
<1>1. CASE StartAttempt(r)
  <2>1. "preparing" \in RolloutStatus
    BY DEF RolloutStatus
  <2>2. QED
    BY <1>1, <1>q, <2>1, InsertType, UpdateFacts DEF StartAttempt, TypeOK
<1>2. ASSUME NEW s, NEW c \in Config, UpdateRollout(r, s, c), s \in RolloutStatus
      PROVE  TypeOK'
  BY <1>2, <1>q, UpdateFacts DEF UpdateRollout, TypeOK
<1>3. ASSUME NEW c \in Configs, UpdateRollout(r, status[r], c)
      PROVE  TypeOK'
  <2>1. status[r] \in RolloutStatus
    BY <1>3 DEF UpdateRollout, TypeOK
  <2>2. c \in Config
    BY StoreAssumption
  <2>3. QED BY <1>2, <1>3, <2>1, <2>2
<1>4. ASSUME NEW s \in UpdateStatuses, UpdateRollout(r, s, config[r])
      PROVE  TypeOK'
  <2>1. s \in RolloutStatus /\ config[r] \in Config
    BY StoreAssumption DEF TypeOK
  <2>2. QED BY <1>2, <1>4, <2>1
<1>5. QED BY <1>1, <1>3, <1>4

LEMMA HeartbeatType ==
  ASSUME TypeOK, NEW r \in Rollouts, NEW n, Heartbeat(r, n)
  PROVE  clock' \in [Rollouts -> Clock]
BY DEF TypeOK, Heartbeat, Clock

\* The attempt update_attempt writes, and what it propagates.
LEMMA UpdatedType ==
  ASSUME TypeOK, NEW r \in Rollouts, NEW n \in DOMAIN attempts[r],
         NEW s \in ReportStatuses \cup {Unset}, NEW w \in Workers \cup {Unset}
  PROVE  UpdatedAttempt(r, n, s, w) \in Attempt
<1>1. attempts[r][n] \in Attempt
  BY DEF TypeOK
<1>2. QED
  BY <1>1, StoreAssumption DEF UpdatedAttempt, Attempt

LEMMA UpdateAttemptType ==
  ASSUME TypeOK, NEW r \in Rollouts, NEW n \in DOMAIN attempts[r],
         NEW s \in ReportStatuses \cup {Unset}, NEW w \in Workers \cup {Unset},
         NEW beat \in BOOLEAN, UpdateAttempt(r, n, s, w, beat)
  PROVE  TypeOK'
<1> DEFINE a == UpdatedAttempt(r, n, s, w)
<1>1. a \in Attempt
  BY UpdatedType
<1>2. attempts[r] \in Seq(Attempt) /\ n \in Nat /\ queue \in Seq(Rollouts)
  BY DEF TypeOK
<1>3. [attempts[r] EXCEPT ![n] = a] \in Seq(Attempt)
  BY <1>1, <1>2
<1>4. attempts' = [attempts EXCEPT ![r] = [attempts[r] EXCEPT ![n] = a]]
  BY DEF UpdateAttempt, TypeOK
<1>5. attempts' \in [Rollouts -> Seq(Attempt)]
  BY <1>3, <1>4 DEF TypeOK
<1>6. workers' \in [Workers -> Worker]
  <2>1. SyncWorkerWithAttempt(r, n, a.status) \in Worker
    BY <1>2, SyncType
  <2>2. QED BY <2>1 DEF UpdateAttempt, SyncWorker, TypeOK
<1>7. clock' \in [Rollouts -> Clock]
  BY HeartbeatType DEF UpdateAttempt, TypeOK
<1>8. config' \in [Rollouts -> Config]
  BY DEF UpdateAttempt, TypeOK
<1>9. CASE n = Len(attempts[r])
  <2>1. PropagateStatus(a.status, n, config[r]) \in RolloutStatus
    BY <1>1, PropagateType DEF Attempt
  <2>2. UpdateRolloutUnlocked(r, PropagateStatus(a.status, n, config[r]), queue)
    BY <1>9 DEF UpdateAttempt, FollowLatest
  <2>3. QED BY <1>2, <1>5, <1>6, <1>7, <1>8, <2>1, <2>2, UpdateFacts DEF TypeOK
<1>10. CASE n # Len(attempts[r])
  BY <1>5, <1>6, <1>7, <1>8, <1>10 DEF UpdateAttempt, FollowLatest, TypeOK
<1>11. QED BY <1>9, <1>10

LEMMA AddSpanType ==
  ASSUME TypeOK, NEW r \in Rollouts, NEW n \in DOMAIN attempts[r], AddSpan(r, n)
  PROVE  TypeOK'
<1> DEFINE a == [attempts[r][n] EXCEPT !.status =
                   IF @ \in {"preparing", "unresponsive"} THEN "running" ELSE @]
<1>1. attempts[r] \in Seq(Attempt) /\ attempts[r][n] \in Attempt
  BY DEF TypeOK
<1>2. a \in Attempt
  BY <1>1 DEF Attempt, AttemptStatus
<1>3. [attempts[r] EXCEPT ![n] = a] \in Seq(Attempt)
  BY <1>1, <1>2
<1>4. attempts' = [attempts EXCEPT ![r] = [attempts[r] EXCEPT ![n] = a]]
  BY DEF AddSpan, TypeOK
<1>5. attempts' \in [Rollouts -> Seq(Attempt)]
  BY <1>3, <1>4 DEF TypeOK
<1>6. clock' \in [Rollouts -> Clock]
  BY HeartbeatType DEF AddSpan
<1>7. status' \in [Rollouts -> RolloutStatus \cup {"absent"}]
  BY DEF AddSpan, ReviveRollout, Revived, TypeOK, RolloutStatus
<1>8. running' \subseteq Rollouts /\ completed' \subseteq Rollouts
  BY DEF AddSpan, ReviveRollout, Revived, OnRolloutUpdate, TypeOK
<1>9. QED BY <1>5, <1>6, <1>7, <1>8 DEF AddSpan, TypeOK

LEMMA HealthcheckType == TypeOK /\ Healthcheck => TypeOK'
<1> SUFFICES ASSUME TypeOK, Healthcheck
             PROVE  TypeOK'
  OBVIOUS
<1> DEFINE st == [r \in Rollouts |-> ReviewedStatus(r)]
           requeued == {r \in Reviewed : IsQueuing(st[r])} \ ToSet(queue)
           OwnedBy(w) == {r \in Diagnosed : Last(attempts[r]).worker_id = w}
<1>1. status' = st /\ status' \in [Rollouts -> RolloutStatus \cup {"absent"}]
  BY ReviewedFacts DEF Healthcheck
<1>2. attempts' \in [Rollouts -> Seq(Attempt)]
  <2>1. ASSUME NEW r \in Rollouts
        PROVE  (IF r \in Diagnosed
                THEN [attempts[r] EXCEPT ![Len(attempts[r])].status = Diagnosis(r)]
                ELSE attempts[r]) \in Seq(Attempt)
    <3>1. attempts[r] \in Seq(Attempt)
      BY DEF TypeOK
    <3>2. CASE r \in Diagnosed
      <4>1. r \in Watched
        BY <3>2, ReviewedFacts
      <4>2. /\ Len(attempts[r]) \in DOMAIN attempts[r]
            /\ attempts[r][Len(attempts[r])] \in Attempt
            /\ Diagnosis(r) \in AttemptStatus
        BY <4>1, WatchedFacts
      <4>3. [attempts[r][Len(attempts[r])] EXCEPT !.status = Diagnosis(r)] \in Attempt
        BY <4>2 DEF Attempt
      <4>4. [attempts[r] EXCEPT ![Len(attempts[r])] =
               [attempts[r][Len(attempts[r])] EXCEPT !.status = Diagnosis(r)]] \in Seq(Attempt)
        BY <3>1, <4>2, <4>3
      <4>5. QED BY <3>2, <4>4
    <3>3. CASE r \notin Diagnosed
      BY <3>1, <3>3
    <3>4. QED BY <3>2, <3>3
  <2>2. QED BY <2>1 DEF Healthcheck
<1>3. queue' \in Seq(Rollouts)
  <2>1. PICK order \in SetToSeqs(requeued) : queue' = queue \o order
    BY DEF Healthcheck
  <2>2. requeued \subseteq Rollouts /\ IsFiniteSet(requeued)
    BY ReviewedFacts, StoreAssumption, FS_Subset
  <2>3. order \in Seq(Rollouts)
    BY <2>2, ListingFacts
  <2>4. queue \in Seq(Rollouts)
    BY DEF TypeOK
  <2>5. queue \o order \in Seq(Rollouts)
    BY <2>3, <2>4
  <2>6. QED BY <2>1, <2>5
<1>4. workers' \in [Workers -> Worker]
  <2>1. PICK final \in [Workers -> Rollouts] :
          workers' = [w \in Workers |->
                        IF OwnedBy(w) = {} THEN workers[w]
                        ELSE SyncWorkerWithAttempt(final[w], Len(attempts[final[w]]),
                                                   Diagnosis(final[w]))]
    BY DEF Healthcheck
  <2>2. ASSUME NEW w \in Workers
        PROVE  SyncWorkerWithAttempt(final[w], Len(attempts[final[w]]),
                                     Diagnosis(final[w])) \in Worker
    <3>1. final[w] \in Rollouts /\ Len(attempts[final[w]]) \in Nat
      BY DEF TypeOK
    <3>2. QED BY <3>1, SyncType
  <2>3. QED BY <2>1, <2>2 DEF TypeOK
<1>5. running' \subseteq Rollouts /\ completed' \subseteq Rollouts
  BY ReviewedFacts DEF Healthcheck, OnRolloutUpdate, TypeOK
<1>6. QED BY <1>1, <1>2, <1>3, <1>4, <1>5 DEF Healthcheck, TypeOK

LEMMA TypeStep == TypeOK /\ [Next]_vars => TypeOK'
<1> SUFFICES ASSUME TypeOK, [Next]_vars PROVE TypeOK'
  OBVIOUS
<1>1. CASE Submit
  BY <1>1, SubmitType
<1>2. CASE Dequeue
  BY <1>2, DequeueType
<1>3. CASE Manage
  BY <1>3, ManageType
<1>4. CASE Report
  BY <1>4, AddSpanType, UpdateAttemptType DEF Report
<1>5. CASE \E w \in Workers : UpdateWorker(w)
  <2>1. PICK w \in Workers : UpdateWorker(w)
    BY <1>5
  <2>2. workers[w] \in Worker
    BY DEF TypeOK
  <2>3. [workers[w] EXCEPT !.status = IF @ = "absent" THEN "unknown" ELSE @] \in Worker
    BY <2>2 DEF Worker
  <2>4. QED BY <2>1, <2>3 DEF UpdateWorker, TypeOK
<1>6. CASE Healthcheck
  BY <1>6, HealthcheckType
<1>7. CASE \E r \in Rollouts : Elapse(r)
  <2>1. PICK r \in Rollouts : Elapse(r)
    BY <1>7
  <2>2. clock' \in [Rollouts -> Clock]
    <3>1. clock[r] \in Clock
      BY DEF TypeOK
    <3>2. /\ [clock[r] EXCEPT !.late = TRUE] \in Clock
          /\ [clock[r] EXCEPT !.silent = TRUE] \in Clock
      BY <3>1 DEF Clock
    <3>3. QED BY <2>1, <3>2 DEF Elapse, Age, FallSilent, TypeOK
  <2>3. QED BY <2>1, <2>2 DEF Elapse, Age, FallSilent, TypeOK
<1>8. CASE UNCHANGED vars
  BY <1>8 DEF vars, TypeOK
<1>9. QED BY <1>1, <1>2, <1>3, <1>4, <1>5, <1>6, <1>7, <1>8 DEF Next

\* Every variable keeps its type in every history.
THEOREM TypeCorrect == Spec => []TypeOK
BY InitType, TypeStep, PTL DEF Spec

-----------------------------------------------------------------------------
\* The queue and the two caches agree with the rollouts' statuses.  An entry
\* needs a rollout that was created: otherwise enqueue_rollout, which does not
\* look for an entry before it appends one, could double it.

EntriesExist == \A r \in ToSet(queue) : status[r] # "absent"

QueueInv == NoLostRollout /\ NoDoubleEntry /\ EntriesExist
CacheInv == RunningCacheExact /\ FinishedIsSignalled

\* An update from a queue q that has lost no entry of another waiting rollout.
LEMMA UpdateSafe ==
  ASSUME TypeOK, QueueInv, CacheInv, NEW r \in Rollouts, NEW s \in RolloutStatus,
         NEW q \in Seq(Rollouts), IsInjective(q), ToSet(q) \subseteq ToSet(queue),
         \A x \in Rollouts \ {r} : IsQueuing(status[x]) => x \in ToSet(q),
         UpdateRolloutUnlocked(r, s, q)
  PROVE  QueueInv' /\ CacheInv'
<1>1. /\ status' = [status EXCEPT ![r] = s]
      /\ ToSet(q) \subseteq ToSet(queue')
      /\ ToSet(queue') \subseteq ToSet(q) \cup {r}
      /\ IsQueuing(s) => r \in ToSet(queue')
      /\ IsInjective(queue')
      /\ CacheInv'
  BY UpdateFacts DEF CacheInv
<1>2. ASSUME NEW x \in Rollouts, IsQueuing(status'[x])
      PROVE  x \in ToSet(queue')
  BY <1>1, <1>2 DEF TypeOK
<1>3. s # "absent"
  BY DEF RolloutStatus
<1>4. ASSUME NEW x \in ToSet(queue')
      PROVE  status'[x] # "absent"
  <2>1. CASE x = r
    BY <1>1, <1>3, <2>1 DEF TypeOK
  <2>2. CASE x # r
    BY <1>1, <2>2 DEF QueueInv, EntriesExist, TypeOK
  <2>3. QED BY <2>1, <2>2
<1>5. QED BY <1>1, <1>2, <1>4 DEF QueueInv, NoLostRollout, NoDoubleEntry, EntriesExist

LEMMA SubmitSafe == TypeOK /\ QueueInv /\ CacheInv /\ Submit => QueueInv' /\ CacheInv'
<1> SUFFICES ASSUME TypeOK, QueueInv, CacheInv, NEW r \in Rollouts, NEW c \in Configs,
                    StartRollout(r, c) \/ EnqueueRollout(r, c)
             PROVE  QueueInv' /\ CacheInv'
  BY DEF Submit
<1>1. r \notin ToSet(queue) /\ queue \in Seq(Rollouts) /\ IsInjective(queue)
  BY DEF StartRollout, EnqueueRollout, TypeOK, QueueInv, EntriesExist, NoDoubleEntry
<1>2. CASE StartRollout(r, c)
  <2>1. /\ status' = [status EXCEPT ![r] = "preparing"] /\ queue' = queue
        /\ OnRolloutUpdate({r}, [status EXCEPT ![r] = "preparing"])
    BY <1>2 DEF StartRollout
  <2>2. CacheInv'
    BY <2>1 DEF OnRolloutUpdate, CacheInv, RunningCacheExact,
                FinishedIsSignalled, TypeOK, IsRunning, IsFinished
  <2>3. QueueInv'
    BY <2>1, <1>1 DEF QueueInv, NoLostRollout, NoDoubleEntry, EntriesExist, TypeOK, IsQueuing
  <2>4. QED BY <2>2, <2>3
<1>3. CASE EnqueueRollout(r, c)
  <2>1. /\ status' = [status EXCEPT ![r] = "queuing"] /\ queue' = Append(queue, r)
        /\ OnRolloutUpdate({r}, [status EXCEPT ![r] = "queuing"])
    BY <1>3 DEF EnqueueRollout
  <2>2. CacheInv'
    BY <2>1 DEF OnRolloutUpdate, CacheInv, RunningCacheExact,
                FinishedIsSignalled, TypeOK, IsRunning, IsFinished
  <2>3. ToSet(queue') = ToSet(queue) \cup {r} /\ IsInjective(queue')
    BY <1>1, <2>1, AppendFacts
  <2>4. QueueInv'
    BY <2>1, <2>3 DEF QueueInv, NoLostRollout, NoDoubleEntry, EntriesExist, TypeOK, IsQueuing
  <2>5. QED BY <2>2, <2>4
<1>4. QED BY <1>2, <1>3

LEMMA DequeueSafe == TypeOK /\ QueueInv /\ CacheInv /\ Dequeue => QueueInv' /\ CacheInv'
<1> SUFFICES ASSUME TypeOK, QueueInv, CacheInv, NEW w \in Workers \cup {None},
                    DequeueRollout(w)
             PROVE  QueueInv' /\ CacheInv'
  BY DEF Dequeue
<1>1. CASE FindNothing(w)
  <2>1. queue' = <<>> /\ UNCHANGED <<status, running, completed>> /\ Eligible = {}
    BY <1>1 DEF FindNothing
  <2>2. ToSet(queue') = {} /\ IsInjective(queue')
    BY <2>1 DEF ToSet, IsInjective
  <2>3. \A r \in Rollouts : ~IsQueuing(status[r])
    BY <2>1 DEF QueueInv, NoLostRollout, Eligible, ToSet
  <2>4. QueueInv'
    BY <2>1, <2>2, <2>3 DEF QueueInv, NoLostRollout, NoDoubleEntry, EntriesExist
  <2>5. CacheInv'
    BY <2>1 DEF CacheInv, RunningCacheExact, FinishedIsSignalled
  <2>6. QED BY <2>4, <2>5
<1>2. CASE ClaimFirst(w)
  <2> DEFINE q(i) == SubSeq(queue, i + 1, Len(queue))
  <2>1. PICK i \in Eligible :
          /\ \A j \in Eligible : i <= j
          /\ UpdateRolloutUnlocked(queue[i], "preparing", q(i))
    BY <1>2 DEF ClaimFirst, Claim
  <2>2. i \in DOMAIN queue /\ queue \in Seq(Rollouts) /\ queue[i] \in Rollouts
    BY DEF Eligible, TypeOK
  <2>3. /\ q(i) \in Seq(Rollouts)
        /\ ToSet(q(i)) = {queue[j] : j \in {k \in DOMAIN queue : k > i}}
        /\ IsInjective(q(i))
    BY <2>2, SuffixFacts DEF QueueInv, NoDoubleEntry
  <2>4. ToSet(q(i)) \subseteq ToSet(queue)
    BY <2>3 DEF ToSet
  <2>5. ASSUME NEW x \in Rollouts \ {queue[i]}, IsQueuing(status[x])
        PROVE  x \in ToSet(q(i))
    <3>1. PICK j \in DOMAIN queue : queue[j] = x
      BY <2>5 DEF QueueInv, NoLostRollout, ToSet
    <3>2. j \in Eligible
      BY <3>1, <2>5 DEF Eligible
    <3>3. j > i
      <4>1. i <= j /\ i # j /\ i \in Nat /\ j \in Nat
        BY <2>1, <2>2, <2>5, <3>1, <3>2
      <4>2. QED BY <4>1
    <3>4. QED BY <2>3, <3>1, <3>3
  <2>6. "preparing" \in RolloutStatus
    BY DEF RolloutStatus
  <2> HIDE DEF q
  <2>7. QED BY <2>1, <2>2, <2>3, <2>4, <2>5, <2>6, UpdateSafe
<1>3. QED BY <1>1, <1>2 DEF DequeueRollout

\* An update that leaves the queue to UpdateRolloutUnlocked.
LEMMA UpdateInPlaceSafe ==
  ASSUME TypeOK, QueueInv, CacheInv, NEW r \in Rollouts, NEW s \in RolloutStatus,
         UpdateRolloutUnlocked(r, s, queue)
  PROVE  QueueInv' /\ CacheInv'
<1>1. queue \in Seq(Rollouts) /\ IsInjective(queue)
  BY DEF TypeOK, QueueInv, NoDoubleEntry
<1>2. \A x \in Rollouts \ {r} : IsQueuing(status[x]) => x \in ToSet(queue)
  BY DEF QueueInv, NoLostRollout
<1>3. QED BY <1>1, <1>2, UpdateSafe

LEMMA ManageSafe == TypeOK /\ QueueInv /\ CacheInv /\ Manage => QueueInv' /\ CacheInv'
<1> SUFFICES ASSUME TypeOK, QueueInv, CacheInv, NEW r \in Rollouts,
                    \/ StartAttempt(r)
                    \/ \E s \in UpdateStatuses : UpdateRollout(r, s, config[r])
                    \/ \E c \in Configs : UpdateRollout(r, status[r], c)
             PROVE  QueueInv' /\ CacheInv'
  BY DEF Manage
<1>1. PICK s \in RolloutStatus : UpdateRolloutUnlocked(r, s, queue)
  <2>1. CASE StartAttempt(r)
    BY <2>1 DEF StartAttempt, RolloutStatus
  <2>2. CASE \E s \in UpdateStatuses : UpdateRollout(r, s, config[r])
    BY <2>2, StoreAssumption DEF UpdateRollout
  <2>3. CASE \E c \in Configs : UpdateRollout(r, status[r], c)
    BY <2>3 DEF UpdateRollout, TypeOK
  <2>4. QED BY <2>1, <2>2, <2>3
<1>2. QED BY <1>1, UpdateInPlaceSafe

\* A step that leaves statuses, queue and caches alone.
LEMMA IdleSafe ==
  ASSUME QueueInv, CacheInv, UNCHANGED <<status, queue, running, completed>>
  PROVE  QueueInv' /\ CacheInv'
BY DEF QueueInv, NoLostRollout, NoDoubleEntry, EntriesExist,
       CacheInv, RunningCacheExact, FinishedIsSignalled

LEMMA UpdateAttemptSafe ==
  ASSUME TypeOK, QueueInv, CacheInv, NEW r \in Rollouts, NEW n \in DOMAIN attempts[r],
         NEW s \in ReportStatuses \cup {Unset}, NEW w \in Workers \cup {Unset},
         NEW beat \in BOOLEAN, UpdateAttempt(r, n, s, w, beat)
  PROVE  QueueInv' /\ CacheInv'
<1> DEFINE a == UpdatedAttempt(r, n, s, w)
<1>1. CASE n = Len(attempts[r])
  <2>1. a \in Attempt
    BY UpdatedType
  <2>2. PropagateStatus(a.status, n, config[r]) \in RolloutStatus
    BY <2>1, PropagateType DEF Attempt
  <2>3. UpdateRolloutUnlocked(r, PropagateStatus(a.status, n, config[r]), queue)
    BY <1>1 DEF UpdateAttempt, FollowLatest
  <2>4. QED BY <2>2, <2>3, UpdateInPlaceSafe
<1>2. CASE n # Len(attempts[r])
  BY <1>2, IdleSafe DEF UpdateAttempt, FollowLatest
<1>3. QED BY <1>1, <1>2

LEMMA AddSpanSafe ==
  ASSUME TypeOK, QueueInv, CacheInv, NEW r \in Rollouts, NEW n \in DOMAIN attempts[r],
         AddSpan(r, n)
  PROVE  QueueInv' /\ CacheInv'
<1>1. CASE status' = status
  BY <1>1, IdleSafe DEF AddSpan, ReviveRollout, Revived
<1>2. CASE status' # status
  <2>1. /\ status' = [status EXCEPT ![r] = "running"]
        /\ status[r] # "absent"
        /\ OnRolloutUpdate({r}, status')
        /\ queue' = queue
    BY <1>2 DEF AddSpan, ReviveRollout, Revived
  <2>2. CacheInv'
    BY <2>1 DEF OnRolloutUpdate, CacheInv, RunningCacheExact, FinishedIsSignalled,
                TypeOK, IsRunning, IsFinished
  <2>3. QueueInv'
    BY <2>1 DEF QueueInv, NoLostRollout, NoDoubleEntry, EntriesExist, TypeOK, IsQueuing
  <2>4. QED BY <2>2, <2>3
<1>3. QED BY <1>1, <1>2

LEMMA HealthcheckSafe ==
  TypeOK /\ QueueInv /\ CacheInv /\ Healthcheck => QueueInv' /\ CacheInv'
<1> SUFFICES ASSUME TypeOK, QueueInv, CacheInv, Healthcheck
             PROVE  QueueInv' /\ CacheInv'
  OBVIOUS
<1> DEFINE st == [r \in Rollouts |-> ReviewedStatus(r)]
           requeued == {r \in Reviewed : IsQueuing(st[r])} \ ToSet(queue)
<1>1. status' = st /\ OnRolloutUpdate(Reviewed, st)
  BY DEF Healthcheck
<1>2. /\ Reviewed \subseteq Rollouts
      /\ \A r \in Reviewed : st[r] # "absent"
      /\ \A r \in Rollouts \ Reviewed : st[r] = status[r]
  BY ReviewedFacts
<1>3. PICK order \in SetToSeqs(requeued) : queue' = queue \o order
  BY DEF Healthcheck
<1>4. /\ order \in Seq(Rollouts) /\ ToSet(order) = requeued /\ IsInjective(order)
  <2>1. requeued \subseteq Rollouts /\ IsFiniteSet(requeued)
    BY <1>2, StoreAssumption, FS_Subset
  <2>2. QED BY <2>1, ListingFacts
<1>5. ToSet(queue') = ToSet(queue) \cup requeued /\ IsInjective(queue')
  <2>1. queue \in Seq(Rollouts) /\ IsInjective(queue)
    BY DEF TypeOK, QueueInv, NoDoubleEntry
  <2>2. ToSet(queue) \cap ToSet(order) = {}
    BY <1>4
  <2> HIDE DEF requeued
  <2>3. ToSet(queue \o order) = ToSet(queue) \cup ToSet(order) /\ IsInjective(queue \o order)
    <3>1. order \in Seq(Rollouts) /\ IsInjective(order)
      BY <1>4
    <3>2. QED BY <3>1, <2>1, <2>2, ConcatFacts
  <2>4. QED BY <1>3, <1>4, <2>3
<1>6. NoLostRollout'
  BY <1>1, <1>2, <1>5 DEF QueueInv, NoLostRollout
<1>7. EntriesExist'
  <2>1. ToSet(queue) \subseteq Rollouts
    BY DEF TypeOK, ToSet
  <2>2. QED BY <2>1, <1>1, <1>2, <1>5 DEF QueueInv, EntriesExist
<1>8. CacheInv'
  BY <1>1, <1>2 DEF OnRolloutUpdate, CacheInv, RunningCacheExact, FinishedIsSignalled
<1>9. QED BY <1>5, <1>6, <1>7, <1>8 DEF QueueInv, NoDoubleEntry

StoreInv == TypeOK /\ QueueInv /\ CacheInv

LEMMA StoreInvStep == StoreInv /\ [Next]_vars => StoreInv'
<1> SUFFICES ASSUME TypeOK, QueueInv, CacheInv, [Next]_vars
             PROVE  QueueInv' /\ CacheInv'
  BY TypeStep DEF StoreInv
<1>1. CASE Submit
  BY <1>1, SubmitSafe
<1>2. CASE Dequeue
  BY <1>2, DequeueSafe
<1>3. CASE Manage
  BY <1>3, ManageSafe
<1>4. CASE Report
  BY <1>4, AddSpanSafe, UpdateAttemptSafe DEF Report
<1>5. CASE Healthcheck
  BY <1>5, HealthcheckSafe
<1>6. CASE (\E w \in Workers : UpdateWorker(w)) \/ (\E r \in Rollouts : Elapse(r)) \/ UNCHANGED vars
  BY <1>6, IdleSafe DEF UpdateWorker, Elapse, Age, FallSilent, vars
<1>7. QED BY <1>1, <1>2, <1>3, <1>4, <1>5, <1>6 DEF Next

LEMMA StoreInvInit == Init => StoreInv
<1>1. Init => QueueInv
  BY DEF Init, QueueInv, NoLostRollout, NoDoubleEntry, EntriesExist, IsQueuing,
         ToSet, IsInjective
<1>2. Init => CacheInv
  BY DEF Init, CacheInv, RunningCacheExact, FinishedIsSignalled, IsRunning, IsFinished
<1>3. QED BY <1>1, <1>2, InitType DEF StoreInv

LEMMA StoreInvariant == Spec => []StoreInv
BY StoreInvInit, StoreInvStep, PTL DEF Spec

\* In every history a waiting rollout has an entry in the queue, so dequeue_rollout
\* will come to it.
THEOREM NothingLost == Spec => []NoLostRollout
BY StoreInvariant, PTL DEF StoreInv, QueueInv

\* In every history an entry of the queue is unique, so no rollout is claimed twice
\* for one enqueueing.
THEOREM NothingDoubled == Spec => []NoDoubleEntry
BY StoreInvariant, PTL DEF StoreInv, QueueInv

\* In every history the watchdog's cache holds the running rollouts and no others.
THEOREM CacheExact == Spec => []RunningCacheExact
BY StoreInvariant, PTL DEF StoreInv, CacheInv

\* In every history the completion event of a finished rollout is set.
THEOREM Signalled == Spec => []FinishedIsSignalled
BY StoreInvariant, PTL DEF StoreInv, CacheInv

-----------------------------------------------------------------------------
\* What the operations do to the attempts of a rollout.

\* Opening an attempt.
LEMMA InsertFacts ==
  ASSUME TypeOK, NEW r \in Rollouts, InsertAttempt(r)
  PROVE  /\ attempts'[r] # <<>>
         /\ Len(attempts'[r]) = Len(attempts[r]) + 1
         /\ Last(attempts'[r]) = NewAttempt
         /\ DOMAIN attempts[r] \subseteq DOMAIN attempts'[r]
         /\ \A n \in DOMAIN attempts[r] : attempts'[r][n] = attempts[r][n]
         /\ \A x \in Rollouts \ {r} : attempts'[x] = attempts[x]
<1>1. attempts[r] \in Seq(Attempt) /\ NewAttempt \in Attempt
  BY DEF TypeOK, NewAttempt, Attempt, AttemptStatus
<1>2. attempts'[r] = Append(attempts[r], NewAttempt)
  BY DEF InsertAttempt, TypeOK
<1>3. \A x \in Rollouts \ {r} : attempts'[x] = attempts[x]
  BY DEF InsertAttempt, TypeOK
<1>4. QED BY <1>1, <1>2, <1>3 DEF Last

\* Writing attempt n of r.
Rewrite(r, n, a) == attempts' = [attempts EXCEPT ![r] = [attempts[r] EXCEPT ![n] = a]]

LEMMA RewriteFacts ==
  ASSUME TypeOK, NEW r \in Rollouts, NEW n \in DOMAIN attempts[r], NEW a \in Attempt,
         Rewrite(r, n, a)
  PROVE  /\ attempts[r] # <<>> /\ attempts'[r] # <<>>
         /\ Len(attempts'[r]) = Len(attempts[r])
         /\ DOMAIN attempts'[r] = DOMAIN attempts[r]
         /\ Last(attempts'[r]) = IF n = Len(attempts[r]) THEN a ELSE Last(attempts[r])
         /\ attempts'[r][n] = a
         /\ \A m \in DOMAIN attempts[r] \ {n} : attempts'[r][m] = attempts[r][m]
         /\ \A x \in Rollouts \ {r} : attempts'[x] = attempts[x]
<1>1. attempts[r] \in Seq(Attempt)
  BY DEF TypeOK
<1>2. attempts'[r] = [attempts[r] EXCEPT ![n] = a]
  BY DEF TypeOK, Rewrite
<1>3. \A x \in Rollouts \ {r} : attempts'[x] = attempts[x]
  BY DEF TypeOK, Rewrite
<1>4. /\ attempts[r] # <<>> /\ attempts'[r] # <<>>
      /\ Len(attempts'[r]) = Len(attempts[r])
      /\ DOMAIN attempts'[r] = DOMAIN attempts[r]
      /\ attempts'[r][n] = a
      /\ \A m \in DOMAIN attempts[r] \ {n} : attempts'[r][m] = attempts[r][m]
  BY <1>1, <1>2
<1>5. Last(attempts'[r]) = IF n = Len(attempts[r]) THEN a ELSE Last(attempts[r])
  <2>1. Len(attempts[r]) \in DOMAIN attempts[r]
    BY <1>1, <1>4
  <2>2. QED BY <1>4, <2>1 DEF Last
<1>6. QED BY <1>3, <1>4, <1>5

\* What the watchdog writes: the status of the latest attempt, nothing else.
LEMMA HealthcheckFacts ==
  ASSUME TypeOK, Healthcheck, NEW r \in Rollouts
  PROVE  /\ Len(attempts'[r]) = Len(attempts[r])
         /\ DOMAIN attempts'[r] = DOMAIN attempts[r]
         /\ attempts'[r] = <<>> <=> attempts[r] = <<>>
         /\ \A n \in DOMAIN attempts[r] :
              /\ attempts'[r][n].worker_id = attempts[r][n].worker_id
              /\ n # Len(attempts[r]) \/ r \notin Diagnosed => attempts'[r][n] = attempts[r][n]
         /\ r \in Diagnosed => attempts'[r][Len(attempts[r])].status = Diagnosis(r)
         /\ r \in Reviewed => Last(attempts'[r]).status = Diagnosis(r)
         /\ r \notin Reviewed => attempts'[r] = attempts[r]
<1>1. attempts[r] \in Seq(Attempt)
  BY DEF TypeOK
<1>2. CASE r \in Diagnosed
  <2>1. r \in Watched
    BY <1>2, ReviewedFacts
  <2>2. /\ Len(attempts[r]) \in DOMAIN attempts[r]
        /\ attempts[r][Len(attempts[r])] \in Attempt
    BY <2>1, WatchedFacts
  <2>3. attempts'[r] =
          [attempts[r] EXCEPT ![Len(attempts[r])] =
             [attempts[r][Len(attempts[r])] EXCEPT !.status = Diagnosis(r)]]
    BY <1>2 DEF Healthcheck
  <2>4. /\ Len(attempts'[r]) = Len(attempts[r])
        /\ DOMAIN attempts'[r] = DOMAIN attempts[r]
        /\ attempts'[r] # <<>> /\ attempts[r] # <<>>
        /\ attempts'[r][Len(attempts[r])] =
             [attempts[r][Len(attempts[r])] EXCEPT !.status = Diagnosis(r)]
        /\ \A n \in DOMAIN attempts[r] \ {Len(attempts[r])} : attempts'[r][n] = attempts[r][n]
    BY <1>1, <2>2, <2>3
  <2>5. /\ attempts'[r][Len(attempts[r])].status = Diagnosis(r)
        /\ attempts'[r][Len(attempts[r])].worker_id = attempts[r][Len(attempts[r])].worker_id
    BY <2>2, <2>4 DEF Attempt
  <2>6. r \in Reviewed
    BY <1>2 DEF Reviewed
  <2>7. QED BY <1>2, <2>4, <2>5, <2>6 DEF Last
<1>3. CASE r \notin Diagnosed
  <2>1. attempts'[r] = attempts[r]
    BY <1>3 DEF Healthcheck
  <2>2. r \in Reviewed => Last(attempts[r]).status = Diagnosis(r)
    BY <1>3 DEF Reviewed, Diagnosis
  <2>3. QED BY <1>3, <2>1, <2>2
<1>4. QED BY <1>2, <1>3

-----------------------------------------------------------------------------
\* A rollout and its attempts.

RolloutInv(r) ==
  /\ status[r] = "absent" => attempts[r] = <<>>
  /\ NoForcedRun /\ IsRunning(status[r]) => attempts[r] # <<>>
  /\ RunnerProtocol => /\ status[r] # "absent" => WithinBudget(r)
                       /\ Agreeing(r)

AttemptInv == \A r \in Rollouts : RolloutInv(r)

\* A rollout the step leaves alone.
LEMMA Untouched ==
  ASSUME NEW r, RolloutInv(r),
         UNCHANGED <<status[r], config[r], attempts[r]>>
  PROVE  RolloutInv(r)'
BY DEF RolloutInv, WithinBudget, Agreeing, Retriable

\* A rollout whose status the step propagates from its latest attempt.
LEMMA Propagated ==
  ASSUME TypeOK, NEW r \in Rollouts, RolloutInv(r), status[r] # "absent",
         attempts[r] # <<>>,
         UNCHANGED config[r],
         attempts'[r] # <<>>, Len(attempts'[r]) = Len(attempts[r]),
         Last(attempts'[r]).status \in AttemptStatus,
         status'[r] = PropagateStatus(Last(attempts'[r]).status,
                                      Len(attempts[r]), config[r])
  PROVE  RolloutInv(r)'
<1> DEFINE s == Last(attempts'[r]).status
<1>1. CASE s \in {"preparing", "running", "succeeded"}
  <2>1. status'[r] = s
    BY <1>1 DEF PropagateStatus
  <2>2. QED
    BY <1>1, <2>1 DEF RolloutInv, WithinBudget, Agreeing, IsQueuing
<1>2. CASE s \in {"failed", "timeout", "unresponsive"}
  <2>1. CASE s \in config[r].retry_condition /\ Len(attempts[r]) < config[r].max_attempts
    <3>1. status'[r] = "requeuing"
      BY <1>2, <2>1 DEF PropagateStatus
    <3>2. QED
      BY <1>2, <2>1, <3>1
      DEF RolloutInv, WithinBudget, Agreeing, Retriable, IsQueuing, IsRunning
  <2>2. CASE ~(s \in config[r].retry_condition /\ Len(attempts[r]) < config[r].max_attempts)
    <3>1. status'[r] = "failed"
      BY <1>2, <2>2 DEF PropagateStatus
    <3>2. QED
      BY <1>2, <3>1 DEF RolloutInv, WithinBudget, Agreeing, IsQueuing, IsRunning
  <2>3. QED BY <2>1, <2>2
<1>3. QED BY <1>1, <1>2 DEF AttemptStatus

LEMMA SubmitAttempts == TypeOK /\ AttemptInv /\ Submit => AttemptInv'
<1> SUFFICES ASSUME TypeOK, AttemptInv, NEW r \in Rollouts, NEW c \in Configs,
                    StartRollout(r, c) \/ EnqueueRollout(r, c),
                    NEW x \in Rollouts
             PROVE  RolloutInv(x)'
  BY DEF Submit, AttemptInv
<1>1. RolloutInv(x) /\ c \in Config
  BY StoreAssumption DEF AttemptInv
<1>2. CASE x # r
  BY <1>1, <1>2, Untouched DEF StartRollout, EnqueueRollout, TypeOK
<1>3. CASE x = r /\ StartRollout(r, c)
  <2>1. /\ status'[r] = "preparing" /\ attempts'[r] = <<NewAttempt>>
        /\ config'[r] = c
    BY <1>3 DEF StartRollout, TypeOK
  <2>2. /\ attempts'[r] # <<>> /\ Len(attempts'[r]) = 1
        /\ Last(attempts'[r]).status = "preparing"
    BY <2>1 DEF Last, NewAttempt
  <2>3. QED
    BY <1>1, <1>3, <2>1, <2>2
    DEF RolloutInv, WithinBudget, Agreeing, IsQueuing, IsRunning, Config
<1>4. CASE x = r /\ EnqueueRollout(r, c)
  <2>1. /\ status'[r] = "queuing" /\ attempts'[r] = <<>> /\ config'[r] = c
    BY <1>1, <1>4 DEF EnqueueRollout, TypeOK, RolloutInv
  <2>2. Len(attempts'[r]) = 0
    BY <2>1
  <2>3. QED
    BY <1>1, <1>4, <2>1, <2>2
    DEF RolloutInv, WithinBudget, Agreeing, IsQueuing, IsRunning, Config
<1>5. QED BY <1>2, <1>3, <1>4

\* A claim, or an attempt started by hand.
LEMMA InsertAttempts ==
  ASSUME TypeOK, AttemptInv, NEW r \in Rollouts, InsertAttempt(r),
         status' = [status EXCEPT ![r] = "preparing"], UNCHANGED config,
         RunnerProtocol => IsQueuing(status[r])
  PROVE  AttemptInv'
<1> SUFFICES ASSUME NEW x \in Rollouts
             PROVE  RolloutInv(x)'
  BY DEF AttemptInv
<1>1. RolloutInv(x)
  BY DEF AttemptInv
<1>2. CASE x # r
  BY <1>1, <1>2, Untouched, InsertFacts DEF TypeOK
<1>3. CASE x = r
  <2>1. /\ attempts'[r] # <<>> /\ Len(attempts'[r]) = Len(attempts[r]) + 1
        /\ Last(attempts'[r]).status = "preparing"
        /\ status'[r] = "preparing" /\ config'[r] = config[r]
    BY InsertFacts DEF NewAttempt, TypeOK
  <2>2. ASSUME RunnerProtocol
        PROVE  WithinBudget(r)'
    <3>1. /\ Len(attempts[r]) < config[r].max_attempts
          /\ config[r].max_attempts \in Nat /\ Len(attempts[r]) \in Nat
      BY <1>1, <1>3, <2>2 DEF RolloutInv, WithinBudget, IsQueuing, TypeOK, Config
    <3>2. QED BY <2>1, <3>1 DEF WithinBudget, IsQueuing
  <2>3. Agreeing(r)'
    BY <2>1 DEF Agreeing
  <2>4. QED BY <1>3, <2>1, <2>2, <2>3 DEF RolloutInv
<1>4. QED BY <1>2, <1>3

LEMMA DequeueAttempts == TypeOK /\ AttemptInv /\ Dequeue => AttemptInv'
<1> SUFFICES ASSUME TypeOK, AttemptInv, NEW w \in Workers \cup {None}, DequeueRollout(w)
             PROVE  AttemptInv'
  BY DEF Dequeue
<1>1. CASE FindNothing(w)
  BY <1>1, Untouched DEF FindNothing, AttemptInv
<1>2. CASE ClaimFirst(w)
  <2>1. PICK i \in Eligible :
          /\ InsertAttempt(queue[i])
          /\ status' = [status EXCEPT ![queue[i]] = "preparing"]
          /\ UNCHANGED config
    BY <1>2 DEF ClaimFirst, Claim, UpdateRolloutUnlocked
  <2>2. queue[i] \in Rollouts /\ IsQueuing(status[queue[i]])
    BY DEF Eligible, TypeOK
  <2>3. QED BY <2>1, <2>2, InsertAttempts
<1>3. QED BY <1>1, <1>2 DEF DequeueRollout

LEMMA ManageAttempts == TypeOK /\ AttemptInv /\ Manage => AttemptInv'
<1> SUFFICES ASSUME TypeOK, AttemptInv, NEW r \in Rollouts,
                    \/ ManualAttempts /\ StartAttempt(r)
                    \/ \E s \in UpdateStatuses : UpdateRollout(r, s, config[r])
                    \/ ConfigUpdates /\ \E c \in Configs : UpdateRollout(r, status[r], c)
             PROVE  AttemptInv'
  BY DEF Manage
<1>1. CASE ManualAttempts /\ StartAttempt(r)
  BY <1>1, InsertAttempts DEF StartAttempt, UpdateRolloutUnlocked, RunnerProtocol
<1>2. ASSUME NEW s, NEW c, UpdateRollout(r, s, c), s \in RolloutStatus,
             ~RunnerProtocol,
             NoForcedRun /\ IsRunning(s) => s = status[r]
      PROVE  AttemptInv'
  <2>1. ASSUME NEW x \in Rollouts
        PROVE  RolloutInv(x)'
    <3>1. status' = [status EXCEPT ![r] = s] /\ attempts' = attempts /\ RolloutInv(x)
          /\ s # "absent"
      BY <1>2 DEF UpdateRollout, UpdateRolloutUnlocked, AttemptInv, RolloutStatus
    <3>2. QED BY <1>2, <3>1 DEF RolloutInv, TypeOK, NoForcedRun, RunnerProtocol
  <2>2. QED BY <2>1 DEF AttemptInv
<1>3. CASE \E s \in UpdateStatuses : UpdateRollout(r, s, config[r])
  <2>1. PICK s \in UpdateStatuses : UpdateRollout(r, s, config[r])
    BY <1>3
  <2>2. /\ s \in RolloutStatus /\ ~RunnerProtocol
        /\ NoForcedRun /\ IsRunning(s) => s = status[r]
    BY StoreAssumption DEF RunnerProtocol, NoForcedRun, IsRunning
  <2>3. QED BY <1>2, <2>1, <2>2
<1>4. CASE ConfigUpdates /\ \E c \in Configs : UpdateRollout(r, status[r], c)
  <2>1. PICK c \in Configs : UpdateRollout(r, status[r], c)
    BY <1>4
  <2>2. status[r] \in RolloutStatus /\ ~RunnerProtocol
    BY <1>4, <2>1 DEF RunnerProtocol, UpdateRollout, TypeOK
  <2>3. QED BY <1>2, <2>1, <2>2
<1>5. QED BY <1>1, <1>3, <1>4

\* A rollout whose status and latest attempt's status stay.
LEMMA SameLatest ==
  ASSUME NEW r, RolloutInv(r),
         UNCHANGED <<status[r], config[r]>>,
         attempts[r] # <<>>, attempts'[r] # <<>>,
         Len(attempts'[r]) = Len(attempts[r]),
         Last(attempts'[r]).status = Last(attempts[r]).status
  PROVE  RolloutInv(r)'
BY DEF RolloutInv, WithinBudget, Agreeing, Retriable

LEMMA UpdateAttemptAttempts ==
  ASSUME TypeOK, AttemptInv, NEW r \in Rollouts, NEW n \in DOMAIN attempts[r],
         NEW s \in ReportStatuses \cup {Unset}, NEW w \in Workers \cup {Unset},
         NEW beat \in BOOLEAN, UpdateAttempt(r, n, s, w, beat)
  PROVE  AttemptInv'
<1> DEFINE a == UpdatedAttempt(r, n, s, w)
<1> SUFFICES ASSUME NEW x \in Rollouts
             PROVE  RolloutInv(x)'
  BY DEF AttemptInv
<1>1. a \in Attempt
  BY UpdatedType
<1>2. Rewrite(r, n, a)
  BY DEF UpdateAttempt, TypeOK, Rewrite
<1> HIDE DEF a
<1>3. /\ attempts[r] # <<>> /\ attempts'[r] # <<>>
      /\ Len(attempts'[r]) = Len(attempts[r])
      /\ Last(attempts'[r]) = IF n = Len(attempts[r]) THEN a ELSE Last(attempts[r])
      /\ \A y \in Rollouts \ {r} : attempts'[y] = attempts[y]
  BY <1>1, <1>2, RewriteFacts
<1>4. RolloutInv(x) /\ config' = config /\ status[r] # "absent"
  BY DEF AttemptInv, UpdateAttempt
<1>5. status' = IF n = Len(attempts[r])
                THEN [status EXCEPT ![r] = PropagateStatus(a.status, n, config[r])]
                ELSE status
  BY DEF UpdateAttempt, FollowLatest, UpdateRolloutUnlocked, a
<1>6. CASE x # r
  BY <1>3, <1>4, <1>5, <1>6, Untouched DEF TypeOK
<1>7. CASE x = r /\ n = Len(attempts[r])
  <2>1. status'[r] = PropagateStatus(a.status, Len(attempts[r]), config[r])
    BY <1>5, <1>7 DEF TypeOK
  <2>2. a.status \in AttemptStatus
    BY <1>1 DEF Attempt
  <2>3. QED BY <1>3, <1>4, <1>7, <2>1, <2>2, Propagated
<1>8. CASE x = r /\ n # Len(attempts[r])
  BY <1>3, <1>4, <1>5, <1>8, SameLatest
<1>9. QED BY <1>6, <1>7, <1>8

LEMMA AddSpanAttempts ==
  ASSUME TypeOK, AttemptInv, NEW r \in Rollouts, NEW n \in DOMAIN attempts[r],
         AddSpan(r, n)
  PROVE  AttemptInv'
<1> DEFINE a == [attempts[r][n] EXCEPT !.status =
                   IF @ \in {"preparing", "unresponsive"} THEN "running" ELSE @]
<1> SUFFICES ASSUME NEW x \in Rollouts
             PROVE  RolloutInv(x)'
  BY DEF AttemptInv
<1>1. attempts[r][n] \in Attempt /\ Len(attempts[r]) \in Nat
  BY DEF TypeOK
<1>2. /\ a \in Attempt
      /\ a.status = IF attempts[r][n].status \in {"preparing", "unresponsive"}
                    THEN "running" ELSE attempts[r][n].status
  BY <1>1 DEF Attempt, AttemptStatus
<1>3. Rewrite(r, n, a)
  BY DEF AddSpan, TypeOK, Rewrite
<1> HIDE DEF a
<1>4. /\ attempts[r] # <<>> /\ attempts'[r] # <<>>
      /\ Len(attempts'[r]) = Len(attempts[r])
      /\ Last(attempts'[r]) = IF n = Len(attempts[r]) THEN a ELSE Last(attempts[r])
      /\ \A y \in Rollouts \ {r} : attempts'[y] = attempts[y]
  BY <1>2, <1>3, RewriteFacts
<1>5. RolloutInv(x) /\ config' = config
  BY DEF AttemptInv, AddSpan
<1>6. status' = IF n = Len(attempts[r]) /\ status[r] \in {"preparing", "queuing", "requeuing"}
                THEN [status EXCEPT ![r] = "running"] ELSE status
  BY DEF AddSpan, ReviveRollout, Revived
<1>7. CASE x # r
  BY <1>4, <1>5, <1>6, <1>7, Untouched DEF TypeOK
<1>8. CASE x = r /\ n # Len(attempts[r])
  BY <1>4, <1>5, <1>6, <1>8, SameLatest
<1>9. CASE x = r /\ n = Len(attempts[r])
  <2>1. Last(attempts[r]) = attempts[r][n] /\ Last(attempts'[r]) = a
    BY <1>4, <1>9 DEF Last
  <2>2. status'[r] = IF status[r] \in {"preparing", "queuing", "requeuing"}
                     THEN "running" ELSE status[r]
    BY <1>6, <1>9 DEF TypeOK
  <2>3. status[r] = "absent" => status'[r] = "absent" /\ attempts[r] = <<>>
    BY <1>5, <1>9, <2>2 DEF RolloutInv
  <2>4. ASSUME RunnerProtocol
        PROVE  WithinBudget(r)'
    BY <1>4, <1>5, <1>9, <2>2, <2>3, <2>4 DEF RolloutInv, WithinBudget, IsQueuing
  <2>5. ASSUME RunnerProtocol
        PROVE  Agreeing(r)'
    <3>1. Agreeing(r)
      BY <1>5, <1>9, <2>5 DEF RolloutInv
    <3>2. QED BY <3>1, <1>2, <1>4, <1>5, <2>1, <2>2 DEF Agreeing, Retriable
  <2>6. /\ status'[r] = "absent" => attempts'[r] = <<>>
        /\ attempts'[r] # <<>>
    BY <1>4, <1>9, <2>2, <1>5 DEF RolloutInv
  <2>7. RolloutInv(r)'
    BY <2>4, <2>5, <2>6 DEF RolloutInv
  <2>8. QED BY <1>9, <2>7
<1>10. QED BY <1>7, <1>8, <1>9

LEMMA HealthcheckAttempts ==
  TypeOK /\ CacheInv /\ AttemptInv /\ Healthcheck => AttemptInv'
<1> SUFFICES ASSUME TypeOK, CacheInv, AttemptInv, Healthcheck, NEW r \in Rollouts
             PROVE  RolloutInv(r)'
  BY DEF AttemptInv
<1>1. /\ RolloutInv(r) /\ config' = config
      /\ status' = [x \in Rollouts |-> ReviewedStatus(x)]
  BY DEF AttemptInv, Healthcheck
<1>2. CASE r \in Reviewed
  <2>1. r \in Watched
    BY <1>2, ReviewedFacts
  <2>2. /\ attempts[r] # <<>> /\ status[r] # "absent" /\ Diagnosis(r) \in AttemptStatus
    BY <2>1, WatchedFacts DEF Watched, CacheInv, RunningCacheExact, IsRunning
  <2>3. status'[r] = PropagateStatus(Diagnosis(r), Len(attempts[r]), config[r])
    BY <1>1, <1>2 DEF ReviewedStatus
  <2>4. /\ Len(attempts'[r]) = Len(attempts[r]) /\ attempts'[r] # <<>>
        /\ Last(attempts'[r]).status = Diagnosis(r)
    BY <1>2, <2>2, HealthcheckFacts
  <2>5. QED BY <1>1, <2>2, <2>3, <2>4, Propagated
<1>3. CASE r \notin Reviewed
  <2>1. attempts'[r] = attempts[r] /\ status'[r] = status[r]
    BY <1>1, <1>3, HealthcheckFacts, ReviewedFacts
  <2>2. QED BY <1>1, <2>1, Untouched
<1>4. QED BY <1>2, <1>3

LEMMA AttemptInvStep == StoreInv /\ AttemptInv /\ [Next]_vars => AttemptInv'
<1> SUFFICES ASSUME TypeOK, CacheInv, AttemptInv, [Next]_vars
             PROVE  AttemptInv'
  BY DEF StoreInv
<1>1. CASE Submit
  BY <1>1, SubmitAttempts
<1>2. CASE Dequeue
  BY <1>2, DequeueAttempts
<1>3. CASE Manage
  BY <1>3, ManageAttempts
<1>4. CASE Report
  BY <1>4, AddSpanAttempts, UpdateAttemptAttempts DEF Report
<1>5. CASE Healthcheck
  BY <1>5, HealthcheckAttempts
<1>6. CASE (\E w \in Workers : UpdateWorker(w)) \/ (\E r \in Rollouts : Elapse(r)) \/ UNCHANGED vars
  BY <1>6, Untouched DEF UpdateWorker, Elapse, Age, FallSilent, vars, AttemptInv
<1>7. QED BY <1>1, <1>2, <1>3, <1>4, <1>5, <1>6 DEF Next

LEMMA AttemptInvInit == Init => AttemptInv
BY DEF Init, AttemptInv, RolloutInv, Agreeing, IsRunning

LEMMA AttemptInvariant == Spec => []AttemptInv
BY AttemptInvInit, AttemptInvStep, StoreInvariant, PTL DEF Spec

\* While no caller forces a running status, the watchdog finds an attempt to look
\* at on every running rollout, in every history.
THEOREM WatchdogMissesNone == Spec => []RunningHasAttempt
<1>1. AttemptInv => RunningHasAttempt
  BY DEF AttemptInv, RolloutInv, RunningHasAttempt
<1>2. QED BY <1>1, AttemptInvariant, PTL

\* Under the runners' protocol no rollout is attempted more than max_attempts
\* times, and none waits for an attempt it may not have.
THEOREM RetriesBounded == Spec => []RetryBudget
<1>1. AttemptInv => RetryBudget
  BY DEF AttemptInv, RolloutInv, RetryBudget
<1>2. QED BY <1>1, AttemptInvariant, PTL

\* Under the runners' protocol a rollout's status follows its latest attempt's, up
\* to the disagreements StatusAgreement names.
THEOREM StatusesAgree == Spec => []StatusAgreement
<1>1. AttemptInv => StatusAgreement
  BY DEF AttemptInv, RolloutInv, StatusAgreement
<1>2. QED BY <1>1, AttemptInvariant, PTL

-----------------------------------------------------------------------------
\* Busy workers.

\* A worker that stays on its assignment, or becomes anything but busy, while
\* attempts are only added or rewritten without ending one of this worker's.
LEMMA StillLive ==
  ASSUME NEW w \in Workers, BusyWorkerIsOnLiveAttempt,
         workers'[w].status = "busy" => workers'[w] = workers[w],
         \A r \in Rollouts : \A n \in DOMAIN attempts[r] :
           /\ n \in DOMAIN attempts'[r]
           /\ \/ attempts'[r][n] = attempts[r][n]
              \/ attempts'[r][n].worker_id # w
              \/ attempts'[r][n].status \in {"preparing", "running"}
  PROVE  workers'[w].status = "busy" => LiveAssignment(w)'
BY DEF BusyWorkerIsOnLiveAttempt, LiveAssignment

\* A worker synced with an attempt it owns.
LEMMA SyncedLive ==
  ASSUME NEW w \in Workers, NEW r \in Rollouts, NEW n \in DOMAIN attempts'[r],
         attempts'[r][n].status \in AttemptStatus,
         workers'[w] = SyncWorkerWithAttempt(r, n, attempts'[r][n].status)
  PROVE  workers'[w].status = "busy" => LiveAssignment(w)'
<1> DEFINE s == attempts'[r][n].status
<1>1. CASE s \in {"preparing", "running"}
  <2>1. workers'[w] = [status |-> "busy", current_rollout |-> r, current_attempt |-> n]
    BY <1>1 DEF SyncWorkerWithAttempt
  <2>2. QED BY <1>1, <2>1 DEF LiveAssignment
<1>2. CASE s \notin {"preparing", "running"}
  BY <1>2 DEF SyncWorkerWithAttempt, AttemptStatus
<1>3. QED BY <1>1, <1>2

LEMMA SubmitWorkers ==
  TypeOK /\ AttemptInv /\ BusyWorkerIsOnLiveAttempt /\ Submit => BusyWorkerIsOnLiveAttempt'
<1> SUFFICES ASSUME TypeOK, AttemptInv, BusyWorkerIsOnLiveAttempt,
                    NEW r \in Rollouts, NEW c \in Configs,
                    StartRollout(r, c) \/ EnqueueRollout(r, c),
                    NEW w \in Workers
             PROVE  workers'[w].status = "busy" => LiveAssignment(w)'
  BY DEF Submit, BusyWorkerIsOnLiveAttempt
<1>1. workers' = workers
  BY DEF StartRollout, EnqueueRollout
<1>2. /\ attempts[r] = <<>>
      /\ \A x \in Rollouts \ {r} : attempts'[x] = attempts[x]
  BY DEF StartRollout, EnqueueRollout, AttemptInv, RolloutInv, TypeOK
<1>3. \A x \in Rollouts : \A n \in DOMAIN attempts[x] :
        n \in DOMAIN attempts'[x] /\ attempts'[x][n] = attempts[x][n]
  BY <1>2
<1>4. QED BY <1>1, <1>3, StillLive

\* A claim, or an attempt started by hand.
LEMMA InsertWorkers ==
  ASSUME TypeOK, BusyWorkerIsOnLiveAttempt, NEW r \in Rollouts, InsertAttempt(r),
         NEW w \in Workers, workers'[w].status = "busy" => workers'[w] = workers[w]
  PROVE  workers'[w].status = "busy" => LiveAssignment(w)'
<1>1. \A x \in Rollouts : \A n \in DOMAIN attempts[x] :
        n \in DOMAIN attempts'[x] /\ attempts'[x][n] = attempts[x][n]
  BY InsertFacts
<1>2. QED BY <1>1, StillLive

LEMMA SameAttemptsWorkers ==
  ASSUME BusyWorkerIsOnLiveAttempt, attempts' = attempts,
         NEW w \in Workers, workers'[w].status = "busy" => workers'[w] = workers[w]
  PROVE  workers'[w].status = "busy" => LiveAssignment(w)'
BY StillLive

LEMMA MarkIdleFacts ==
  ASSUME TypeOK, NEW v \in Workers \cup {None}, MarkIdle(v), NEW w \in Workers
  PROVE  workers'[w].status = "busy" => workers'[w] = workers[w]
BY DEF MarkIdle, TypeOK, Worker

LEMMA DequeueWorkers ==
  TypeOK /\ BusyWorkerIsOnLiveAttempt /\ Dequeue => BusyWorkerIsOnLiveAttempt'
<1> SUFFICES ASSUME TypeOK, BusyWorkerIsOnLiveAttempt,
                    NEW v \in Workers \cup {None}, DequeueRollout(v),
                    NEW w \in Workers
             PROVE  workers'[w].status = "busy" => LiveAssignment(w)'
  BY DEF Dequeue, BusyWorkerIsOnLiveAttempt
<1>1. workers'[w].status = "busy" => workers'[w] = workers[w]
  BY MarkIdleFacts DEF DequeueRollout, FindNothing, ClaimFirst, Claim
<1>2. CASE FindNothing(v)
  BY <1>1, <1>2, SameAttemptsWorkers DEF FindNothing
<1>3. CASE ClaimFirst(v)
  <2>1. PICK i \in Eligible : InsertAttempt(queue[i])
    BY <1>3 DEF ClaimFirst, Claim
  <2>2. queue[i] \in Rollouts
    BY DEF Eligible, TypeOK
  <2>3. QED BY <1>1, <2>1, <2>2, InsertWorkers
<1>4. QED BY <1>2, <1>3 DEF DequeueRollout

LEMMA ManageWorkers ==
  TypeOK /\ BusyWorkerIsOnLiveAttempt /\ Manage => BusyWorkerIsOnLiveAttempt'
<1> SUFFICES ASSUME TypeOK, BusyWorkerIsOnLiveAttempt, NEW r \in Rollouts,
                    \/ StartAttempt(r)
                    \/ \E s \in UpdateStatuses : UpdateRollout(r, s, config[r])
                    \/ \E c \in Configs : UpdateRollout(r, status[r], c),
                    NEW w \in Workers
             PROVE  workers'[w].status = "busy" => LiveAssignment(w)'
  BY DEF Manage, BusyWorkerIsOnLiveAttempt
<1>1. CASE StartAttempt(r)
  BY <1>1, InsertWorkers DEF StartAttempt
<1>2. CASE ~StartAttempt(r)
  BY <1>2, SameAttemptsWorkers DEF UpdateRollout
<1>3. QED BY <1>1, <1>2

LEMMA UpdateAttemptWorkers ==
  ASSUME TypeOK, BusyWorkerIsOnLiveAttempt, NEW r \in Rollouts, NEW n \in DOMAIN attempts[r],
         NEW s \in ReportStatuses \cup {Unset}, NEW w \in Workers \cup {Unset},
         NEW beat \in BOOLEAN, UpdateAttempt(r, n, s, w, beat)
  PROVE  BusyWorkerIsOnLiveAttempt'
<1> DEFINE a == UpdatedAttempt(r, n, s, w)
<1> SUFFICES ASSUME NEW u \in Workers
             PROVE  workers'[u].status = "busy" => LiveAssignment(u)'
  BY DEF BusyWorkerIsOnLiveAttempt
<1>1. a \in Attempt
  BY UpdatedType
<1>2. Rewrite(r, n, a)
  BY DEF UpdateAttempt, TypeOK, Rewrite
<1>3. workers' = IF (s # Unset \/ w # Unset) /\ a.worker_id # None
                 THEN [workers EXCEPT ![a.worker_id] = SyncWorkerWithAttempt(r, n, a.status)]
                 ELSE workers
  BY DEF UpdateAttempt, SyncWorker
<1>4. s = Unset /\ w = Unset => a = attempts[r][n]
  <2>1. attempts[r][n] \in Attempt
    BY DEF TypeOK
  <2>2. QED BY <2>1 DEF UpdatedAttempt, Attempt
<1> HIDE DEF a
<1>5. /\ DOMAIN attempts'[r] = DOMAIN attempts[r] /\ attempts'[r][n] = a
      /\ \A m \in DOMAIN attempts[r] \ {n} : attempts'[r][m] = attempts[r][m]
      /\ \A x \in Rollouts \ {r} : attempts'[x] = attempts[x]
  BY <1>1, <1>2, RewriteFacts
<1>6. CASE (s # Unset \/ w # Unset) /\ a.worker_id = u
  <2>1. u # None
    BY StoreAssumption
  <2>2. workers'[u] = SyncWorkerWithAttempt(r, n, attempts'[r][n].status)
    BY <1>3, <1>5, <1>6, <2>1 DEF TypeOK
  <2>3. n \in DOMAIN attempts'[r] /\ attempts'[r][n].status \in AttemptStatus
    BY <1>1, <1>5 DEF Attempt
  <2>4. QED BY <2>2, <2>3, SyncedLive
<1>7. CASE ~((s # Unset \/ w # Unset) /\ a.worker_id = u)
  <2>1. workers'[u] = workers[u]
    BY <1>3, <1>7 DEF TypeOK
  <2>2. ASSUME NEW x \in Rollouts, NEW m \in DOMAIN attempts[x]
        PROVE  /\ m \in DOMAIN attempts'[x]
               /\ attempts'[x][m] = attempts[x][m] \/ attempts'[x][m].worker_id # u
    BY <1>4, <1>5, <1>7
  <2>3. QED BY <2>1, <2>2, StillLive
<1>8. QED BY <1>6, <1>7

LEMMA AddSpanWorkers ==
  ASSUME TypeOK, BusyWorkerIsOnLiveAttempt, NEW r \in Rollouts, NEW n \in DOMAIN attempts[r],
         AddSpan(r, n)
  PROVE  BusyWorkerIsOnLiveAttempt'
<1> DEFINE a == [attempts[r][n] EXCEPT !.status =
                   IF @ \in {"preparing", "unresponsive"} THEN "running" ELSE @]
<1> SUFFICES ASSUME NEW u \in Workers
             PROVE  workers'[u].status = "busy" => LiveAssignment(u)'
  BY DEF BusyWorkerIsOnLiveAttempt
<1>1. attempts[r][n] \in Attempt
  BY DEF TypeOK
<1>2. a \in Attempt /\ (a = attempts[r][n] \/ a.status = "running")
  BY <1>1 DEF Attempt, AttemptStatus
<1>3. Rewrite(r, n, a) /\ workers' = workers
  BY DEF AddSpan, TypeOK, Rewrite
<1> HIDE DEF a
<1>4. /\ DOMAIN attempts'[r] = DOMAIN attempts[r] /\ attempts'[r][n] = a
      /\ \A m \in DOMAIN attempts[r] \ {n} : attempts'[r][m] = attempts[r][m]
      /\ \A x \in Rollouts \ {r} : attempts'[x] = attempts[x]
  BY <1>2, <1>3, RewriteFacts
<1>5. ASSUME NEW x \in Rollouts, NEW m \in DOMAIN attempts[x]
      PROVE  /\ m \in DOMAIN attempts'[x]
             /\ attempts'[x][m] = attempts[x][m] \/ attempts'[x][m].status = "running"
  BY <1>2, <1>4
<1>6. QED BY <1>3, <1>5, StillLive

LEMMA HealthcheckWorkers ==
  TypeOK /\ BusyWorkerIsOnLiveAttempt /\ Healthcheck => BusyWorkerIsOnLiveAttempt'
<1> SUFFICES ASSUME TypeOK, BusyWorkerIsOnLiveAttempt, Healthcheck, NEW w \in Workers
             PROVE  workers'[w].status = "busy" => LiveAssignment(w)'
  BY DEF BusyWorkerIsOnLiveAttempt
<1> DEFINE Owned == {r \in Diagnosed : Last(attempts[r]).worker_id = w}
<1>1. PICK x \in Rollouts :
        /\ Owned # {} => x \in Owned
        /\ workers'[w] = IF Owned = {} THEN workers[w]
                         ELSE SyncWorkerWithAttempt(x, Len(attempts[x]), Diagnosis(x))
  BY DEF Healthcheck
<1>2. CASE Owned # {}
  <2>1. x \in Diagnosed /\ x \in Watched
    BY <1>1, <1>2, ReviewedFacts
  <2>2. /\ Len(attempts[x]) \in DOMAIN attempts'[x]
        /\ attempts'[x][Len(attempts[x])].status = Diagnosis(x)
        /\ Diagnosis(x) \in AttemptStatus
    BY <2>1, WatchedFacts, HealthcheckFacts
  <2>3. workers'[w] =
          SyncWorkerWithAttempt(x, Len(attempts[x]), attempts'[x][Len(attempts[x])].status)
    BY <1>1, <1>2, <2>2
  <2>4. QED BY <2>2, <2>3, SyncedLive
<1>3. CASE Owned = {}
  <2>1. workers'[w] = workers[w]
    BY <1>1, <1>3
  <2>2. ASSUME NEW r \in Rollouts, NEW n \in DOMAIN attempts[r]
        PROVE  /\ n \in DOMAIN attempts'[r]
               /\ attempts'[r][n] = attempts[r][n] \/ attempts'[r][n].worker_id # w
    <3>1. CASE r \in Diagnosed /\ n = Len(attempts[r])
      <4>1. attempts[r][n].worker_id # w
        BY <1>3, <3>1 DEF Last
      <4>2. QED BY <3>1, <4>1, HealthcheckFacts
    <3>2. CASE ~(r \in Diagnosed /\ n = Len(attempts[r]))
      BY <3>2, HealthcheckFacts
    <3>3. QED BY <3>1, <3>2
  <2>3. QED BY <2>1, <2>2, StillLive
<1>4. QED BY <1>2, <1>3

\* In every history a busy worker is on an attempt that exists and, as long as it
\* is the worker's, has not ended.
THEOREM WorkersTracked == Spec => []BusyWorkerIsOnLiveAttempt
<1>1. Init => BusyWorkerIsOnLiveAttempt
  BY DEF Init, BusyWorkerIsOnLiveAttempt
<1>2. TypeOK /\ AttemptInv /\ BusyWorkerIsOnLiveAttempt /\ [Next]_vars
        => BusyWorkerIsOnLiveAttempt'
  <2> SUFFICES ASSUME TypeOK, AttemptInv, BusyWorkerIsOnLiveAttempt, [Next]_vars
               PROVE  BusyWorkerIsOnLiveAttempt'
    OBVIOUS
  <2>1. CASE Submit
    BY <2>1, SubmitWorkers
  <2>2. CASE Dequeue
    BY <2>2, DequeueWorkers
  <2>3. CASE Manage
    BY <2>3, ManageWorkers
  <2>4. CASE Report
    BY <2>4, AddSpanWorkers, UpdateAttemptWorkers DEF Report
  <2>5. CASE Healthcheck
    BY <2>5, HealthcheckWorkers
  <2>6. CASE \E v \in Workers : UpdateWorker(v)
    <3>1. PICK v \in Workers : UpdateWorker(v)
      BY <2>6
    <3>2. ASSUME NEW w \in Workers
          PROVE  workers'[w].status = "busy" => workers'[w] = workers[w]
      BY <3>1 DEF UpdateWorker, TypeOK, Worker
    <3>3. attempts' = attempts
      BY <3>1 DEF UpdateWorker
    <3>4. QED BY <3>2, <3>3, SameAttemptsWorkers DEF BusyWorkerIsOnLiveAttempt
  <2>7. CASE (\E r \in Rollouts : Elapse(r)) \/ UNCHANGED vars
    BY <2>7, SameAttemptsWorkers DEF Elapse, Age, FallSilent, vars, BusyWorkerIsOnLiveAttempt
  <2>8. QED BY <2>1, <2>2, <2>3, <2>4, <2>5, <2>6, <2>7 DEF Next
<1>3. QED BY <1>1, <1>2, TypeCorrect, AttemptInvariant, PTL DEF Spec

-----------------------------------------------------------------------------
\* The store implements WorkQueue.

NoAttemptOpened == \A r \in Rollouts : Len(attempts'[r]) = Len(attempts[r])

\* The rollouts in line, by name.
LEMMA LineFacts ==
  ASSUME TypeOK, QueueInv
  PROVE  /\ Line = {r \in Rollouts : IsQueuing(status[r])}
         /\ \A i \in Eligible : i \in Nat /\ i \in DOMAIN queue /\ queue[i] \in Line
         /\ \A i, j \in DOMAIN queue : queue[i] = queue[j] => i = j
<1>1. queue \in Seq(Rollouts) /\ DOMAIN queue = 1 .. Len(queue)
  BY DEF TypeOK
<1>2. \A i \in Eligible : i \in Nat /\ i \in DOMAIN queue /\ queue[i] \in Line
  BY <1>1 DEF Eligible, Line
<1>3. Line \subseteq {r \in Rollouts : IsQueuing(status[r])}
  BY <1>1 DEF Eligible, Line
<1>4. ASSUME NEW r \in Rollouts, IsQueuing(status[r])
      PROVE  r \in Line
  BY <1>1, <1>4 DEF QueueInv, NoLostRollout, ToSet, Eligible, Line
<1>5. QED BY <1>2, <1>3, <1>4 DEF QueueInv, NoDoubleEntry, IsInjective

\* Without double entries the positions put the rollouts that wait in line.
LEMMA LineIsOrdered == TypeOK /\ QueueInv => Queue!InLine(Line, AheadOf)
<1> SUFFICES ASSUME TypeOK, QueueInv PROVE Queue!InLine(Line, AheadOf)
  OBVIOUS
<1>1. /\ Line \subseteq Rollouts
      /\ \A i \in Eligible : i \in Nat /\ i \in DOMAIN queue /\ queue[i] \in Line
      /\ \A i, j \in DOMAIN queue : queue[i] = queue[j] => i = j
  BY LineFacts
<1>2. \A t \in Line : \E i \in Eligible : t = queue[i]
  BY DEF Line
<1>3. \A i, j \in Eligible : <<queue[i], queue[j]>> \in AheadOf <=> i < j
  <2> SUFFICES ASSUME NEW i \in Eligible, NEW j \in Eligible
               PROVE  <<queue[i], queue[j]>> \in AheadOf <=> i < j
    OBVIOUS
  <2>1. i < j => <<queue[i], queue[j]>> \in AheadOf
    BY <1>1 DEF AheadOf
  <2>2. ASSUME <<queue[i], queue[j]>> \in AheadOf PROVE i < j
    <3>1. PICK k \in Eligible, m \in Eligible :
            k < m /\ <<queue[i], queue[j]>> = <<queue[k], queue[m]>>
      BY <2>2 DEF AheadOf
    <3>2. i = k /\ j = m
      BY <3>1, <1>1
    <3>3. QED BY <3>1, <3>2
  <2>3. QED BY <2>1, <2>2
<1>4. AheadOf \subseteq Line \X Line
  BY <1>1 DEF AheadOf
<1>5. ASSUME NEW t \in Line, NEW u \in Line, t # u
      PROVE  <<t, u>> \in AheadOf <=> <<u, t>> \notin AheadOf
  <2>1. PICK i \in Eligible, j \in Eligible : t = queue[i] /\ u = queue[j]
    BY <1>2
  <2>2. i \in Nat /\ j \in Nat /\ i # j
    BY <1>1, <1>5, <2>1
  <2>3. QED BY <1>3, <2>1, <2>2
<1>6. ASSUME NEW t \in Line PROVE <<t, t>> \notin AheadOf
  BY <1>1, <1>2, <1>3
<1>7. ASSUME NEW t \in Line, NEW u \in Line, NEW v \in Line,
             <<t, u>> \in AheadOf, <<u, v>> \in AheadOf
      PROVE  <<t, v>> \in AheadOf
  <2>1. PICK i \in Eligible, j \in Eligible, k \in Eligible :
          t = queue[i] /\ u = queue[j] /\ v = queue[k]
    BY <1>2
  <2>2. i < j /\ j < k /\ i \in Nat /\ j \in Nat /\ k \in Nat
    BY <1>1, <1>3, <1>7, <2>1
  <2>3. i < k
    BY <2>2
  <2>4. QED BY <1>3, <2>1, <2>3
<1>8. QED BY <1>4, <1>5, <1>6, <1>7 DEF Queue!InLine

\* Rollouts begin to wait, in entries they had or at the end of the queue.
LEMMA Arrivals ==
  ASSUME StoreInv, StoreInv', NoAttemptOpened,
         \A i \in DOMAIN queue : i \in DOMAIN queue' /\ queue'[i] = queue[i],
         \A r \in Rollouts : IsQueuing(status[r]) => IsQueuing(status'[r])
  PROVE  Queue!Arrive
<1>1. /\ Line = {r \in Rollouts : IsQueuing(status[r])}
      /\ \A i \in Eligible : i \in Nat /\ i \in DOMAIN queue /\ queue[i] \in Line
  BY LineFacts DEF StoreInv
<1>2. /\ Line' = {r \in Rollouts : IsQueuing(status'[r])}
      /\ \A i, j \in DOMAIN queue' : queue'[i] = queue'[j] => i = j
  <2>1. (TypeOK /\ QueueInv =>
           /\ Line = {r \in Rollouts : IsQueuing(status[r])}
           /\ \A i, j \in DOMAIN queue : queue[i] = queue[j] => i = j)'
    BY LineFacts, PTL
  <2>2. QED BY <2>1 DEF StoreInv
<1>3. Queue!InLine(Line', AheadOf')
  <2>1. (TypeOK /\ QueueInv => Queue!InLine(Line, AheadOf))'
    BY LineIsOrdered, PTL
  <2>2. QED BY <2>1 DEF StoreInv
<1>4. Line \subseteq Line' /\ Line' \subseteq Rollouts
  BY <1>1, <1>2
<1>5. \A i \in Eligible : i \in Eligible'
  BY <1>1 DEF Eligible
<1>6. AheadOf \subseteq AheadOf' \cap (Line \X Line)
  BY <1>1, <1>5 DEF AheadOf, Eligible
<1>7. ASSUME NEW p \in AheadOf' \cap (Line \X Line)
      PROVE  p \in AheadOf
  <2>1. PICK i \in Eligible', j \in Eligible' : i < j /\ p = <<queue'[i], queue'[j]>>
    BY <1>7 DEF AheadOf
  <2>2. PICK k \in Eligible, m \in Eligible : p = <<queue[k], queue[m]>>
    BY <1>7 DEF Line
  <2>3. k = i /\ m = j
    BY <2>1, <2>2, <1>1, <1>2 DEF Eligible
  <2>4. QED BY <1>1, <1>4, <2>1, <2>2, <2>3 DEF AheadOf
<1>8. Queue!Among(Line, AheadOf') = AheadOf
  BY <1>6, <1>7 DEF Queue!Among
<1>9. QED BY <1>3, <1>4, <1>8 DEF Queue!Arrive, NoAttemptOpened

\* Rollouts stop waiting, and their entries stay.
LEMMA Withdrawals ==
  ASSUME StoreInv, NoAttemptOpened, queue' = queue,
         \A r \in Rollouts : IsQueuing(status'[r]) => IsQueuing(status[r])
  PROVE  Queue!Withdraw
<1>1. \A i \in DOMAIN queue : queue[i] \in Rollouts
  BY DEF StoreInv, TypeOK
<1>2. \A i \in Eligible' : i \in Eligible
  BY <1>1 DEF Eligible
<1>3. Line' \subseteq Line
  BY <1>2 DEF Line
<1>4. AheadOf' \subseteq AheadOf \cap (Line' \X Line')
  BY <1>2 DEF AheadOf, Line
<1>5. ASSUME NEW p \in AheadOf \cap (Line' \X Line')
      PROVE  p \in AheadOf'
  <2>1. PICK i \in Eligible, j \in Eligible : i < j /\ p = <<queue[i], queue[j]>>
    BY <1>5 DEF AheadOf
  <2>2. PICK k \in Eligible', m \in Eligible' : p = <<queue'[k], queue'[m]>>
    BY <1>5 DEF Line
  <2>3. i \in Eligible' /\ j \in Eligible'
    BY <2>1, <2>2 DEF Eligible
  <2>4. QED BY <1>1, <2>1, <2>3 DEF AheadOf, Eligible
<1>6. QED BY <1>3, <1>4, <1>5 DEF Queue!Withdraw, Queue!Among, NoAttemptOpened

\* The first entry whose rollout waits is claimed, the entries before it are dropped.
LEMMA Claims ==
  ASSUME StoreInv, NEW w \in Workers \cup {None}, ClaimFirst(w)
  PROVE  Queue!Claim
<1>1. PICK i \in Eligible : (\A j \in Eligible : i <= j) /\ Claim(i, w)
  BY DEF ClaimFirst
<1> DEFINE t == queue[i]
           rest == SubSeq(queue, i + 1, Len(queue))
<1>2. /\ \A j \in Eligible : j \in Nat /\ j \in DOMAIN queue /\ queue[j] \in Line
      /\ \A j, k \in DOMAIN queue : queue[j] = queue[k] => j = k
      /\ Line \subseteq Rollouts
  BY LineFacts DEF StoreInv
<1>3. /\ queue \in Seq(Rollouts) /\ DOMAIN queue = 1 .. Len(queue) /\ Len(queue) \in Nat
      /\ i \in 1 .. Len(queue) /\ t \in Rollouts
  BY <1>2 DEF StoreInv, TypeOK
<1>4. /\ status' = [status EXCEPT ![t] = "preparing"]
      /\ queue' = rest
      /\ attempts' = [attempts EXCEPT ![t] = Append(@, NewAttempt)]
  BY <1>1 DEF Claim, UpdateRolloutUnlocked, IsQueuing, InsertAttempt
<1>5. /\ DOMAIN queue' = 1 .. Len(queue) - i
      /\ \A j \in 1 .. Len(queue) - i : queue'[j] = queue[j + i]
  BY <1>3, <1>4
<1>6. \A j \in DOMAIN queue : queue[j] \in Rollouts
  BY <1>3
<1>7. ASSUME NEW j \in Eligible' PROVE j \in Nat /\ j + i \in Eligible /\ j + i # i /\ queue'[j] = queue[j + i]
  <2>1. j \in 1 .. Len(queue) - i /\ IsQueuing(status'[queue'[j]])
    BY <1>5 DEF Eligible
  <2>2. j \in Nat /\ j + i \in 1 .. Len(queue) /\ j + i # i /\ queue'[j] = queue[j + i]
    BY <2>1, <1>3, <1>5
  <2>3. queue[j + i] # t
    BY <2>2, <1>2, <1>3
  <2>4. IsQueuing(status[queue[j + i]])
    BY <2>1, <2>2, <2>3, <1>3, <1>4, <1>6 DEF StoreInv, TypeOK
  <2>5. QED BY <2>2, <2>4, <1>3 DEF Eligible
<1>8. ASSUME NEW j \in Eligible, j # i PROVE j - i \in Eligible' /\ queue'[j - i] = queue[j]
  <2>1. i < j /\ j \in 1 .. Len(queue)
    BY <1>1, <1>2, <1>3, <1>8
  <2>2. j - i \in 1 .. Len(queue) - i /\ (j - i) + i = j
    BY <2>1, <1>3
  <2>3. queue'[j - i] = queue[j]
    BY <2>2, <1>5
  <2>4. queue[j] # t /\ queue[j] \in Rollouts /\ IsQueuing(status[queue[j]])
    BY <1>2, <1>3, <1>8 DEF Eligible
  <2>5. status'[queue[j]] = status[queue[j]]
    BY <2>4, <1>4 DEF StoreInv, TypeOK
  <2>6. QED BY <2>2, <2>3, <2>4, <2>5, <1>5 DEF Eligible
<1>9. Line' = Line \ {t}
  <2>1. ASSUME NEW r \in Line' PROVE r \in Line /\ r # t
    <3>1. PICK j \in Eligible' : r = queue'[j]
      BY <2>1 DEF Line
    <3>2. QED BY <3>1, <1>2, <1>7
  <2>2. ASSUME NEW r \in Line, r # t PROVE r \in Line'
    <3>1. PICK j \in Eligible : r = queue[j]
      BY <2>2 DEF Line
    <3>2. QED BY <3>1, <2>2, <1>8 DEF Line
  <2>3. QED BY <2>1, <2>2
<1>10. ASSUME NEW u \in Line PROVE <<u, t>> \notin AheadOf
  <2> SUFFICES ASSUME NEW j \in Eligible, NEW k \in Eligible, j < k,
                      <<u, t>> = <<queue[j], queue[k]>>
               PROVE  FALSE
    BY DEF AheadOf
  <2>1. k = i
    BY <1>2
  <2>2. QED BY <2>1, <1>1, <1>2
<1>11. AheadOf' = AheadOf \cap ((Line \ {t}) \X (Line \ {t}))
  <2>1. ASSUME NEW p \in AheadOf' PROVE p \in AheadOf \cap ((Line \ {t}) \X (Line \ {t}))
    <3>1. PICK j \in Eligible', k \in Eligible' : j < k /\ p = <<queue'[j], queue'[k]>>
      BY <2>1 DEF AheadOf
    <3>2. /\ j + i \in Eligible /\ k + i \in Eligible /\ j + i < k + i
          /\ p = <<queue[j + i], queue[k + i]>>
      BY <3>1, <1>2, <1>3, <1>7
    <3>3. p \in AheadOf
      BY <3>2, <1>2 DEF AheadOf
    <3>4. queue'[j] \in Line \ {t} /\ queue'[k] \in Line \ {t}
      BY <3>1, <1>9 DEF Line
    <3>5. QED BY <3>1, <3>3, <3>4
  <2>2. ASSUME NEW p \in AheadOf \cap ((Line \ {t}) \X (Line \ {t})) PROVE p \in AheadOf'
    <3>1. PICK j \in Eligible, k \in Eligible : j < k /\ p = <<queue[j], queue[k]>>
      BY <2>2 DEF AheadOf
    <3>2. j # i /\ k # i
      BY <2>2, <3>1
    <3>3. /\ j - i \in Eligible' /\ k - i \in Eligible' /\ j - i < k - i
          /\ p = <<queue'[j - i], queue'[k - i]>>
      BY <3>1, <3>2, <1>2, <1>3, <1>8
    <3>4. p \in Rollouts \X Rollouts
      BY <2>2 DEF AheadOf
    <3>5. QED BY <3>3, <3>4 DEF AheadOf
  <2>3. QED BY <2>1, <2>2
<1>12. [r \in Rollouts |-> Len(attempts'[r])]
         = [[r \in Rollouts |-> Len(attempts[r])] EXCEPT ![t] = @ + 1]
  <2>1. \A r \in Rollouts : Len(attempts'[r]) = IF r = t THEN Len(attempts[r]) + 1 ELSE Len(attempts[r])
    <3>1. NewAttempt \in Attempt
      BY DEF NewAttempt, Attempt, AttemptStatus
    <3>2. QED BY <1>3, <1>4, <3>1 DEF StoreInv, TypeOK
  <2>2. QED BY <2>1, <1>3
<1>13. t \in Line
  BY <1>2
<1> HIDE DEF t
<1>14. QED BY <1>9, <1>10, <1>11, <1>12, <1>13 DEF Queue!Claim, Queue!Among

\* An update of one rollout brings it into the line or takes it out.
LEMMA UpdateMapsToLine ==
  ASSUME StoreInv, StoreInv', NoAttemptOpened, NEW r \in Rollouts, NEW s \in RolloutStatus,
         UpdateRolloutUnlocked(r, s, queue)
  PROVE  Queue!Next
<1>1. /\ queue \in Seq(Rollouts) /\ DOMAIN queue = 1 .. Len(queue) /\ Len(queue) \in Nat
      /\ status' = [status EXCEPT ![r] = s]
      /\ status \in [Rollouts -> RolloutStatus \cup {"absent"}]
  BY DEF StoreInv, TypeOK, UpdateRolloutUnlocked
<1>2. CASE IsQueuing(s)
  <2>1. queue' = queue \/ queue' = Append(queue, r)
    BY DEF UpdateRolloutUnlocked
  <2>2. \A i \in DOMAIN queue : i \in DOMAIN queue' /\ queue'[i] = queue[i]
    BY <1>1, <2>1
  <2>3. \A x \in Rollouts : IsQueuing(status[x]) => IsQueuing(status'[x])
    BY <1>1, <1>2
  <2>4. QED BY <2>2, <2>3, Arrivals DEF Queue!Next
<1>3. CASE ~IsQueuing(s)
  <2>1. queue' = queue
    BY <1>3 DEF UpdateRolloutUnlocked
  <2>2. \A x \in Rollouts : IsQueuing(status'[x]) => IsQueuing(status[x])
    BY <1>1, <1>3
  <2>3. QED BY <2>1, <2>2, Withdrawals DEF Queue!Next
<1>4. QED BY <1>2, <1>3

LEMMA SubmitMaps ==
  ASSUME StoreInv, StoreInv', AttemptInv, Submit
  PROVE  Queue!Next
<1>1. PICK r \in Rollouts, c \in Configs : StartRollout(r, c) \/ EnqueueRollout(r, c)
  BY DEF Submit
<1>2. /\ status[r] = "absent" /\ attempts[r] = <<>>
      /\ queue \in Seq(Rollouts) /\ DOMAIN queue = 1 .. Len(queue) /\ Len(queue) \in Nat
      /\ status \in [Rollouts -> RolloutStatus \cup {"absent"}]
  BY <1>1 DEF StartRollout, EnqueueRollout, AttemptInv, RolloutInv, StoreInv, TypeOK
<1>3. CASE EnqueueRollout(r, c)
  <2>1. queue' = Append(queue, r) /\ status' = [status EXCEPT ![r] = "queuing"]
    BY <1>3 DEF EnqueueRollout
  <2>2. \A i \in DOMAIN queue : i \in DOMAIN queue' /\ queue'[i] = queue[i]
    BY <1>2, <2>1
  <2>3. \A x \in Rollouts : IsQueuing(status[x]) => IsQueuing(status'[x])
    BY <1>2, <2>1 DEF IsQueuing
  <2>4. NoAttemptOpened
    BY <1>3 DEF EnqueueRollout, NoAttemptOpened
  <2>5. QED BY <2>2, <2>3, <2>4, Arrivals DEF Queue!Next
<1>4. CASE StartRollout(r, c)
  <2>1. /\ queue' = queue /\ status' = [status EXCEPT ![r] = "preparing"]
        /\ attempts' = [attempts EXCEPT ![r] = <<NewAttempt>>]
    BY <1>4 DEF StartRollout
  <2>2. r \notin Line
    BY <1>2, LineFacts DEF StoreInv, IsQueuing
  <2>3. \A i \in DOMAIN queue : IsQueuing(status'[queue[i]]) <=> IsQueuing(status[queue[i]])
    BY <1>2, <2>1 DEF IsQueuing
  <2>4. Eligible' = Eligible
    BY <2>1, <2>3 DEF Eligible
  <2>5. Line' = Line /\ AheadOf' = AheadOf
    BY <2>1, <2>4 DEF Line, AheadOf
  <2>6. \A x \in Rollouts : Len(attempts'[x]) = IF x = r THEN 1 ELSE Len(attempts[x])
    BY <2>1 DEF StoreInv, TypeOK
  <2>7. [x \in Rollouts |-> Len(attempts'[x])]
          = [[x \in Rollouts |-> Len(attempts[x])] EXCEPT ![r] = 1]
    BY <2>6
  <2>8. [x \in Rollouts |-> Len(attempts[x])][r] = 0
    BY <1>2
  <2>9. QED BY <2>2, <2>5, <2>7, <2>8 DEF Queue!Next, Queue!Bypass
<1>5. QED BY <1>1, <1>3, <1>4

LEMMA DequeueMaps ==
  ASSUME StoreInv, Dequeue
  PROVE  Queue!Next
<1>1. PICK w \in Workers \cup {None} : DequeueRollout(w)
  BY DEF Dequeue
<1>2. CASE ClaimFirst(w)
  BY <1>2, Claims DEF Queue!Next
<1>3. CASE FindNothing(w)
  <2>1. Eligible = {} /\ queue' = <<>> /\ UNCHANGED <<status, attempts>>
    BY <1>3 DEF FindNothing
  <2>2. Eligible' = {}
    BY <2>1 DEF Eligible
  <2>3. Line = {} /\ Line' = {} /\ AheadOf = {} /\ AheadOf' = {}
    BY <2>1, <2>2 DEF Line, AheadOf
  <2>4. QED BY <2>1, <2>3 DEF Queue!Next, Queue!Withdraw, Queue!Among
<1>4. QED BY <1>1, <1>2, <1>3 DEF DequeueRollout

LEMMA ManageMaps ==
  ASSUME ~ManualAttempts, StoreInv, StoreInv', Manage
  PROVE  Queue!Next
<1>1. PICK r \in Rollouts, s \in RolloutStatus, c \in Config : UpdateRollout(r, s, c)
  <2>1. PICK r \in Rollouts :
          \/ \E s \in UpdateStatuses : UpdateRollout(r, s, config[r])
          \/ \E c \in Configs : UpdateRollout(r, status[r], c)
    BY DEF Manage
  <2>2. config[r] \in Config
    BY DEF StoreInv, TypeOK
  <2>3. CASE \E s \in UpdateStatuses : UpdateRollout(r, s, config[r])
    BY <2>2, <2>3, StoreAssumption
  <2>4. CASE \E c \in Configs : UpdateRollout(r, status[r], c)
    <3>1. status[r] \in RolloutStatus
      BY <2>4 DEF UpdateRollout, StoreInv, TypeOK
    <3>2. QED BY <2>4, <3>1, StoreAssumption
  <2>5. QED BY <2>1, <2>3, <2>4
<1>2. NoAttemptOpened /\ UpdateRolloutUnlocked(r, s, queue)
  BY <1>1 DEF UpdateRollout, NoAttemptOpened
<1>3. QED BY <1>2, UpdateMapsToLine

LEMMA UpdateAttemptMaps ==
  ASSUME StoreInv, StoreInv', NEW r \in Rollouts, NEW n \in DOMAIN attempts[r],
         NEW s \in ReportStatuses \cup {Unset}, NEW w \in Workers \cup {Unset},
         NEW beat \in BOOLEAN, UpdateAttempt(r, n, s, w, beat)
  PROVE  Queue!Next
<1> DEFINE a == UpdatedAttempt(r, n, s, w)
<1>1. a \in Attempt
  BY UpdatedType DEF StoreInv
<1>2. NoAttemptOpened
  <2>1. attempts' = [attempts EXCEPT ![r] = [attempts[r] EXCEPT ![n] = a]]
    BY DEF UpdateAttempt
  <2> HIDE DEF a
  <2>2. QED BY <1>1, <2>1, RewriteFacts DEF Rewrite, NoAttemptOpened, StoreInv
<1>3. CASE n = Len(attempts[r])
  <2>1. PropagateStatus(a.status, n, config[r]) \in RolloutStatus
    BY <1>1, PropagateType DEF Attempt
  <2>2. UpdateRolloutUnlocked(r, PropagateStatus(a.status, n, config[r]), queue)
    BY <1>3 DEF UpdateAttempt, FollowLatest
  <2>3. QED BY <1>2, <2>1, <2>2, UpdateMapsToLine
<1>4. CASE n # Len(attempts[r])
  <2>1. UNCHANGED <<status, queue>>
    BY <1>4 DEF UpdateAttempt, FollowLatest
  <2>2. QED BY <1>2, <2>1, Withdrawals DEF Queue!Next
<1>5. QED BY <1>3, <1>4

LEMMA AddSpanMaps ==
  ASSUME StoreInv, NEW r \in Rollouts, NEW n \in DOMAIN attempts[r], AddSpan(r, n)
  PROVE  Queue!Next
<1>1. queue' = queue
  BY DEF AddSpan
<1>2. \A x \in Rollouts : IsQueuing(status'[x]) => IsQueuing(status[x])
  BY DEF AddSpan, ReviveRollout, Revived, StoreInv, TypeOK, IsQueuing
<1>3. NoAttemptOpened
  BY DEF AddSpan, NoAttemptOpened, StoreInv, TypeOK
<1>4. QED BY <1>1, <1>2, <1>3, Withdrawals DEF Queue!Next

\* The watchdog reviews running rollouts only: none of those in line.
LEMMA HealthcheckMaps ==
  ASSUME StoreInv, StoreInv', Healthcheck
  PROVE  Queue!Next
<1>1. NoAttemptOpened
  BY HealthcheckFacts DEF NoAttemptOpened, StoreInv
<1>2. \A r \in Rollouts : IsQueuing(status[r]) => IsQueuing(status'[r])
  <2>1. \A r \in Reviewed : IsRunning(status[r])
    BY ReviewedFacts DEF StoreInv, CacheInv, RunningCacheExact, Watched
  <2>2. \A r \in Rollouts \ Reviewed : status'[r] = status[r]
    BY ReviewedFacts DEF Healthcheck, StoreInv
  <2>3. QED BY <2>1, <2>2 DEF IsQueuing, IsRunning
<1>3. \A i \in DOMAIN queue : i \in DOMAIN queue' /\ queue'[i] = queue[i]
  <2> DEFINE requeued == {r \in Reviewed : IsQueuing(ReviewedStatus(r))} \ ToSet(queue)
  <2>1. requeued \subseteq Rollouts /\ IsFiniteSet(requeued)
    BY ReviewedFacts, StoreAssumption, FS_Subset DEF StoreInv
  <2>2. \E order \in SetToSeqs(requeued) : queue' = queue \o order
    <3>1. {r \in Reviewed : IsQueuing([x \in Rollouts |-> ReviewedStatus(x)][r])} \ ToSet(queue) = requeued
      BY ReviewedFacts DEF StoreInv
    <3>2. QED BY <3>1 DEF Healthcheck
  <2> HIDE DEF requeued
  <2>3. PICK order : order \in Seq(Rollouts) /\ queue' = queue \o order
    BY <2>1, <2>2, ListingFacts
  <2>4. queue \in Seq(Rollouts)
    BY DEF StoreInv, TypeOK
  <2>5. QED BY <2>3, <2>4
<1>4. QED BY <1>1, <1>2, <1>3, Arrivals DEF Queue!Next

\* What runners see of the queue is first come first served, one rollout and one attempt
\* at a time, whatever is enqueued, cancelled, sent back, retried and revived meanwhile
\* (dequeue_rollout), as long as nobody calls start_attempt by hand.
THEOREM StoreImplementsWorkQueue ==
  ASSUME ~ManualAttempts
  PROVE  Spec => ImplementsWorkQueue
<1>1. Init => Queue!Init
  <2> SUFFICES ASSUME Init PROVE Queue!Init
    OBVIOUS
  <2>1. Eligible = {}
    BY DEF Init, Eligible
  <2>2. Line = {} /\ AheadOf = {}
    BY <2>1 DEF Line, AheadOf
  <2>3. QED BY <2>2 DEF Init, Queue!Init
<1>2. StoreInv /\ StoreInv' /\ AttemptInv /\ [Next]_vars => [Queue!Next]_(Queue!vars)
  <2> SUFFICES ASSUME StoreInv, StoreInv', AttemptInv, [Next]_vars
               PROVE  [Queue!Next]_(Queue!vars)
    OBVIOUS
  <2>1. CASE UNCHANGED <<status, queue, attempts>>
    <3>1. Eligible' = Eligible
      BY <2>1 DEF Eligible
    <3>2. QED BY <2>1, <3>1 DEF Line, AheadOf, Queue!vars
  <2>2. ASSUME NEW w \in Workers, UpdateWorker(w) PROVE UNCHANGED <<status, queue, attempts>>
    BY <2>2 DEF UpdateWorker
  <2>3. ASSUME NEW r \in Rollouts, Elapse(r) PROVE UNCHANGED <<status, queue, attempts>>
    BY <2>3 DEF Elapse, Age, FallSilent
  <2>4. CASE Report
    BY <2>4, AddSpanMaps, UpdateAttemptMaps DEF Report
  <2>5. CASE UNCHANGED vars
    BY <2>1, <2>5 DEF vars
  <2>6. QED
    BY <2>1, <2>2, <2>3, <2>4, <2>5, SubmitMaps, DequeueMaps, ManageMaps, HealthcheckMaps
    DEF Next
<1>3. QED
  BY <1>1, <1>2, StoreInvariant, AttemptInvariant, PTL DEF Spec, ImplementsWorkQueue, Queue!Spec
=============================================================================
