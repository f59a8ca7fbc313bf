---------------------------- MODULE TrainingProofs ----------------------------
(***************************************************************************)
(* Proofs about what trains and what it runs in: VerlDaemon, for every     *)
(* sequence of batches and every number of clients and of lost tasks (no   *)
(* task is forgotten while the daemon waits for it, and a batch ends with  *)
(* its own results), BeamSearch, for every beam, branching, number of      *)
(* rounds and set of scores (the search reports the best prompt it has     *)
(* evaluated on the whole validation set), and Execution, for any number   *)
(* of runners and of Ctrl+C (nobody is left behind or told for no reason). *)
(***************************************************************************)
EXTENDS Execution, VerlDaemon, BeamSearch, SequenceLemmas

-----------------------------------------------------------------------------
\* Facts about sequences without repetition.

\* One element more.
LEMMA Longer ==
  ASSUME NEW S, NEW q \in Seq(S), NEW e \in S, IsInjective(q), e \notin ToSet(q)
  PROVE  /\ Append(q, e) \in Seq(S)
         /\ ToSet(Append(q, e)) = ToSet(q) \cup {e}
         /\ IsInjective(Append(q, e))
<1>1. DOMAIN Append(q, e) = 1 .. Len(q) + 1 /\ DOMAIN q = 1 .. Len(q) /\ Len(q) \in Nat
  OBVIOUS
<1>2. /\ \A i \in 1 .. Len(q) : Append(q, e)[i] = q[i]
      /\ Append(q, e)[Len(q) + 1] = e
  OBVIOUS
<1>3. ToSet(Append(q, e)) = ToSet(q) \cup {e}
  BY <1>1, <1>2 DEF ToSet
<1>4. IsInjective(Append(q, e))
  BY <1>1, <1>2 DEF ToSet, IsInjective
<1>5. QED
  BY <1>3, <1>4

\* One less: the first.
LEMMA Shorter ==
  ASSUME NEW S, NEW q \in Seq(S), q # <<>>, IsInjective(q)
  PROVE  /\ Tail(q) \in Seq(S) /\ Head(q) \in S
         /\ ToSet(q) = ToSet(Tail(q)) \cup {Head(q)}
         /\ Head(q) \notin ToSet(Tail(q))
         /\ IsInjective(Tail(q))
<1>1. /\ Tail(q) \in Seq(S) /\ Len(q) \in Nat \ {0} /\ Len(Tail(q)) = Len(q) - 1
      /\ DOMAIN q = 1 .. Len(q) /\ DOMAIN Tail(q) = 1 .. Len(q) - 1
      /\ Head(q) = q[1] /\ Head(q) \in S
      /\ \A i \in 1 .. Len(q) - 1 : Tail(q)[i] = q[i + 1]
  BY HeadTailProperties, EmptySeq
<1>2. ASSUME NEW i \in DOMAIN q, i # 1
      PROVE  i - 1 \in DOMAIN Tail(q) /\ Tail(q)[i - 1] = q[i]
  <2>1. i - 1 \in 1 .. Len(q) - 1 /\ (i - 1) + 1 = i
    BY <1>1, <1>2
  <2>2. QED BY <1>1, <2>1
<1>3. ToSet(q) = ToSet(Tail(q)) \cup {Head(q)}
  <2>1. ToSet(q) \subseteq ToSet(Tail(q)) \cup {Head(q)}
    <3>1. ASSUME NEW i \in DOMAIN q
          PROVE  q[i] \in {Tail(q)[j] : j \in DOMAIN Tail(q)} \cup {Head(q)}
      <4>1. CASE i = 1 BY <1>1, <4>1
      <4>2. CASE i # 1 BY <1>2, <4>2
      <4>3. QED BY <4>1, <4>2
    <3>2. QED BY <3>1 DEF ToSet
  <2>2. \A i \in DOMAIN Tail(q) : i + 1 \in DOMAIN q /\ Tail(q)[i] = q[i + 1]
    BY <1>1
  <2>3. ToSet(Tail(q)) \subseteq ToSet(q)
    BY <2>2 DEF ToSet
  <2>4. Head(q) \in ToSet(q)
    BY <1>1 DEF ToSet
  <2>5. QED BY <2>1, <2>3, <2>4
<1>4. Head(q) \notin ToSet(Tail(q)) /\ IsInjective(Tail(q))
  BY <1>1 DEF ToSet, IsInjective
<1>5. QED
  BY <1>1, <1>3, <1>4

\* Two in a row.
LEMMA Joined ==
  ASSUME NEW S, NEW q \in Seq(S), NEW r \in Seq(S), IsInjective(q), IsInjective(r),
         ToSet(q) \cap ToSet(r) = {}
  PROVE  /\ q \o r \in Seq(S)
         /\ ToSet(q \o r) = ToSet(q) \cup ToSet(r)
         /\ IsInjective(q \o r)
<1> DEFINE b == q \o r
<1>1. /\ b \in Seq(S) /\ Len(q) \in Nat /\ Len(r) \in Nat
      /\ DOMAIN b = 1 .. Len(q) + Len(r) /\ DOMAIN q = 1 .. Len(q) /\ DOMAIN r = 1 .. Len(r)
      /\ \A i \in DOMAIN b : b[i] = IF i <= Len(q) THEN q[i] ELSE r[i - Len(q)]
  BY ConcatProperties
<1> HIDE DEF b
<1>2. ASSUME NEW i \in DOMAIN b
      PROVE  \/ i \in DOMAIN q /\ b[i] = q[i]
             \/ i \notin DOMAIN q /\ i - Len(q) \in DOMAIN r /\ b[i] = r[i - Len(q)]
  BY <1>1
<1>3. \A i \in DOMAIN q : i \in DOMAIN b /\ b[i] = q[i]
  BY <1>1
<1>4. \A i \in DOMAIN r : Len(q) + i \in DOMAIN b /\ b[Len(q) + i] = r[i]
  BY <1>1
<1>5. ToSet(b) = ToSet(q) \cup ToSet(r)
  BY <1>2, <1>3, <1>4 DEF ToSet
<1>6. ASSUME NEW i \in DOMAIN b, NEW j \in DOMAIN b, b[i] = b[j]
      PROVE  i = j
  <2>1. CASE i \in DOMAIN q /\ j \in DOMAIN q
    BY <1>2, <1>6, <2>1 DEF IsInjective
  <2>2. CASE i \notin DOMAIN q /\ j \notin DOMAIN q
    <3>1. i - Len(q) = j - Len(q)
      BY <1>2, <1>6, <2>2 DEF IsInjective
    <3>2. QED BY <1>1, <3>1
  <2>3. CASE i \in DOMAIN q /\ j \notin DOMAIN q
    BY <1>2, <1>6, <2>3 DEF ToSet
  <2>4. CASE i \notin DOMAIN q /\ j \in DOMAIN q
    BY <1>2, <1>6, <2>4 DEF ToSet
  <2>5. QED BY <2>1, <2>2, <2>3, <2>4
<1>7. IsInjective(b)
  BY <1>6 DEF IsInjective
<1>8. QED
  BY <1>1, <1>5, <1>7 DEF b

\* A finite set as a sequence.
LEMMA Listed ==
  ASSUME NEW T, NEW S \in SUBSET T, IsFiniteSet(S)
  PROVE  SetToSeq(S) \in Seq(T) /\ ToSet(SetToSeq(S)) = S /\ IsInjective(SetToSeq(S))
<1> DEFINE n == Cardinality(S)
           f == SetToSeq(S)
<1>1. n \in Nat /\ ExistsBijection(1 .. n, S)
  BY FS_CardinalityType
<1>2. PICK g : g \in Bijection(1 .. n, S)
  BY <1>1 DEF ExistsBijection
<1>3. g \in [1 .. n -> S] /\ IsInjective(g)
  BY <1>2 DEF Bijection, Injection, IsInjective
<1>4. f \in [1 .. n -> S] /\ IsInjective(f)
  BY <1>3 DEF SetToSeq
<1> HIDE DEF f
<1>5. f \in Seq(T) /\ DOMAIN f = 1 .. n
  BY <1>1, <1>4
<1>6. ToSet(f) \subseteq S
  BY <1>4, <1>5 DEF ToSet
<1>7. f \in Bijection(1 .. n, ToSet(f))
  BY <1>4, <1>5 DEF Bijection, Injection, Surjection, ToSet, IsInjective
<1>8. Cardinality(ToSet(f)) = n
  BY <1>1, <1>7, FS_CountingElements DEF ExistsBijection
<1>9. ToSet(f) = S
  BY <1>6, <1>8, FS_Subset
<1>10. QED
  BY <1>4, <1>5, <1>9 DEF f

-----------------------------------------------------------------------------
\* The inductive invariant.  What the daemon knows is of its batch, and all of it once
\* the batch is queued, ...
BatchInv ==
  /\ mode \in {"v0", "v1"}
  /\ batch \in 0 .. Len(Batches)
  /\ known \subseteq (IF batch = 0 THEN {} ELSE Batches[batch])
  /\ IsFiniteSet(known) /\ total = Cardinality(known)
  /\ done \subseteq known
  /\ doing \in {"idle", "setting", "running", "finished"}
  /\ batch = 0 => doing = "idle"
  /\ doing \in {"running", "finished"} => known = Batches[batch]
  /\ doing = "finished" => done = known

\* ... no task that was not issued is anywhere, ...
Issued == {t \in Tasks : t \in known \/ \E i \in 1 .. batch - 1 : t \in Batches[i]}

ServerInv ==
  /\ queue \in Seq(Tasks) /\ ToSet(queue) \subseteq Issued
  /\ processing \subseteq Issued
  /\ late \subseteq processing /\ IsFiniteSet(late)
  /\ claim \in [Clients -> Issued \cup {Idle}]

\* ... and no task that was issued is forgotten.
DaemonInv == BatchInv /\ ServerInv /\ TasksAreKept

\* The batches are sets of tasks.
LEMMA BatchesAreTasks ==
  /\ Len(Batches) \in Nat /\ DOMAIN Batches = 1 .. Len(Batches)
  /\ \A i \in 1 .. Len(Batches) : Batches[i] \subseteq Tasks
<1>1. Batches \in Seq(SUBSET Tasks)
  BY DaemonAssumption
<1>2. QED
  BY <1>1

LEMMA DaemonInvInit == DaemonInit => DaemonInv
<1> SUFFICES ASSUME DaemonInit PROVE DaemonInv
  OBVIOUS
<1>1. /\ mode \in {"v0", "v1"} /\ batch = 0 /\ doing = "idle" /\ known = {} /\ total = 0
      /\ done = {} /\ queue = <<>> /\ processing = {} /\ late = {}
      /\ claim = [c \in Clients |-> Idle]
  BY DEF DaemonInit
<1>2. queue \in Seq(Tasks) /\ ToSet(queue) = {} /\ IsInjective(queue)
  BY <1>1 DEF ToSet, IsInjective
<1>3. IsFiniteSet({}) /\ Cardinality({}) = 0
  BY FS_EmptySet
<1>4. BatchInv
  BY <1>1, <1>3, BatchesAreTasks DEF BatchInv
<1>5. ServerInv /\ TasksAreKept
  BY <1>1, <1>2, <1>3 DEF ServerInv, TasksAreKept
<1>6. QED
  BY <1>4, <1>5 DEF DaemonInv

\* The next batch: what was issued stays issued, and nothing is waited for.
LEMMA SetUpPreserves ==
  ASSUME DaemonInv, SetUp
  PROVE  DaemonInv'
<1>1. /\ batch' = batch + 1 /\ batch < Len(Batches) /\ doing' = "setting"
      /\ known' = {} /\ total' = 0 /\ done' = {}
      /\ UNCHANGED <<mode, queue, processing, late, completed, claim>>
  BY DEF SetUp, serverSide
<1>2. IsFiniteSet({}) /\ Cardinality({}) = 0
  BY FS_EmptySet
<1>3. batch \in Nat /\ batch \in 0 .. Len(Batches) /\ Len(Batches) \in Nat
  BY BatchesAreTasks DEF DaemonInv, BatchInv
<1>4. BatchInv'
  BY <1>1, <1>2, <1>3 DEF DaemonInv, BatchInv
<1>5. Issued \subseteq Issued'
  <2>1. \A i \in 1 .. batch - 1 : i \in 1 .. batch' - 1
    BY <1>1, <1>3
  <2>2. batch # 0 => known \subseteq Batches[batch] /\ batch \in 1 .. batch' - 1
    BY <1>1, <1>3 DEF DaemonInv, BatchInv
  <2>3. batch = 0 => known = {}
    BY DEF DaemonInv, BatchInv
  <2>4. QED
    BY <2>1, <2>2, <2>3 DEF Issued
<1>6. ServerInv'
  BY <1>1, <1>5 DEF DaemonInv, ServerInv
<1>7. TasksAreKept'
  BY <1>1 DEF DaemonInv, TasksAreKept
<1>8. QED
  BY <1>4, <1>6, <1>7 DEF DaemonInv

\* A task that is queued is new: the batches are disjoint.
LEMMA QueueTaskPreserves ==
  ASSUME DaemonInv, QueueTask
  PROVE  DaemonInv'
<1>1. PICK t \in Batches[batch] \ known :
        /\ queue' = Append(queue, t)
        /\ known' = known \cup {t}
        /\ total' = total + 1
        /\ doing' = IF known' = Batches[batch] THEN "running" ELSE doing
  BY DEF QueueTask, AddTask
<1>2. /\ doing = "setting"
      /\ UNCHANGED <<mode, batch, done, processing, late, completed, claim>>
  BY DEF QueueTask, AddTask
<1>3. batch \in 1 .. Len(Batches) /\ Len(Batches) \in Nat /\ t \in Tasks
  BY <1>2, BatchesAreTasks DEF DaemonInv, BatchInv
<1>4. BatchInv'
  <2>1. IsFiniteSet(known') /\ Cardinality(known') = Cardinality(known) + 1
    BY <1>1, FS_AddElement DEF DaemonInv, BatchInv
  <2>2. QED
    BY <1>1, <1>2, <1>3, <2>1 DEF DaemonInv, BatchInv
<1>5. t \notin Issued
  <2>1. ASSUME NEW i \in 1 .. batch - 1 PROVE t \notin Batches[i]
    <3>1. i # batch /\ i \in DOMAIN Batches /\ batch \in DOMAIN Batches
      BY <1>3, BatchesAreTasks
    <3>2. Batches[i] \cap Batches[batch] = {}
      BY <3>1, DaemonAssumption
    <3>3. QED BY <1>1, <3>2
  <2>2. QED BY <1>1, <2>1 DEF Issued
<1>6. Issued' = Issued \cup {t}
  BY <1>1, <1>2, <1>3 DEF Issued
<1>7. t \notin ToSet(queue) /\ t \notin processing /\ IsInjective(queue) /\ queue \in Seq(Tasks)
  BY <1>5 DEF DaemonInv, ServerInv, TasksAreKept
<1>8. queue' \in Seq(Tasks) /\ ToSet(queue') = ToSet(queue) \cup {t} /\ IsInjective(queue')
  BY <1>1, <1>3, <1>7, Longer
<1>9. ServerInv'
  BY <1>2, <1>6, <1>8 DEF DaemonInv, ServerInv
<1>10. TasksAreKept'
  BY <1>1, <1>2, <1>7, <1>8 DEF DaemonInv, TasksAreKept
<1>11. QED
  BY <1>4, <1>9, <1>10 DEF DaemonInv

\* The daemon's other steps.  It has all the results when it has as many as it queued,
\* as they are results of its own tasks.
LEMMA DaemonStepPreserves ==
  ASSUME DaemonInv, Collect \/ AllFinished \/ TakeBatch
  PROVE  DaemonInv'
<1>1. /\ UNCHANGED <<mode, batch, known, total, queue, processing, late, claim>>
      /\ done \subseteq done'
  BY DEF Collect, AllFinished, TakeBatch, serverSide
<1>2. Issued' = Issued
  BY <1>1 DEF Issued
<1>3. ServerInv'
  BY <1>1, <1>2 DEF DaemonInv, ServerInv
<1>4. CASE Collect
  <2>1. /\ doing' = doing /\ doing = "running" /\ done' = done \cup (completed \cap known)
        /\ completed' = IF mode = "v0" THEN {} ELSE completed
    BY <1>4 DEF Collect, Own
  <2>2. BatchInv'
    BY <1>1, <2>1 DEF DaemonInv, BatchInv
  <2>3. TasksAreKept'
    <3>1. ASSUME NEW u \in known \ done'
          PROVE  /\ u \in ToSet(queue) \cup processing \cup {claim[c] : c \in Clients}
                 /\ mode = "v0" => u \in ToSet(queue) \cup processing
      BY <2>1 DEF DaemonInv, TasksAreKept
    <3>2. QED
      BY <1>1, <3>1 DEF DaemonInv, TasksAreKept
  <2>4. QED
    BY <1>3, <2>2, <2>3 DEF DaemonInv
<1>5. CASE AllFinished \/ TakeBatch
  <2>1. /\ UNCHANGED <<done, completed>>
        /\ \/ doing = "running" /\ Cardinality(done) >= total /\ doing' = "finished"
           \/ doing' = "idle"
    BY <1>5 DEF AllFinished, TakeBatch, serverSide
  <2>2. doing' = "finished" => done = known
    <3>1. IsFiniteSet(known) /\ done \subseteq known /\ total = Cardinality(known)
      BY DEF DaemonInv, BatchInv
    <3>2. /\ Cardinality(done) <= Cardinality(known)
          /\ Cardinality(known) = Cardinality(done) => known = done
          /\ Cardinality(done) \in Nat /\ Cardinality(known) \in Nat
      BY <3>1, FS_Subset, FS_CardinalityType
    <3>3. QED
      BY <2>1, <3>1, <3>2
  <2>3. BatchInv'
    BY <1>1, <2>1, <2>2 DEF DaemonInv, BatchInv
  <2>4. TasksAreKept'
    BY <1>1, <2>1 DEF DaemonInv, TasksAreKept
  <2>5. QED
    BY <1>3, <2>3, <2>4 DEF DaemonInv
<1>6. QED
  BY <1>4, <1>5

\* A claim: late tasks are queued again first, and were in nobody's queue before.
LEMMA NextTaskPreserves ==
  ASSUME DaemonInv, NEW c \in Clients, NextTask(c)
  PROVE  DaemonInv'
<1> DEFINE q == Requeued
<1>1. /\ claim[c] = Idle /\ q # <<>> /\ queue' = Tail(q) /\ late' = {}
      /\ processing' = IF mode = "v0" THEN (processing \ late) \cup {Head(q)} ELSE processing
      /\ claim' = [claim EXCEPT ![c] = Head(q)]
      /\ UNCHANGED <<mode, batch, doing, known, total, done, completed>>
  BY DEF NextTask, daemonSide
<1>2. /\ queue \in Seq(Tasks) /\ IsInjective(queue) /\ ToSet(queue) \cap processing = {}
      /\ ToSet(queue) \subseteq Issued /\ processing \subseteq Issued
      /\ late \subseteq processing /\ IsFiniteSet(late)
      /\ claim \in [Clients -> Issued \cup {Idle}]
  BY DEF DaemonInv, ServerInv, TasksAreKept
<1>3. Issued \subseteq Tasks
  BY DEF Issued
<1>4. /\ q \in Seq(Tasks) /\ IsInjective(q)
      /\ ToSet(q) = ToSet(queue) \cup (IF mode = "v0" THEN late ELSE {})
  <2>1. CASE mode = "v0"
    <3>1. late \in SUBSET Tasks
      BY <1>2, <1>3
    <3>2. /\ SetToSeq(late) \in Seq(Tasks) /\ ToSet(SetToSeq(late)) = late
          /\ IsInjective(SetToSeq(late))
      BY <1>2, <3>1, Listed
    <3>3. ToSet(queue) \cap ToSet(SetToSeq(late)) = {}
      BY <1>2, <3>2
    <3>4. q = queue \o SetToSeq(late)
      BY <2>1 DEF Requeued
    <3>5. QED
      BY <1>2, <2>1, <3>2, <3>3, <3>4, Joined
  <2>2. CASE mode # "v0"
    BY <1>2, <2>2 DEF Requeued
  <2>3. QED BY <2>1, <2>2
<1> HIDE DEF q
<1>5. /\ queue' \in Seq(Tasks) /\ IsInjective(queue')
      /\ ToSet(q) = ToSet(queue') \cup {Head(q)}
      /\ Head(q) \notin ToSet(queue')
  BY <1>1, <1>4, Shorter
<1>6. Issued' = Issued /\ Head(q) \in Issued
  BY <1>1, <1>2, <1>4, <1>5 DEF Issued
<1>7. BatchInv'
  BY <1>1 DEF DaemonInv, BatchInv
<1>8. ServerInv'
  <2>1. IsFiniteSet({})
    BY FS_EmptySet
  <2>2. ToSet(queue') \subseteq Issued /\ processing' \subseteq Issued
    BY <1>1, <1>2, <1>4, <1>5, <1>6
  <2>3. claim' \in [Clients -> Issued \cup {Idle}]
    BY <1>1, <1>2, <1>6
  <2>4. QED
    BY <1>1, <1>5, <1>6, <2>1, <2>2, <2>3 DEF ServerInv
<1>9. TasksAreKept'
  <2>1. ToSet(queue') \cap processing' = {}
    BY <1>1, <1>2, <1>4, <1>5
  <2>2. \A d \in Clients : d # c => claim'[d] = claim[d]
    BY <1>1
  <2>3. claim'[c] = Head(q)
    BY <1>1, <1>2
  <2>4. Idle \notin known
    BY BatchesAreTasks, DaemonAssumption DEF DaemonInv, BatchInv
  <2>5. ASSUME NEW u \in known \ done
        PROVE  /\ u \in ToSet(queue') \cup processing' \cup completed
                          \cup {claim'[d] : d \in Clients}
               /\ mode = "v0" => u \in ToSet(queue') \cup processing' \cup completed
    <3>1. CASE mode = "v0"
      BY <1>1, <1>4, <1>5, <3>1 DEF DaemonInv, TasksAreKept
    <3>2. CASE mode # "v0"
      <4>1. \/ u \in ToSet(queue) \cup processing \cup completed
            \/ \E d \in Clients : u = claim[d]
        BY DEF DaemonInv, TasksAreKept
      <4>2. CASE u \in ToSet(queue) \cup processing \cup completed
        BY <1>1, <1>4, <1>5, <2>3, <3>2, <4>2
      <4>3. CASE \E d \in Clients : u = claim[d]
        <5>1. PICK d \in Clients : u = claim[d]
          BY <4>3
        <5>2. claim'[d] = u
          BY <1>1, <2>2, <2>4, <5>1
        <5>3. QED BY <3>2, <5>2
      <4>4. QED BY <4>1, <4>2, <4>3
    <3>3. QED BY <3>1, <3>2
  <2>6. QED
    BY <1>1, <1>5, <2>1, <2>5 DEF TasksAreKept
<1>10. QED
  BY <1>7, <1>8, <1>9 DEF DaemonInv

\* A result arrives.
LEMMA PostRolloutPreserves ==
  ASSUME DaemonInv, NEW c \in Clients, PostRollout(c)
  PROVE  DaemonInv'
<1>1. /\ claim[c] # Idle /\ claim' = [claim EXCEPT ![c] = Idle]
      /\ processing' = processing \ {claim[c]} /\ late' = late \ {claim[c]}
      /\ completed' = completed \cup {claim[c]}
      /\ UNCHANGED <<mode, batch, doing, known, total, done, queue>>
  BY DEF PostRollout, StoreRollout, daemonSide
<1>2. Issued' = Issued
  BY <1>1 DEF Issued
<1>3. IsFiniteSet(late')
  BY <1>1, FS_RemoveElement DEF DaemonInv, ServerInv
<1>4. BatchInv' /\ ServerInv'
  BY <1>1, <1>2, <1>3 DEF DaemonInv, BatchInv, ServerInv
<1>5. \A d \in Clients : claim[d] = claim'[d] \/ claim[d] = claim[c]
  BY <1>1
<1>6. TasksAreKept'
  BY <1>1, <1>5 DEF DaemonInv, TasksAreKept
<1>7. QED
  BY <1>4, <1>6 DEF DaemonInv

\* A task or its result is lost: the server keeps it as one that is being processed, and
\* the store lets it fail.
LEMMA LosePreserves ==
  ASSUME DaemonInv, NEW c \in Clients, Lose(c)
  PROVE  DaemonInv'
<1>1. /\ claim[c] # Idle /\ claim' = [claim EXCEPT ![c] = Idle]
      /\ completed' = IF mode = "v1" THEN completed \cup {claim[c]} ELSE completed
      /\ UNCHANGED <<mode, batch, doing, known, total, done, queue, processing, late>>
  BY DEF Lose, daemonSide
<1>2. Issued' = Issued
  BY <1>1 DEF Issued
<1>3. BatchInv' /\ ServerInv'
  BY <1>1, <1>2 DEF DaemonInv, BatchInv, ServerInv
<1>4. \A d \in Clients : claim[d] = claim'[d] \/ claim[d] = claim[c]
  BY <1>1
<1>5. TasksAreKept'
  BY <1>1, <1>4 DEF DaemonInv, BatchInv, TasksAreKept
<1>6. QED
  BY <1>3, <1>5 DEF DaemonInv

\* Every step preserves the invariant.
LEMMA DaemonInvStep == DaemonInv /\ [DaemonNext]_daemonVars => DaemonInv'
<1> SUFFICES ASSUME DaemonInv, [DaemonNext]_daemonVars PROVE DaemonInv'
  OBVIOUS
<1>1. CASE SetUp \/ QueueTask
  BY <1>1, SetUpPreserves, QueueTaskPreserves
<1>2. CASE Collect \/ AllFinished \/ TakeBatch
  BY <1>2, DaemonStepPreserves
<1>3. CASE \E c \in Clients : NextTask(c)
  BY <1>3, NextTaskPreserves
<1>4. CASE \E c \in Clients : PostRollout(c) \/ Lose(c)
  BY <1>4, PostRolloutPreserves, LosePreserves
<1>5. CASE \E t \in Tasks : GoesLate(t)
  <2>1. PICK t \in Tasks : t \in processing \ late /\ late' = late \cup {t}
    BY <1>5 DEF GoesLate
  <2>2. UNCHANGED <<mode, batch, doing, known, total, done, queue, processing, completed, claim>>
    BY <1>5 DEF GoesLate, daemonSide
  <2>3. Issued' = Issued
    BY <2>2 DEF Issued
  <2>4. IsFiniteSet(late')
    BY <2>1, FS_AddElement DEF DaemonInv, ServerInv
  <2>5. BatchInv' /\ ServerInv' /\ TasksAreKept'
    BY <2>1, <2>2, <2>3, <2>4 DEF DaemonInv, BatchInv, ServerInv, TasksAreKept
  <2>6. QED
    BY <2>5 DEF DaemonInv
<1>6. CASE UNCHANGED daemonVars
  <2>1. UNCHANGED <<mode, batch, doing, known, total, done, queue, processing, late, completed, claim>>
    BY <1>6 DEF daemonVars
  <2>2. Issued' = Issued
    BY <2>1 DEF Issued
  <2>3. QED
    BY <2>1, <2>2 DEF DaemonInv, BatchInv, ServerInv, TasksAreKept
<1>7. QED
  BY <1>1, <1>2, <1>3, <1>4, <1>5, <1>6 DEF DaemonNext, DaemonStep

\* No task the daemon waits for is forgotten, and none is in the server's queue twice
\* (server.py's queue, stale requeue and late results; the rollouts of the store).
THEOREM DaemonTasksAreKept == DaemonSpec => []TasksAreKept
<1>1. DaemonInv => TasksAreKept
  BY DEF DaemonInv
<1>2. QED
  BY <1>1, DaemonInvInit, DaemonInvStep, PTL DEF DaemonSpec

\* A batch ends with all of its results and no others (run_until_all_finished counts
\* them; _async_run_until_finished skips the others).
THEOREM DaemonBatchIsOwn == DaemonSpec => []BatchIsOwn
<1>1. DaemonInv => BatchIsOwn
  BY DEF DaemonInv, BatchInv, BatchIsOwn
<1>2. QED
  BY <1>1, DaemonInvInit, DaemonInvStep, PTL DEF DaemonSpec

-----------------------------------------------------------------------------
IsSeq(q) == \E S : q \in Seq(S)

\* The inductive invariant: the results form a sequence of scores, ...
FullResults ==
  /\ IsSeq(full)
  /\ \A k \in DOMAIN full : full[k].score \in Nat

\* ... and while there is none, nothing is the best, so that the first one will be.
BeamInv ==
  /\ FullResults
  /\ best.score \in Nat \cup {Lowest}
  /\ full = <<>> => best.score = Lowest
  /\ step = "start" => full = <<>>
  /\ BestOfTheWhole

\* One more result s of prompt v, which becomes the best if it beats the best.
LEMMA ResultKeepsBest ==
  ASSUME BeamInv, NEW v, NEW s \in Scores, OnTheWhole(v, s), step' # "start",
         best' = IF s > best.score THEN [version |-> v, score |-> s] ELSE best
  PROVE  BeamInv'
<1> DEFINE x == [version |-> v, score |-> s]
<1>1. s \in Nat /\ x.score = s
  BY BeamAssumption
<1>2. /\ full' = Append(full, x)
      /\ IsSeq(full)
  BY DEF OnTheWhole, BeamInv, FullResults
<1>3. /\ IsSeq(full')
      /\ DOMAIN full' = DOMAIN full \cup {Len(full) + 1}
      /\ full'[Len(full) + 1] = x
      /\ \A k \in DOMAIN full : full'[k] = full[k]
      /\ full' # <<>>
  <2> HIDE DEF x
  <2>1. PICK S : full \in Seq(S)
    BY <1>2 DEF IsSeq
  <2>2. full \in Seq(S \cup {x})
    BY <2>1, SeqMonotonic
  <2>3. full' \in Seq(S \cup {x}) /\ Len(full) \in Nat /\ DOMAIN full = 1 .. Len(full)
    BY <1>2, <2>2
  <2>4. /\ Len(full') = Len(full) + 1
        /\ full'[Len(full) + 1] = x
        /\ \A k \in 1 .. Len(full) : full'[k] = full[k]
    BY <1>2, <2>2
  <2>5. DOMAIN full' = 1 .. Len(full) + 1
    BY <2>3, <2>4
  <2>6. IsSeq(full')
    BY <2>3 DEF IsSeq
  <2>7. full' # <<>>
    BY <2>3, <2>4
  <2>8. DOMAIN full' = DOMAIN full \cup {Len(full) + 1}
    BY <2>3, <2>5
  <2>9. QED
    BY <2>3, <2>4, <2>6, <2>7, <2>8
<1>4. FullResults'
  BY <1>1, <1>3 DEF FullResults, BeamInv
<1>5. \A k \in DOMAIN full : full[k].score \in Nat /\ full[k].score <= best.score
  BY DEF BeamInv, FullResults, BestOfTheWhole
<1>6. CASE s > best.score
  <2>1. best' = x
    BY <1>6
  <2>2. \A k \in DOMAIN full' : full'[k].score <= s
    BY <1>1, <1>3, <1>5, <1>6 DEF BeamInv, Lowest
  <2>3. QED
    BY <1>1, <1>3, <1>4, <2>1, <2>2 DEF BeamInv, BestOfTheWhole
<1>7. CASE ~(s > best.score)
  <2>1. best' = best /\ s <= best.score
    BY <1>1, <1>7 DEF BeamInv, Lowest
  <2>2. full # <<>>
    BY <1>1, <1>7 DEF BeamInv, Lowest
  <2>3. PICK k \in DOMAIN full : full[k] = best
    BY <2>2 DEF BeamInv, BestOfTheWhole
  <2>4. full'[k] = best'
    BY <1>3, <2>1, <2>3
  <2>5. QED
    BY <1>1, <1>3, <1>4, <1>5, <2>1, <2>3, <2>4 DEF BeamInv, BestOfTheWhole
<1>8. QED
  BY <1>6, <1>7

LEMMA BeamInvInit == BeamInit => BeamInv
<1> SUFFICES ASSUME BeamInit PROVE BeamInv
  OBVIOUS
<1>1. full = <<>> /\ best.score = Lowest
  BY DEF BeamInit
<1>2. full \in Seq(Nat) /\ DOMAIN full = {}
  BY <1>1
<1>3. QED
  BY <1>1, <1>2 DEF BeamInv, FullResults, BestOfTheWhole, IsSeq

LEMMA BeamInvStep == BeamInv /\ [BeamNext]_beamVars => BeamInv'
<1> SUFFICES ASSUME BeamInv, [BeamNext]_beamVars PROVE BeamInv'
  OBVIOUS
<1>1. ASSUME UNCHANGED <<full, best>>, step' = "start" => step = "start"
      PROVE  BeamInv'
  BY <1>1 DEF BeamInv, FullResults, BestOfTheWhole
<1>2. CASE Baseline
  <2>1. CASE UNCHANGED <<best, full>>
    BY <1>1, <1>2, <2>1 DEF Baseline
  <2>2. CASE \E s \in Scores : best' = [version |-> 0, score |-> s] /\ OnTheWhole(0, s)
    <3>1. PICK s \in Scores : best' = [version |-> 0, score |-> s] /\ OnTheWhole(0, s)
      BY <2>2
    <3>2. s > best.score
      BY <1>2, BeamAssumption DEF Baseline, BeamInv, Lowest
    <3>3. QED
      BY <1>2, <3>1, <3>2, ResultKeepsBest DEF Baseline
  <2>3. QED
    BY <1>2, <2>1, <2>2 DEF Baseline
<1>3. CASE Sample \/ Edit \/ Judge \/ Select \/ Raises
  BY <1>1, <1>3 DEF Sample, Edit, Judge, Select, Raises
<1>4. CASE Lead
  <2>1. PICK s \in Scores :
          /\ OnTheWhole(beam[1], s)
          /\ best' = IF s > best.score THEN [version |-> beam[1], score |-> s] ELSE best
    BY <1>4 DEF Lead, Better
  <2>2. QED
    BY <1>4, <2>1, ResultKeepsBest DEF Lead
<1>5. CASE UNCHANGED beamVars
  BY <1>1, <1>5 DEF beamVars
<1>6. QED
  BY <1>2, <1>3, <1>4, <1>5 DEF BeamNext

\* The prompt that APO reports has the highest score of those evaluated on the whole
\* validation set, whenever the search stops (APO._update_best_prompt).
THEOREM SearchKeepsTheBest == BeamSpec => []BestOfTheWhole
<1>1. BeamInv => BestOfTheWhole
  BY DEF BeamInv
<1>2. QED
  BY <1>1, BeamInvInit, BeamInvStep, PTL DEF BeamSpec

-----------------------------------------------------------------------------
\* A function on 1 .. n is a sequence.
LEMMA FunctionsAreSequences ==
  ASSUME NEW S, NEW n \in Nat, NEW f \in [1 .. n -> S]
  PROVE  f \in Seq(S) /\ Len(f) = n
OBVIOUS

\* The lesser of two.
LEMMA MinOfTwo ==
  ASSUME NEW a \in Nat, NEW b \in Nat
  PROVE  Min({a, b}) = IF a <= b THEN a ELSE b
BY DEF Min

\* The ranking.  Who is before whom is a strict order, total on the candidates, ...
LEMMA BeforeIsAnOrder ==
  ASSUME candidates \in Seq(Versions), score \in [Versions -> Int],
         NEW i \in DOMAIN candidates, NEW j \in DOMAIN candidates, NEW k \in DOMAIN candidates
  PROVE  /\ ~Before(k, k)
         /\ Before(i, j) /\ Before(j, k) => Before(i, k)
         /\ j # k => Before(j, k) \/ Before(k, j)
         /\ Before(j, k) => score[candidates[j]] >= score[candidates[k]]
<1>1. /\ i \in Int /\ j \in Int /\ k \in Int
      /\ score[candidates[i]] \in Int /\ score[candidates[j]] \in Int
      /\ score[candidates[k]] \in Int
  OBVIOUS
<1>2. QED
  BY <1>1 DEF Before

\* ... so that a candidate's rank is its place in that order, ...
Beaten == {p \in (DOMAIN candidates) \X (DOMAIN candidates) : Before(p[1], p[2])}

LEMMA RanksArePlaces ==
  ASSUME candidates \in Seq(Versions), score \in [Versions -> Int]
  PROVE  /\ Orders(Beaten, Len(candidates))
         /\ \A j, k \in DOMAIN candidates : <<j, k>> \in Beaten <=> Before(j, k)
         /\ \A k \in DOMAIN candidates : Rank(k) = Place(Beaten, Len(candidates), k)
<1>1. PICK L \in Nat : L = Len(candidates) /\ DOMAIN candidates = 1 .. L
  OBVIOUS
<1>2. \A j, k \in 1 .. L : <<j, k>> \in Beaten <=> Before(j, k)
  BY <1>1 DEF Beaten
<1>3. Orders(Beaten, L)
  <2>1. \A j \in 1 .. L : <<j, j>> \notin Beaten
    BY <1>1, <1>2, BeforeIsAnOrder
  <2>2. \A j, k \in 1 .. L : j = k \/ <<j, k>> \in Beaten \/ <<k, j>> \in Beaten
    BY <1>1, <1>2, BeforeIsAnOrder
  <2>3. ASSUME NEW i \in 1 .. L, NEW j \in 1 .. L, NEW k \in 1 .. L,
               <<i, j>> \in Beaten, <<j, k>> \in Beaten
        PROVE  <<i, k>> \in Beaten
    <3>1. Before(i, j) /\ Before(j, k)
      BY <1>2, <2>3
    <3>2. Before(i, k)
      BY <1>1, <3>1, BeforeIsAnOrder
    <3>3. QED
      BY <1>2, <3>2
  <2>4. QED
    BY <2>1, <2>2, <2>3 DEF Orders
<1>4. ASSUME NEW k \in 1 .. L PROVE Rank(k) = Place(Beaten, L, k)
  <2>1. {j \in DOMAIN candidates : Before(j, k)} = {j \in 1 .. L : <<j, k>> \in Beaten}
    BY <1>1, <1>2
  <2>2. QED
    BY <2>1 DEF Rank, Place
<1>5. QED
  BY <1>1, <1>2, <1>3, <1>4

\* ... which is a number up to their number, lower for a better one, ...
LEMMA RanksOrder ==
  ASSUME candidates \in Seq(Versions), score \in [Versions -> Int],
         NEW k \in DOMAIN candidates
  PROVE  /\ Rank(k) \in DOMAIN candidates
         /\ \A j \in DOMAIN candidates : Before(j, k) => Rank(j) < Rank(k)
<1>1. PICK L \in Nat : L = Len(candidates) /\ DOMAIN candidates = 1 .. L
  OBVIOUS
<1>2. PICK B : B = Beaten
  OBVIOUS
<1>3. /\ Orders(B, L)
      /\ \A i, j \in 1 .. L : <<i, j>> \in B <=> Before(i, j)
      /\ \A j \in 1 .. L : Rank(j) = Place(B, L, j)
  BY <1>1, <1>2, RanksArePlaces
<1>4. /\ \A j \in 1 .. L : Place(B, L, j) \in 1 .. L
      /\ \A i, j \in 1 .. L : <<i, j>> \in B => Place(B, L, i) < Place(B, L, j)
  BY ONLY <1>3, PlacesOrder
<1>5. QED
  BY <1>1, <1>3, <1>4

\* ... and taken by one candidate.
LEMMA RanksAreTaken ==
  ASSUME candidates \in Seq(Versions), score \in [Versions -> Int],
         NEW r \in DOMAIN candidates
  PROVE  \E k \in DOMAIN candidates :
           /\ Rank(k) = r
           /\ \A j \in DOMAIN candidates : Rank(j) = r => j = k
<1>1. PICK L \in Nat : L = Len(candidates) /\ DOMAIN candidates = 1 .. L
  OBVIOUS
<1>2. PICK B : B = Beaten
  OBVIOUS
<1>3. Orders(B, L) /\ \A j \in 1 .. L : Rank(j) = Place(B, L, j)
  BY <1>1, <1>2, RanksArePlaces
<1>4. \A q \in 1 .. L : \E k \in 1 .. L :
        Place(B, L, k) = q /\ \A j \in 1 .. L : Place(B, L, j) = q => j = k
  BY ONLY <1>3, PlacesAreTaken
<1>5. PICK k \in 1 .. L : Place(B, L, k) = r /\ \A j \in 1 .. L : Place(B, L, j) = r => j = k
  BY <1>1, <1>4
<1>6. QED
  BY <1>1, <1>3, <1>5

\* The sequence of the ranked has every candidate at its rank.
LEMMA RankedIsSorted ==
  ASSUME candidates \in Seq(Versions), score \in [Versions -> Int]
  PROVE  /\ Ranked \in Seq(Versions) /\ Len(Ranked) = Len(candidates)
         /\ \A k \in DOMAIN candidates :
              Rank(k) \in DOMAIN candidates /\ Ranked[Rank(k)] = candidates[k]
         /\ \A r \in DOMAIN candidates :
              Ranked[r] \in ToSet(candidates) /\ \E k \in DOMAIN candidates : Rank(k) = r
<1>1. ASSUME NEW r \in DOMAIN candidates
      PROVE  \E k \in DOMAIN candidates :
               /\ Rank(k) = r /\ Ranked[r] = candidates[k]
               /\ \A j \in DOMAIN candidates : Rank(j) = r => j = k
  <2>1. PICK k \in DOMAIN candidates :
           Rank(k) = r /\ \A j \in DOMAIN candidates : Rank(j) = r => j = k
    BY RanksAreTaken
  <2>2. (CHOOSE j \in DOMAIN candidates : Rank(j) = r) = k
    BY <2>1
  <2>3. Ranked[r] = candidates[k]
    BY <2>2 DEF Ranked
  <2>4. QED
    BY <2>1, <2>3
<1>2. DOMAIN candidates = 1 .. Len(candidates) /\ Len(candidates) \in Nat
  OBVIOUS
<1>3. \A r \in DOMAIN candidates : Ranked[r] \in ToSet(candidates) /\ Ranked[r] \in Versions
  BY <1>1 DEF ToSet
<1>4. Ranked \in [1 .. Len(candidates) -> Versions]
  <2>1. DOMAIN Ranked = 1 .. Len(candidates) /\ Ranked = [r \in DOMAIN candidates |-> Ranked[r]]
    BY <1>2 DEF Ranked
  <2>2. QED
    BY <1>2, <1>3, <2>1
<1>5. Ranked \in Seq(Versions) /\ Len(Ranked) = Len(candidates)
  BY <1>2, <1>4, FunctionsAreSequences
<1>6. \A k \in DOMAIN candidates :
        Rank(k) \in DOMAIN candidates /\ Ranked[Rank(k)] = candidates[k]
  BY <1>1, RanksOrder
<1>7. QED
  BY <1>1, <1>3, <1>5, <1>6

-----------------------------------------------------------------------------
\* The invariant of the rounds: there are versions enough for every branch, and from the
\* evaluation to the choice of the leader the scores are the round's.
Branches == BeamWidth * BranchFactor

RoundInv ==
  /\ round \in Nat /\ round <= BeamRounds
  /\ beam \in Seq(Versions) /\ candidates \in Seq(Versions)
  /\ IsSeq(parents)
  /\ counter \in Nat /\ counter + Len(parents) <= 1 + Branches * round
  /\ score \in [Versions -> Int] /\ DOMAIN scoredIn = Versions
  /\ step \in {"select", "lead"} => \A v \in ToSet(candidates) : scoredIn[v] = round
  /\ RankedOnOneBatch

\* It holds initially.
LEMMA RoundInvInit == BeamInit => RoundInv
<1> SUFFICES ASSUME BeamInit PROVE RoundInv
  OBVIOUS
<1>1. Branches \in Nat /\ Branches * BeamRounds \in Nat
  BY BeamAssumption DEF Branches
<1>2. 0 \in Versions
  BY <1>1 DEF Versions, Branches
<1>3. beam \in Seq(Versions) /\ candidates \in Seq(Versions) /\ parents \in Seq({})
  BY <1>2 DEF BeamInit
<1>4. counter + Len(parents) <= 1 + Branches * round /\ round <= BeamRounds
  BY <1>1, BeamAssumption DEF BeamInit
<1>5. score \in [Versions -> Int] /\ DOMAIN scoredIn = Versions
  BY DEF BeamInit, Lowest
<1>6. QED
  BY <1>3, <1>4, <1>5 DEF BeamInit, RoundInv, RankedOnOneBatch, IsSeq

\* A round begins: its branches are added to those of the rounds before.
LEMMA SamplePreserves == ASSUME RoundInv, Sample PROVE RoundInv'
<1>1. CASE round = BeamRounds
  <2>1. step' = "done" /\ UNCHANGED <<round, parents, candidates, counter, beam, score, scoredIn>>
    BY <1>1 DEF Sample
  <2>2. QED
    BY <2>1 DEF RoundInv, RankedOnOneBatch
<1>2. CASE round # BeamRounds
  <2>1. PICK q \in Samples :
          parents' = [k \in 1 .. BeamWidth * BranchFactor |-> q[((k - 1) \div BranchFactor) + 1]]
    BY <1>2 DEF Sample
  <2>2. /\ step' = "edit" /\ round' = round + 1 /\ candidates' = beam
        /\ UNCHANGED <<counter, beam, score, scoredIn>>
    BY <1>2 DEF Sample
  <2>3. Branches \in Nat /\ Branches = BeamWidth * BranchFactor
    BY BeamAssumption DEF Branches
  <2>4. IsSeq(parents') /\ Len(parents') = Branches
    <3> DEFINE S == {q[((k - 1) \div BranchFactor) + 1] : k \in 1 .. Branches}
    <3>1. parents' \in [1 .. Branches -> S]
      BY <2>1, <2>3
    <3> HIDE DEF S
    <3>2. parents' \in Seq(S) /\ Len(parents') = Branches
      BY <2>3, <3>1
    <3>3. QED
      BY <3>2 DEF IsSeq
  <2>5. round' \in Nat /\ round' <= BeamRounds
    BY <1>2, <2>2, BeamAssumption DEF RoundInv
  <2>6. counter' + Len(parents') <= 1 + Branches * round'
    <3>1. Branches * (round + 1) = Branches * round + Branches /\ Branches * round \in Int
      BY <2>3 DEF RoundInv
    <3>2. Len(parents) \in Nat
      BY DEF RoundInv, IsSeq
    <3>3. PICK x \in Int : x = Branches * round
      BY <3>1
    <3>4. counter \in Nat /\ counter + Len(parents) <= 1 + x
      BY <3>3 DEF RoundInv
    <3>5. counter + Branches <= 1 + (x + Branches)
      BY <2>3, <3>2, <3>3, <3>4
    <3>6. QED
      BY <2>2, <2>4, <3>1, <3>3, <3>5
  <2>7. QED
    BY <2>2, <2>4, <2>5, <2>6 DEF RoundInv, RankedOnOneBatch
<1>3. QED
  BY <1>1, <1>2

\* A branch is tried: it costs a parent, and gives a version at most.
LEMMA EditPreserves == ASSUME RoundInv, Edit PROVE RoundInv'
<1>1. PICK S : parents \in Seq(S)
  BY DEF RoundInv, IsSeq
<1>2. parents # <<>> /\ parents' = Tail(parents)
  BY DEF Edit
<1>3. parents' \in Seq(S) /\ Len(parents') = Len(parents) - 1 /\ Len(parents) \in Nat \ {0}
  BY <1>1, <1>2
<1>4. /\ UNCHANGED <<step, round, beam, score, scoredIn>>
      /\ step = "edit"
      /\ \/ UNCHANGED <<counter, candidates>>
         \/ candidates' = Append(candidates, counter) /\ counter' = counter + 1
  BY DEF Edit
<1>5. Branches \in Nat /\ Branches * round <= Branches * BeamRounds /\ Branches * round \in Nat
  <2>1. Branches \in Nat
    BY BeamAssumption DEF Branches
  <2>2. PICK d \in Nat : BeamRounds = round + d
    BY BeamAssumption DEF RoundInv
  <2>3. /\ Branches * BeamRounds = Branches * round + Branches * d
        /\ Branches * d \in Nat /\ Branches * round \in Nat
    BY <2>1, <2>2 DEF RoundInv
  <2>4. QED
    BY <2>1, <2>3
<1>6. counter \in Versions
  <2>1. Versions = 0 .. Branches * BeamRounds
    BY DEF Versions, Branches
  <2>2. Branches * BeamRounds \in Nat
    BY <1>5, BeamAssumption
  <2>3. PICK x \in Nat : x = Branches * round
    BY <1>5
  <2>4. PICK y \in Nat : y = Branches * BeamRounds
    BY <2>2
  <2>5. counter \in Nat /\ counter + Len(parents) <= 1 + x /\ x <= y
    BY <1>5, <2>3, <2>4 DEF RoundInv
  <2>6. counter \in 0 .. y
    BY <1>3, <2>5
  <2>7. QED
    BY <2>1, <2>4, <2>6
<1>7. candidates' \in Seq(Versions)
  <2>1. candidates \in Seq(Versions)
    BY DEF RoundInv
  <2>2. Append(candidates, counter) \in Seq(Versions)
    BY <1>6, <2>1
  <2>3. QED
    BY <1>4, <2>1, <2>2
<1>8. counter' \in Nat /\ counter' + Len(parents') <= 1 + Branches * round'
  BY <1>3, <1>4, <1>5 DEF RoundInv
<1>9. QED
  BY <1>3, <1>4, <1>7, <1>8 DEF RoundInv, RankedOnOneBatch, IsSeq

\* All candidates are judged, whether or not they have a score of an earlier round.
LEMMA JudgePreserves == ASSUME RoundInv, Judge PROVE RoundInv'
<1>1. PICK got \in [ToSet(candidates) -> Scores] :
        score' = [v \in Versions |-> IF v \in DOMAIN got THEN got[v] ELSE score[v]]
  BY DEF Judge, ToJudge
<1>2. /\ step' = "select"
      /\ scoredIn' = [v \in Versions |-> IF v \in ToSet(candidates) THEN round ELSE scoredIn[v]]
      /\ UNCHANGED <<round, counter, beam, parents, candidates>>
  BY DEF Judge, ToJudge
<1>3. score' \in [Versions -> Int]
  <2>1. score \in [Versions -> Int] /\ Scores \subseteq Int
    BY BeamAssumption DEF RoundInv
  <2>2. \A v \in Versions : (IF v \in DOMAIN got THEN got[v] ELSE score[v]) \in Int
    BY <1>1, <2>1
  <2>3. QED
    BY <1>1, <2>2
<1>4. ToSet(candidates) \subseteq Versions
  BY DEF RoundInv, ToSet
<1>5. DOMAIN scoredIn' = Versions /\ \A v \in ToSet(candidates) : scoredIn'[v] = round
  BY <1>2, <1>4
<1>6. QED
  BY <1>2, <1>3, <1>5 DEF RoundInv, RankedOnOneBatch

\* The beam is the best of the candidates: who is left out ranks after all of them.
LEMMA SelectPreserves == ASSUME RoundInv, Select PROVE RoundInv'
<1> DEFINE n == Len(candidates)
           m == Min({BeamWidth, Len(Ranked)})
<1>1. candidates \in Seq(Versions) /\ score \in [Versions -> Int]
  BY DEF RoundInv
<1>2. /\ Ranked \in Seq(Versions) /\ Len(Ranked) = n
      /\ \A k \in DOMAIN candidates :
           Rank(k) \in DOMAIN candidates /\ Ranked[Rank(k)] = candidates[k]
      /\ \A r \in DOMAIN candidates :
           Ranked[r] \in ToSet(candidates) /\ \E k \in DOMAIN candidates : Rank(k) = r
  BY <1>1, RankedIsSorted
<1>3. n \in Nat /\ DOMAIN candidates = 1 .. n
  BY <1>1
<1>4. m \in Nat /\ m <= n /\ m = Min({BeamWidth, n})
  BY <1>2, <1>3, BeamAssumption, MinOfTwo
<1>5. /\ step' = "lead" /\ beam' = SubSeq(Ranked, 1, m)
      /\ UNCHANGED <<round, counter, parents, candidates, score, scoredIn>>
      /\ step = "select"
  BY DEF Select
<1> HIDE DEF n, m
<1>6. beam' \in Seq(Versions) /\ Len(beam') = m /\ \A r \in 1 .. m : beam'[r] = Ranked[r]
  <2>1. \A r \in 1 .. m : Ranked[r] \in Versions
    BY <1>2, <1>3, <1>4
  <2>2. beam' = [r \in 1 .. m |-> Ranked[r]]
    BY <1>2, <1>3, <1>4, <1>5
  <2>3. beam' \in [1 .. m -> Versions]
    BY <2>1, <2>2
  <2>4. beam' \in Seq(Versions) /\ Len(beam') = m
    BY <1>4, <2>3, FunctionsAreSequences
  <2>5. QED
    BY <2>2, <2>4
<1>7. DOMAIN beam' = 1 .. m
  BY <1>4, <1>6
<1>8. /\ \A v \in ToSet(beam') : \E r \in 1 .. m : v = Ranked[r]
      /\ \A r \in 1 .. m : Ranked[r] \in ToSet(beam')
  BY <1>6, <1>7 DEF ToSet
<1>9. ASSUME NEW v \in ToSet(beam'), NEW w \in ToSet(candidates) \ ToSet(beam')
      PROVE  score[v] >= score[w]
  <2>1. PICK r \in 1 .. m : v = Ranked[r]
    BY <1>8
  <2>2. PICK k \in DOMAIN candidates : Rank(k) = r
    <3>1. r \in 1 .. n
      BY <1>3, <1>4
    <3>2. QED
      BY <1>2, <1>3, <3>1
  <2>3. PICK j \in DOMAIN candidates : w = candidates[j]
    BY DEF ToSet
  <2>4. Rank(j) \in 1 .. n /\ Rank(j) \notin 1 .. m
    BY <1>2, <1>3, <1>8, <2>3
  <2>5. Rank(k) < Rank(j)
    BY <1>3, <1>4, <2>2, <2>4
  <2>6. Before(k, j)
    <3>1. Before(j, k) => Rank(j) < Rank(k)
      BY <1>1, RanksOrder
    <3>2. Rank(k) \in Nat /\ Rank(j) \in Nat
      BY <1>3, <2>2, <2>4
    <3>3. j # k /\ ~Before(j, k)
      BY <2>5, <3>1, <3>2
    <3>4. QED
      BY <1>1, <3>3, BeforeIsAnOrder
  <2>7. v = candidates[k]
    BY <1>2, <2>1, <2>2
  <2>8. QED
    BY <1>1, <2>3, <2>6, <2>7, BeforeIsAnOrder
<1>10. RankedOnOneBatch'
  <2>1. Len(beam') = Min({BeamWidth, Len(candidates')})
    BY <1>4, <1>5, <1>6 DEF n
  <2>2. \A v \in ToSet(candidates') : scoredIn'[v] = round'
    BY <1>5 DEF RoundInv
  <2>3. \A v \in ToSet(beam'), w \in ToSet(candidates') \ ToSet(beam') : score'[v] >= score'[w]
    BY <1>5, <1>9
  <2>4. QED
    BY <2>1, <2>2, <2>3 DEF RankedOnOneBatch
<1>11. QED
  BY <1>5, <1>6, <1>10 DEF RoundInv

\* Every step preserves the invariant.
LEMMA RoundInvStep == RoundInv /\ [BeamNext]_beamVars => RoundInv'
<1> SUFFICES ASSUME RoundInv, [BeamNext]_beamVars PROVE RoundInv'
  OBVIOUS
<1>1. CASE Baseline \/ Lead \/ Raises
  <2>1. /\ UNCHANGED <<round, counter, beam, parents, candidates, score, scoredIn>>
        /\ step' \notin {"select", "lead"}
    BY <1>1 DEF Baseline, Lead, Raises
  <2>2. QED
    BY <2>1 DEF RoundInv, RankedOnOneBatch
<1>2. CASE UNCHANGED beamVars
  BY <1>2 DEF beamVars, RoundInv, RankedOnOneBatch
<1>3. QED
  BY <1>1, <1>2, SamplePreserves, EditPreserves, JudgePreserves, SelectPreserves DEF BeamNext

\* The prompts that stay in the beam have scored highest on one and the same batch,
\* whatever they scored in earlier rounds (APO._evaluate_and_select_beam).
THEOREM BeamIsRankedOnOneBatch == BeamSpec => []RankedOnOneBatch
<1>1. RoundInv => RankedOnOneBatch
  BY DEF RoundInv
<1>2. QED
  BY <1>1, RoundInvInit, RoundInvStep, PTL DEF BeamSpec

-----------------------------------------------------------------------------
(* Execution.                                                              *)

Failure == \E b \in Active : bundle[b] \in {"crashed", "killed"}

\* What an algorithm may be cut short for.
Cause == interrupts > 0 \/ Failure

\* Past phase main its bundles are done, and a crash of one of them is on its way to
\* the caller.
MainIsDone ==
  /\ phase = "main" => OnMain(plan) # {}
  /\ phase # "main" =>
       \A b \in OnMain(plan) :
         ~Alive(b) /\ (bundle[b] = "crashed" => pending = "crash" /\ phase # "await")

\* Who is shut down has been told; after SIGKILL nobody is left.
ShutdownIsTold ==
  /\ phase \in ShutdownPhases => stopEvt \/ AliveChildren = {}
  /\ phase = "sigkill" => AliveChildren = {}

\* The event is set for a reason, unless it is the end of the algorithm.
StopHasCause == stopEvt => Cause \/ ~Alive("algorithm")

\* Interruptions come from Ctrl+C, or from the escalation.
InterruptHasCause ==
  \A b \in Active :
    bundle[b] \in {"draining", "unwinding", "interrupted"} =>
      interrupts > 0 \/ (b \in Children(plan) /\ phase \notin {"main", "await"})

PendingHasCause ==
  /\ pending = "interrupt" => interrupts > 0
  /\ pending = "crash" =>
       \/ \E b \in Active : bundle[b] = "crashed"
       \/ Cs /\ \E b \in Children(plan) : bundle[b] \in {"interrupted", "killed"}

OutcomeIsLast == outcome # "none" => phase = "ended"

IInv ==
  /\ TypeOK
  /\ MainIsDone
  /\ ShutdownIsTold
  /\ StopHasCause
  /\ InterruptHasCause
  /\ PendingHasCause
  /\ OutcomeIsLast
  /\ OutcomeIsTrue
  /\ NothingLeftBehind
  /\ AlgorithmRunsToItsEnd

-----------------------------------------------------------------------------
(* Who runs where.                                                         *)

\* A bundle of an execution runs on the caller's thread or beside it, never both.
LEMMA Places ==
  ASSUME NEW p \in Plan
  PROVE  /\ TakingPart(p) \subseteq Bundles
         /\ Children(p) \subseteq TakingPart(p)
         /\ OnMain(p) \cap Children(p) = {}
<1>1. p.runners \subseteq Runners
  BY DEF Plan
<1>. QED
  BY <1>1 DEF TakingPart, Children, Bundles

\* A plan has someone on the caller's thread unless it only starts several runners.
LEMMA Lone ==
  ASSUME NEW p \in ShmPlans \cup CsPlans
  PROVE  /\ p \in Plan
         /\ OnMain(p) \subseteq TakingPart(p)
         /\ p.role # "runner" => OnMain(p) # {}
         /\ p.role = "both" /\ p.main = "runner" => OnMain(p) = p.runners
         /\ p.main = "runner" => p.role = "both"
<1>1. p \in Plan /\ (p.main = "runner" => p.role = "both")
  BY DEF ShmPlans, CsPlans
<1>2. /\ p.runners \subseteq Runners /\ p.runners # {}
      /\ p.role \in {"both", "algorithm", "runner"}
      /\ p.main \in {"algorithm", "runner"}
  BY <1>1 DEF Plan
<1>. QED
  BY <1>1, <1>2 DEF TakingPart, OnMain

-----------------------------------------------------------------------------
(* Type correctness.                                                       *)

LEMMA InitType == Init => TypeOK
<1>. SUFFICES ASSUME Init PROVE TypeOK
  OBVIOUS
<1>1. \A b \in Bundles : bundle[b] \in Possible(b)
  BY DEF Init, Possible
<1>2. interrupts \in 0 .. MaxInterrupts
  BY InterruptsAssumption DEF Init
<1>. QED
  BY <1>1, <1>2 DEF Init, TypeOK, States, AliveStates, ShutdownPhases

\* What SIGINT may make of a bundle.
LEMMA InterruptedType ==
  ASSUME TypeOK, NEW b \in Bundles, b \in OnMain(plan) \/ (Cs /\ b \in Children(plan))
  PROVE  Interrupted(b) \in Possible(b) /\ Interrupted(b) \in States
<1>1. bundle[b] \in Possible(b) /\ bundle[b] \in States /\ b \in Active
  BY Places, Lone DEF TypeOK, Active
<1>. QED
  BY <1>1 DEF Interrupted, Possible, States, AliveStates, Shm, Cs

LEMMA TypeStep == TypeOK /\ MainIsDone /\ [Next]_vars => TypeOK'
<1>. SUFFICES ASSUME TypeOK, MainIsDone, [Next]_vars PROVE TypeOK'
  OBVIOUS
<1>. USE DEF TypeOK
<1>0. plan \in Plan /\ OnMain(plan) \subseteq Active /\ Children(plan) \subseteq Active /\ Active \subseteq Bundles
      /\ OnMain(plan) \cap Children(plan) = {}
  BY Places, Lone DEF Active
<1>1. ASSUME NEW b \in Bundles, Return(b) \/ Crash(b) \/ WatcherCancels(b) \/ TakeCancel(b)
                                 \/ AbandonAfterGrace(b) \/ OsKills(b)
      PROVE  TypeOK'
  <2>1. \A c \in Bundles : c # b => bundle'[c] = bundle[c]
    BY <1>1 DEF Return, ReturnShm, ReturnCs, Crash, WatcherCancels, TakeCancel,
                AbandonAfterGrace, OsKills, Becomes
  <2>2. /\ bundle' = [bundle EXCEPT ![b] = bundle'[b]]
        /\ bundle'[b] \in States
        /\ bundle'[b] \in Possible(b)
    BY <1>0, <1>1 DEF Return, ReturnShm, ReturnCs, Crash, WatcherCancels, TakeCancel,
                AbandonAfterGrace, OsKills, Becomes, Steps, Alive, Possible, States, AliveStates,
                Shm, Cs
  <2>3. stopEvt' \in BOOLEAN /\ UNCHANGED <<plan, temper, phase, pending, outcome, interrupts>>
    BY <1>1 DEF Return, ReturnShm, ReturnCs, Crash, WatcherCancels, TakeCancel,
                AbandonAfterGrace, OsKills, Steps
  <2>. QED
    BY <2>1, <2>2, <2>3 DEF Possible, Active, Shm, Cs
<1>2. ASSUME NEW group \in BOOLEAN, CtrlC(group)
      PROVE  TypeOK'
  <2>1. PICK B \in SUBSET Bundles : Interrupts(B) /\ \A b \in B : b \in OnMain(plan) \/ (Cs /\ b \in Children(plan))
    BY <1>0, <1>2 DEF CtrlC, Reached, AliveChildren
  <2>2. bundle' \in [Bundles -> States] /\ \A b \in Bundles : bundle'[b] \in Possible(b)
    BY <2>1, InterruptedType DEF Interrupts
  <2>3. UNCHANGED <<plan, temper>>
    BY <1>2 DEF CtrlC
  <2>4. /\ phase' \in {"main", "await", "ended"} \cup ShutdownPhases
        /\ stopEvt' \in BOOLEAN
        /\ pending' \in {"none", "interrupt", "crash"}
        /\ outcome' \in {"none", "returned", "raised", "interrupt"}
    BY <1>2 DEF CtrlC, Catches, ShutdownPhases
  <2>5. interrupts' \in 0 .. MaxInterrupts
    BY <1>2, InterruptsAssumption DEF CtrlC
  <2>. QED
    BY <2>2, <2>3, <2>4, <2>5 DEF Possible, Active, Shm, Cs
<1>3. ASSUME MainEnds \/ AwaitEnds \/ JoinEnds
      PROVE  TypeOK'
  <2>1. UNCHANGED <<plan, temper, bundle, interrupts>>
    BY <1>3 DEF MainEnds, AwaitEnds, JoinEnds, Ends
  <2>2. CASE MainEnds
    <3>1. OnMain(plan) # {}
      BY <2>2 DEF MainIsDone, MainEnds
    <3>. QED
      BY <3>1, <2>1, <2>2 DEF MainEnds, Catches, GoesOn, ShutdownPhases, Possible, Active, Shm, Cs
  <2>3. CASE AwaitEnds
    BY <2>1, <2>3 DEF AwaitEnds, Catches, ShutdownPhases, Possible, Active, Shm, Cs
  <2>4. CASE JoinEnds
    BY <2>1, <2>4 DEF JoinEnds, Ends, ShutdownPhases, Possible, Active, Shm, Cs
  <2>. QED
    BY <1>3, <2>2, <2>3, <2>4
<1>4. ASSUME Escalate
      PROVE  TypeOK'
  <2>1. UNCHANGED <<plan, temper, pending, outcome, interrupts>> /\ stopEvt' \in BOOLEAN
        /\ phase' \in ShutdownPhases
    BY <1>4 DEF Escalate, ShutdownPhases
  <2>2. bundle' \in [Bundles -> States] /\ \A b \in Bundles : bundle'[b] \in Possible(b)
    BY <1>0, <1>4, InterruptedType DEF Escalate, Interrupts, AliveChildren, Possible, States, Cs
  <2>. QED
    BY <2>1, <2>2 DEF Possible, Active, Shm, Cs
<1>5. CASE UNCHANGED vars
  BY <1>5 DEF vars, Possible, Active, Shm, Cs
<1>. QED
  BY <1>1, <1>2, <1>3, <1>4, <1>5 DEF Next

-----------------------------------------------------------------------------
(* Steps in general.                                                       *)

BundleStep(b) ==
  \/ Return(b)
  \/ Crash(b)
  \/ WatcherCancels(b)
  \/ TakeCancel(b)
  \/ AbandonAfterGrace(b)
  \/ OsKills(b)

\* A step of a bundle concerns that bundle, and the event.
LEMMA BundleStepFacts ==
  ASSUME TypeOK, NEW b \in Bundles, BundleStep(b)
  PROVE  /\ UNCHANGED <<plan, temper, phase, pending, outcome, interrupts>>
         /\ phase # "ended"
         /\ Alive(b)
         /\ \A c \in Bundles : c # b => bundle'[c] = bundle[c]
         /\ stopEvt => stopEvt'
BY DEF TypeOK, BundleStep, Return, ReturnShm, ReturnCs, Crash, WatcherCancels, TakeCancel,
       AbandonAfterGrace, OsKills, Steps, Becomes

\* Nobody comes back, and nothing happens after the end.
LEMMA StepFacts ==
  ASSUME TypeOK, MainIsDone, Next
  PROVE  /\ UNCHANGED <<plan, temper>>
         /\ phase # "ended"
         /\ \A b \in Bundles : ~Alive(b) => bundle'[b] = bundle[b]
         /\ stopEvt => stopEvt'
         /\ interrupts > 0 => interrupts' > 0
<1>1. ASSUME NEW b \in Bundles, BundleStep(b)
      PROVE  /\ UNCHANGED <<plan, temper, interrupts>>
             /\ phase # "ended"
             /\ \A c \in Bundles : ~Alive(c) => bundle'[c] = bundle[c]
             /\ stopEvt => stopEvt'
  BY <1>1, BundleStepFacts
<1>2. ASSUME NEW group \in BOOLEAN, CtrlC(group)
      PROVE  /\ UNCHANGED <<plan, temper>>
             /\ phase # "ended"
             /\ \A c \in Bundles : ~Alive(c) => bundle'[c] = bundle[c]
             /\ stopEvt => stopEvt'
             /\ interrupts' = interrupts + 1
  BY <1>2 DEF CtrlC, Interrupts, Interrupted, Catches, Alive, AliveStates, ShutdownPhases
<1>3. ASSUME Escalate
      PROVE  /\ UNCHANGED <<plan, temper, interrupts>>
             /\ phase # "ended"
             /\ \A c \in Bundles : ~Alive(c) => bundle'[c] = bundle[c]
             /\ stopEvt => stopEvt'
  <2>1. UNCHANGED <<plan, temper, interrupts>> /\ phase # "ended"
    BY <1>3 DEF Escalate
  <2>2. \A c \in Bundles : ~Alive(c) => bundle'[c] = bundle[c]
    BY <1>3 DEF Escalate, Interrupts, AliveChildren
  <2>3. stopEvt => stopEvt'
    BY <1>3, Zenon DEF Escalate
  <2>. QED
    BY <2>1, <2>2, <2>3
<1>4. ASSUME MainEnds
      PROVE  stopEvt => stopEvt'
  <2>1. PICK b \in OnMain(plan) : TRUE
    BY <1>4 DEF MainIsDone, MainEnds
  <2>. QED
    BY <1>4, <2>1 DEF MainEnds, Catches, GoesOn
<1>5. ASSUME MainEnds \/ AwaitEnds \/ JoinEnds
      PROVE  /\ UNCHANGED <<plan, temper, bundle, interrupts>>
             /\ phase # "ended"
             /\ stopEvt => stopEvt'
  <2>1. UNCHANGED <<plan, temper, bundle, interrupts>> /\ phase # "ended"
    BY <1>5 DEF MainEnds, AwaitEnds, JoinEnds, Ends, ShutdownPhases
  <2>2. AwaitEnds \/ JoinEnds => (stopEvt => stopEvt')
    BY Zenon DEF AwaitEnds, JoinEnds, Ends, Catches
  <2>. QED
    BY <1>4, <1>5, <2>1, <2>2
<1>. QED
  BY <1>1, <1>2, <1>3, <1>5 DEF TypeOK, Next, BundleStep

\* Failures stay failures, and the bundles of the plan are those they were.
LEMMA Persistence ==
  ASSUME IInv, Next
  PROVE  /\ OnMain(plan)' = OnMain(plan) /\ Children(plan)' = Children(plan) /\ Active' = Active
         /\ (Shm <=> Shm') /\ (Cs <=> Cs')
         /\ OnMain(plan) \subseteq Active /\ Children(plan) \subseteq Active /\ Active \subseteq Bundles
         /\ OnMain(plan) \cap Children(plan) = {}
         /\ \A b \in Bundles : Alive(b)' => Alive(b)
         /\ AliveChildren' \subseteq AliveChildren
         /\ Cause => Cause'
<1>. USE DEF IInv
<1>1. plan' = plan /\ plan \in ShmPlans \cup CsPlans
  BY StepFacts DEF TypeOK
<1>2. /\ OnMain(plan)' = OnMain(plan) /\ Children(plan)' = Children(plan) /\ Active' = Active
      /\ (Shm <=> Shm') /\ (Cs <=> Cs')
  BY <1>1 DEF Active, Shm, Cs
<1>3. /\ OnMain(plan) \subseteq Active /\ Children(plan) \subseteq Active /\ Active \subseteq Bundles
      /\ OnMain(plan) \cap Children(plan) = {}
  BY <1>1, Lone, Places DEF Active
<1>4. \A b \in Bundles : Alive(b)' => Alive(b)
  BY StepFacts DEF Alive
<1>5. AliveChildren' \subseteq AliveChildren
  BY <1>2, <1>3, <1>4 DEF AliveChildren
<1>6. Failure => Failure'
  BY <1>2, <1>3, StepFacts DEF Failure, Alive, AliveStates
<1>. QED
  BY <1>2, <1>3, <1>4, <1>5, <1>6, StepFacts DEF Cause

-----------------------------------------------------------------------------
(* The invariant, conjunct by conjunct.                                    *)

LEMMA MainStep == IInv /\ Next => MainIsDone'
<1>. SUFFICES ASSUME IInv, Next PROVE MainIsDone'
  OBVIOUS
<1>. USE DEF IInv
<1>1. ASSUME phase = "main", phase' # "main"
      PROVE  MainIsDone'
  <2>1. MainEnds
    BY <1>1, BundleStepFacts DEF Next, BundleStep, CtrlC, ShutdownPhases, AwaitEnds, JoinEnds, Escalate
  <2>2. \A b \in OnMain(plan) : ~Alive(b) /\ (bundle[b] = "crashed" => pending' = "crash" /\ phase' # "await")
    BY <2>1 DEF MainEnds, Catches, Alive, AliveStates
  <2>. QED
    BY <1>1, <2>1, <2>2, Persistence DEF MainIsDone, MainEnds, Alive
<1>2. ASSUME phase # "main"
      PROVE  MainIsDone'
  <2>1. \A b \in OnMain(plan) : ~Alive(b) /\ bundle'[b] = bundle[b]
    BY <1>2, Persistence, StepFacts DEF MainIsDone
  <2>2. phase' # "main" /\ (phase' = "await" => phase = "await")
    BY <1>2, BundleStepFacts DEF Next, BundleStep, CtrlC, Catches, ShutdownPhases, MainEnds,
                              AwaitEnds, JoinEnds, Ends, Escalate
  <2>3. pending' = pending \/ phase = "await"
    BY <1>2, BundleStepFacts DEF Next, BundleStep, CtrlC, MainEnds, JoinEnds, Ends, Escalate, AwaitEnds
  <2>. QED
    BY <1>2, <2>1, <2>2, <2>3, Persistence DEF MainIsDone, Alive
<1>3. CASE phase = "main" /\ phase' = "main"
  BY <1>3, Persistence DEF MainIsDone
<1>. QED
  BY <1>1, <1>2, <1>3

LEMMA ShutdownStep == IInv /\ Next => ShutdownIsTold'
<1>. SUFFICES ASSUME IInv, Next PROVE ShutdownIsTold'
  OBVIOUS
<1>. USE DEF IInv
<1>1. CASE phase' = phase
  BY <1>1, Persistence, StepFacts DEF ShutdownIsTold
<1>2. CASE MainEnds
  <2>1. PICK b \in OnMain(plan) : TRUE
    BY <1>2 DEF MainEnds, MainIsDone
  <2>2. phase' \in {"await", "graceful"} /\ (phase' = "graceful" => stopEvt' \/ Children(plan) = {})
    BY <1>2, <2>1, Zenon DEF MainEnds, Catches, GoesOn
  <2>. QED
    BY <2>2, Persistence DEF ShutdownIsTold, AliveChildren, ShutdownPhases
<1>3. CASE AwaitEnds
  BY <1>3, Persistence DEF AwaitEnds, Catches, ShutdownIsTold, ShutdownPhases
<1>4. CASE Escalate
  <2>1. phase \in ShutdownPhases /\ phase' \in ShutdownPhases
    BY <1>4 DEF Escalate, ShutdownPhases
  <2>2. phase' = "sigkill" => AliveChildren' = {}
    <3>1. SUFFICES ASSUME phase' = "sigkill", NEW b \in AliveChildren' PROVE FALSE
      OBVIOUS
    <3>2. b \in AliveChildren /\ b \in Bundles
      BY <3>1, Persistence DEF AliveChildren
    <3>3. bundle'[b] = "killed"
      BY <1>4, <3>1, <3>2 DEF Escalate
    <3>. QED
      BY <3>1, <3>3 DEF AliveChildren, Alive, AliveStates
  <2>. QED
    BY <2>1, <2>2, Persistence, StepFacts DEF ShutdownIsTold
<1>5. CASE \E group \in BOOLEAN : CtrlC(group)
  BY <1>1, <1>5 DEF CtrlC, Catches, ShutdownIsTold, ShutdownPhases
<1>6. CASE JoinEnds
  BY <1>6 DEF JoinEnds, Ends, ShutdownIsTold, ShutdownPhases
<1>. QED
  BY <1>1, <1>2, <1>3, <1>4, <1>5, <1>6, BundleStepFacts DEF Next, BundleStep

\* Where the algorithm can still be alive.
LEMMA AlgorithmAlive ==
  ASSUME IInv, Alive("algorithm")
  PROVE  /\ "algorithm" \in Active /\ "algorithm" \in Bundles
         /\ phase = "main" \/ "algorithm" \in AliveChildren
         /\ phase \in ShutdownPhases => stopEvt
<1>1. "algorithm" \in Bundles /\ "algorithm" \in Active
  BY DEF IInv, TypeOK, Bundles, Possible, Alive, AliveStates
<1>2. phase # "main" => "algorithm" \notin OnMain(plan)
  BY DEF IInv, MainIsDone
<1>. QED
  BY <1>1, <1>2 DEF IInv, ShutdownIsTold, AliveChildren, Active, Children, MainIsDone, ShutdownPhases

\* A bundle that is about to end by an interrupt has someone to thank for it.
LEMMA UnwindingHasCause ==
  ASSUME IInv, NEW b \in Bundles, bundle[b] \in {"draining", "unwinding"}, Next, phase' = phase
  PROVE  interrupts > 0 \/ stopEvt \/ ~Alive("algorithm")
<1>1. b \in Active
  BY DEF IInv, TypeOK, Possible
<1>2. interrupts > 0 \/ phase \in ShutdownPhases
  BY <1>1, StepFacts DEF IInv, TypeOK, InterruptHasCause
<1>. QED
  BY <1>2, AlgorithmAlive

LEMMA StopStep == IInv /\ Next => StopHasCause'
<1>. SUFFICES ASSUME IInv, Next, ~stopEvt, stopEvt', Alive("algorithm")' PROVE Cause'
  BY Persistence DEF IInv, StopHasCause, Bundles
<1>. USE DEF IInv
<1>0. Alive("algorithm")
  BY Persistence DEF Bundles
<1>1. ASSUME NEW b \in Bundles, BundleStep(b)
      PROVE  Cause'
  <2>1. bundle[b] \in {"draining", "unwinding"} => Cause'
    BY <1>0, <1>1, UnwindingHasCause, BundleStepFacts, Persistence DEF Cause
  <2>2. Crash(b) => Cause'
    BY <1>1, BundleStepFacts, Persistence DEF Crash, Becomes, Cause, Failure, TypeOK, Possible, Alive, AliveStates
  <2>. QED
    BY <1>1, <2>1, <2>2 DEF BundleStep, Return, ReturnShm, ReturnCs, WatcherCancels, TakeCancel,
                            AbandonAfterGrace, OsKills
<1>2. ASSUME NEW group \in BOOLEAN, CtrlC(group)
      PROVE  Cause'
  BY <1>2 DEF CtrlC, Cause, TypeOK
<1>3. CASE MainEnds
  <2>1. PICK b \in OnMain(plan) : TRUE
    BY <1>3 DEF MainEnds, MainIsDone
  <2>2. CASE bundle[b] = "interrupted"
    BY <1>3, <2>1, <2>2, Persistence DEF MainEnds, InterruptHasCause, Cause
  <2>3. CASE bundle[b] = "crashed"
    BY <2>1, <2>3, Persistence DEF Cause, Failure
  <2>4. CASE bundle[b] \in {"returned", "cancelled"}
    <3>1. GoesOn
      BY <1>3, <2>1, <2>4 DEF MainEnds
    <3>2. plan.role # "runner"
      BY <1>0, AlgorithmAlive, Places, Persistence, Lone, RunnersAssumption DEF Active, TakingPart, TypeOK, Plan
    <3>3. plan.role = "both" /\ plan.main = "runner"
      BY <1>0, <1>3, <2>1, <2>4, <3>2, Lone DEF OnMain, Alive, AliveStates, TypeOK
    <3>. QED
      BY <3>1, <3>3 DEF GoesOn
  <2>. QED
    BY <1>3, <2>1, <2>2, <2>3, <2>4 DEF MainEnds
<1>4. CASE AwaitEnds
  BY <1>0, <1>4, AlgorithmAlive DEF AwaitEnds
<1>5. CASE Escalate
  BY <1>0, <1>5, AlgorithmAlive DEF Escalate, ShutdownPhases
<1>6. CASE JoinEnds
  BY <1>6 DEF JoinEnds, Ends
<1>. QED
  BY <1>1, <1>2, <1>3, <1>4, <1>5, <1>6 DEF Next, BundleStep

LEMMA InterruptStep == IInv /\ Next => InterruptHasCause'
<1>. SUFFICES ASSUME IInv, Next, NEW b \in Active,
                     bundle'[b] \in {"draining", "unwinding", "interrupted"}
              PROVE  interrupts' > 0 \/ (b \in Children(plan) /\ phase' \notin {"main", "await"})
  BY Persistence DEF InterruptHasCause
<1>. USE DEF IInv
<1>1. phase \notin {"main", "await"} => phase' \notin {"main", "await"}
  BY BundleStepFacts DEF Next, BundleStep, CtrlC, Catches, ShutdownPhases, MainEnds, AwaitEnds,
                         JoinEnds, Ends, Escalate
<1>2. CASE bundle[b] \in {"draining", "unwinding", "interrupted"}
  BY <1>1, <1>2, StepFacts DEF InterruptHasCause
<1>3. CASE Escalate
  <2>1. b \in Bundles /\ (b \in AliveChildren \/ bundle'[b] = bundle[b])
    BY <1>3, Persistence DEF Escalate, Interrupts
  <2>. QED
    BY <1>2, <1>3, <2>1 DEF Escalate, AliveChildren
<1>4. CASE \E group \in BOOLEAN : CtrlC(group)
  BY <1>4 DEF CtrlC, TypeOK
<1>5. ASSUME bundle'[b] # bundle[b], NEW c \in Bundles, BundleStep(c)
      PROVE  bundle[b] \in {"draining", "unwinding", "interrupted"}
  <2>1. c = b
    BY <1>5, BundleStepFacts, Persistence
  <2>. QED
    BY <1>5, <2>1 DEF BundleStep, Return, ReturnShm, ReturnCs, Crash, WatcherCancels, TakeCancel,
                      AbandonAfterGrace, OsKills, Becomes, TypeOK
<1>6. CASE MainEnds \/ AwaitEnds \/ JoinEnds
  BY <1>2, <1>6 DEF MainEnds, AwaitEnds, JoinEnds, Ends
<1>. QED
  BY <1>2, <1>3, <1>4, <1>5, <1>6 DEF Next, BundleStep

LEMMA PendingStep == IInv /\ Next => PendingHasCause'
<1>. SUFFICES ASSUME IInv, Next PROVE PendingHasCause'
  OBVIOUS
<1>. USE DEF IInv
<1>1. \A b \in Active : bundle[b] \in {"crashed", "interrupted", "killed"} => bundle'[b] = bundle[b]
  BY StepFacts, Persistence DEF Alive, AliveStates
<1>2. CASE pending' = pending
  BY <1>1, <1>2, StepFacts, Persistence DEF PendingHasCause
<1>3. CASE \E group \in BOOLEAN : CtrlC(group)
  BY <1>2, <1>3 DEF CtrlC, Catches, TypeOK, PendingHasCause
<1>4. CASE MainEnds
  <2>1. PICK b \in OnMain(plan) : TRUE
    BY <1>4 DEF MainEnds, MainIsDone
  <2>2. CASE bundle[b] = "interrupted"
    BY <1>4, <2>1, <2>2, Persistence DEF MainEnds, Catches, InterruptHasCause, PendingHasCause
  <2>3. CASE bundle[b] = "crashed"
    BY <1>1, <1>4, <2>1, <2>3, Persistence DEF MainEnds, Catches, PendingHasCause
  <2>4. CASE bundle[b] \in {"returned", "cancelled"}
    BY <1>2, <1>4, <2>1, <2>4 DEF MainEnds, GoesOn
  <2>. QED
    BY <1>4, <2>1, <2>2, <2>3, <2>4 DEF MainEnds
<1>5. CASE AwaitEnds
  <2>1. SUFFICES ASSUME pending' = "crash", FailedChildren # {}
                 PROVE  PendingHasCause'
    BY <1>2, <1>5 DEF AwaitEnds, Catches
  <2>2. PICK b \in Children(plan) : bundle[b] \in IF Shm THEN {"crashed"} ELSE {"crashed", "interrupted", "killed"}
    BY <2>1 DEF FailedChildren
  <2>3. Shm \/ Cs
    BY DEF TypeOK, ShmPlans, CsPlans, Shm, Cs
  <2>. QED
    BY <1>1, <2>1, <2>2, <2>3, Persistence DEF PendingHasCause
<1>6. CASE JoinEnds \/ Escalate
  BY <1>2, <1>6 DEF JoinEnds, Ends, Escalate
<1>. QED
  BY <1>2, <1>3, <1>4, <1>5, <1>6, BundleStepFacts DEF Next, BundleStep

\* execute() ends once: by itself, or by Ctrl+C.
LEMMA EndFacts ==
  ASSUME IInv, Next, outcome' # "none"
  PROVE  /\ phase' = "ended"
         /\ outcome' = "interrupt" \/ JoinEnds
<1>1. outcome = "none"
  BY StepFacts DEF IInv, OutcomeIsLast
<1>. QED
  BY <1>1, BundleStepFacts DEF IInv, Next, BundleStep, CtrlC, MainEnds, AwaitEnds, JoinEnds, Ends, Escalate

LEMMA OutcomeStep == IInv /\ Next => OutcomeIsTrue'
<1>. SUFFICES ASSUME IInv, Next, JoinEnds PROVE OutcomeIsTrue'
  BY EndFacts DEF OutcomeIsTrue
<1>. USE DEF IInv
<1>1. /\ phase \in ShutdownPhases
      /\ bundle' = bundle /\ interrupts' = interrupts
      /\ outcome' = "returned" => pending # "crash" /\ (FailedChildren = {} \/ (~Shm /\ pending # "none"))
      /\ outcome' = "raised" => pending = "crash" \/ FailedChildren # {}
  BY DEF JoinEnds, Ends
<1>2. (Shm \/ Cs) /\ ~(Shm /\ Cs)
  BY DEF TypeOK, ShmPlans, CsPlans, Shm, Cs
<1>3. ASSUME outcome' = "returned", NEW b \in Active, bundle[b] \in {"crashed", "killed"}
      PROVE  Cs /\ interrupts > 0
  <2>1. b \in Children(plan)
    <3>1. b \notin OnMain(plan)
      BY <1>1, <1>3, Persistence DEF MainIsDone, TypeOK, Possible, ShutdownPhases
    <3>. QED
      BY <1>3, <3>1 DEF Active, Children
  <2>2. Shm => bundle[b] = "crashed"
    BY <1>2, <1>3, Persistence DEF TypeOK, Possible
  <2>3. b \in FailedChildren
    BY <1>3, <2>1, <2>2 DEF FailedChildren
  <2>. QED
    BY <1>1, <1>2, <1>3, <2>3 DEF PendingHasCause, TypeOK
<1>4. ASSUME outcome' = "raised"
      PROVE  \/ \E b \in Active : bundle[b] = "crashed"
             \/ Cs /\ \E b \in Children(plan) : bundle[b] \in {"interrupted", "killed"}
  <2>1. CASE pending = "crash"
    BY <2>1 DEF PendingHasCause
  <2>2. CASE FailedChildren # {}
    BY <1>2, <2>2, Persistence DEF FailedChildren
  <2>. QED
    BY <1>1, <1>4, <2>1, <2>2
<1>. QED
  BY <1>1, <1>3, <1>4, Persistence DEF OutcomeIsTrue

LEMMA NothingLeftStep == IInv /\ Next => NothingLeftBehind'
<1>. SUFFICES ASSUME IInv, Next, JoinEnds, NEW b \in AliveChildren' PROVE (Shm /\ Deaf(b) /\ stopEvt)'
  BY EndFacts DEF NothingLeftBehind
<1>1. b \in AliveChildren /\ b \in Bundles
  BY Persistence DEF AliveChildren
<1>2. Shm /\ Deaf(b) /\ stopEvt
  BY <1>1 DEF IInv, JoinEnds, ShutdownIsTold
<1>. QED
  BY <1>2, StepFacts, Persistence DEF IInv, Deaf

LEMMA AlgorithmStep == IInv /\ Next => AlgorithmRunsToItsEnd'
<1>. DEFINE Cut == {"cancelling", "cancelled", "draining", "unwinding", "interrupted", "terminated"}
<1>. SUFFICES ASSUME IInv, Next, bundle'["algorithm"] \in Cut PROVE Cause'
  BY DEF AlgorithmRunsToItsEnd, Cause, Failure
<1>. USE DEF IInv
<1>1. CASE bundle["algorithm"] \in Cut
  BY <1>1, Persistence DEF AlgorithmRunsToItsEnd, Cause, Failure
<1>2. CASE bundle["algorithm"] \notin Cut
  <2>1. Alive("algorithm") /\ bundle'["algorithm"] # bundle["algorithm"]
    BY <1>2, StepFacts DEF Bundles
  <2>2. stopEvt => Cause'
    BY <2>1, Persistence DEF StopHasCause
  <2>3. ASSUME NEW b \in Bundles, BundleStep(b)
        PROVE  stopEvt
    <3>1. b = "algorithm"
      BY <2>1, <2>3, BundleStepFacts DEF Bundles
    <3>. QED
      BY <1>2, <2>3, <3>1 DEF BundleStep, Return, ReturnShm, ReturnCs, Crash, WatcherCancels, TakeCancel,
                        AbandonAfterGrace, OsKills, Becomes, TypeOK
  <2>4. CASE \E group \in BOOLEAN : CtrlC(group)
    BY <2>4 DEF CtrlC, Cause, TypeOK
  <2>5. CASE Escalate
    BY <2>1, <2>2, <2>5, AlgorithmAlive DEF Escalate, ShutdownPhases
  <2>6. ~MainEnds /\ ~AwaitEnds /\ ~JoinEnds
    BY <2>1 DEF MainEnds, AwaitEnds, JoinEnds, Ends
  <2>. QED
    BY <2>2, <2>3, <2>4, <2>5, <2>6 DEF Next, BundleStep
<1>. QED
  BY <1>1, <1>2

-----------------------------------------------------------------------------
(* Theorems.                                                               *)

LEMMA InitInvariant == Init => IInv
<1>. SUFFICES ASSUME Init PROVE IInv
  OBVIOUS
<1>1. TypeOK
  BY InitType
<1>2. MainIsDone
  BY Lone DEF Init, MainIsDone, OnMain
<1>3. stopEvt = FALSE /\ pending = "none" /\ outcome = "none" /\ phase \in {"main", "await"}
      /\ \A b \in Bundles : bundle[b] \in {"running", "absent"}
  BY DEF Init
<1>4. Active \subseteq Bundles /\ "algorithm" \in Bundles
  BY <1>1, Lone, Places DEF Active, TypeOK, Bundles
<1>. QED
  BY <1>1, <1>2, <1>3, <1>4 DEF IInv, ShutdownIsTold, ShutdownPhases, StopHasCause, InterruptHasCause,
        PendingHasCause, OutcomeIsLast, OutcomeIsTrue, NothingLeftBehind, AlgorithmRunsToItsEnd

LEMMA StutterInvariant == IInv /\ UNCHANGED vars => IInv'
<1>. SUFFICES ASSUME IInv, UNCHANGED vars PROVE IInv'
  OBVIOUS
<1>. USE DEF IInv, vars, Active, Shm, Cs, Alive, AliveChildren
<1>1. TypeOK'
  BY TypeStep
<1>2. MainIsDone'
  BY DEF MainIsDone
<1>3. ShutdownIsTold'
  BY DEF ShutdownIsTold
<1>4. (Cause <=> Cause') /\ StopHasCause'
  BY DEF StopHasCause, Cause, Failure
<1>5. InterruptHasCause'
  BY DEF InterruptHasCause
<1>6. PendingHasCause' /\ OutcomeIsLast'
  BY DEF PendingHasCause, OutcomeIsLast
<1>7. OutcomeIsTrue'
  BY DEF OutcomeIsTrue
<1>8. NothingLeftBehind'
  BY DEF NothingLeftBehind, Deaf
<1>9. AlgorithmRunsToItsEnd'
  BY DEF AlgorithmRunsToItsEnd
<1>. QED
  BY <1>1, <1>2, <1>3, <1>4, <1>5, <1>6, <1>7, <1>8, <1>9

LEMMA Invariant == Spec => []IInv
<1>1. IInv /\ Next => OutcomeIsLast'
  BY EndFacts DEF OutcomeIsLast
<1>2. IInv /\ Next => IInv'
  BY <1>1, TypeStep, MainStep, ShutdownStep, StopStep, InterruptStep, PendingStep, OutcomeStep,
     NothingLeftStep, AlgorithmStep DEF IInv
<1>. QED
  BY <1>2, InitInvariant, StutterInvariant, PTL DEF Spec

\* Every variable keeps its type, and no bundle meets a fate that is meant for
\* others: a watcher's cancellation in a process, a signal in a thread.
THEOREM TypeCorrect == Spec => []TypeOK
BY Invariant, PTL DEF IInv

\* execute() tells how it went: no crash is swallowed but by Ctrl+C in the
\* client-server strategy, and no failure is made up.
THEOREM OutcomeTrue == Spec => []OutcomeIsTrue
BY Invariant, PTL DEF IInv

\* When execute() is over it has left nothing running that it could stop.
THEOREM NothingLeft == Spec => []NothingLeftBehind
BY Invariant, PTL DEF IInv

\* Only Ctrl+C or a failure cuts the algorithm short.
THEOREM AlgorithmUndisturbed == Spec => []AlgorithmRunsToItsEnd
BY Invariant, PTL DEF IInv
=============================================================================
