----------------------------- MODULE StorageProofs -----------------------------
(***************************************************************************)
(* Proofs about how the store keeps things: SpanStore, for every set of    *)
(* rollouts and spans, every size of the spans and every pair of           *)
(* thresholds; StoreCalls, for every set of callers, plans and back ends   *)
(* and every number of tries; Collections, for every set of values, every  *)
(* folding of their case and every number of items.                        *)
(***************************************************************************)
EXTENDS SpanStore, StoreCalls, Collections, FiniteSetTheorems, SequenceLemmas

-----------------------------------------------------------------------------
(* The spans: SpanStore.                                                    *)

\* The inductive invariant: what of TypeOK the properties need, ...
PartialType ==
  /\ counter \in [Rollouts -> Nat]
  /\ issued \in [Rollouts -> Seq(Nat)]
  /\ highest \in [Rollouts -> Nat]
  /\ spans \in [Rollouts -> SUBSET Spans]
  /\ accepted \in [Rollouts -> SUBSET Spans]
  /\ bytes \in [Rollouts -> Nat]

\* ... the counter is at or above every sequence id issued or seen, ...
CounterLeads == \A r \in Rollouts : highest[r] <= counter[r]

\* ... and a rollout not marked evicted holds all it was given and has bytes on its
\* account if that is anything: were its account empty, _evict_spans_for_rollout
\* would take its spans and not mark it.
Weighty == \A s \in Spans : SizeOf[s] > 0

Held(r) ==
  r \notin evicted =>
    /\ spans[r] = accepted[r]
    /\ accepted[r] # {} => bytes[r] > 0

SpanInv == PartialType /\ CounterLeads /\ (Weighty => \A r \in Rollouts : Held(r))

\* The invariant holds initially.
LEMMA SpanInvInit == Init => SpanInv
BY DEF Init, SpanInv, PartialType, CounterLeads, Held

\* The operations of the counter keep it ahead, and what they issue is above all
\* that was issued or seen.
LEMMA IssueFacts ==
  ASSUME PartialType, CounterLeads, NEW r \in Rollouts, IssueSpanSequenceId(r)
  PROVE  /\ counter' \in [Rollouts -> Nat] /\ highest' \in [Rollouts -> Nat]
         /\ issued' \in [Rollouts -> Seq(Nat)]
         /\ CounterLeads'
         /\ Last(issued'[r]) > highest[r]
         /\ \A q \in Rollouts : q # r => issued'[q] = issued[q]
<1> DEFINE n == counter[r] + 1
<1>1. n \in Nat /\ n > highest[r] /\ counter[r] \in Nat /\ highest[r] \in Nat
      /\ highest[r] <= counter[r] /\ issued[r] \in Seq(Nat)
  BY DEF PartialType, CounterLeads
<1>2. /\ counter' = [counter EXCEPT ![r] = n]
      /\ issued' = [issued EXCEPT ![r] = Append(issued[r], n)]
      /\ highest' = [highest EXCEPT ![r] = IF n > highest[r] THEN n ELSE highest[r]]
  BY DEF IssueSpanSequenceId, Raised, PartialType
<1>3. Append(issued[r], n) \in Seq(Nat) /\ Last(Append(issued[r], n)) = n
  <2>1. /\ Append(issued[r], n) \in Seq(Nat)
        /\ Len(Append(issued[r], n)) = Len(issued[r]) + 1
        /\ Append(issued[r], n)[Len(issued[r]) + 1] = n
    BY <1>1
  <2>2. QED BY <2>1 DEF Last
<1>4. /\ counter' \in [Rollouts -> Nat] /\ highest' \in [Rollouts -> Nat]
      /\ counter'[r] = n /\ highest'[r] = n
      /\ \A q \in Rollouts : q # r => counter'[q] = counter[q] /\ highest'[q] = highest[q]
  BY <1>1, <1>2 DEF PartialType
<1>5. CounterLeads'
  BY <1>1, <1>4 DEF CounterLeads
<1>6. /\ issued' \in [Rollouts -> Seq(Nat)] /\ issued'[r] = Append(issued[r], n)
      /\ \A q \in Rollouts : q # r => issued'[q] = issued[q]
  BY <1>2, <1>3 DEF PartialType
<1>7. QED
  BY <1>1, <1>3, <1>4, <1>5, <1>6

\* The id a span brings leaves the counter ahead.
LEMMA SyncFacts ==
  ASSUME PartialType, CounterLeads, NEW r \in Rollouts, NEW n \in Nat, SyncSpanSequenceId(r, n)
  PROVE  /\ counter' \in [Rollouts -> Nat] /\ highest' \in [Rollouts -> Nat]
         /\ issued' = issued
         /\ CounterLeads'
<1>1. /\ counter' = [counter EXCEPT ![r] = IF n > counter[r] THEN n ELSE counter[r]]
      /\ highest' = [highest EXCEPT ![r] = IF n > highest[r] THEN n ELSE highest[r]]
      /\ issued' = issued
  BY DEF SyncSpanSequenceId, Raised, PartialType
<1>2. counter' \in [Rollouts -> Nat] /\ highest' \in [Rollouts -> Nat]
  BY <1>1 DEF PartialType
<1>3. CounterLeads'
  BY <1>1 DEF CounterLeads, PartialType
<1>4. QED
  BY <1>1, <1>2, <1>3

\* Storing a span, with whatever it evicts, keeps answers complete.
LEMMA StoreFacts ==
  ASSUME SpanAssumption, PartialType, Weighty => \A q \in Rollouts : Held(q),
         NEW r \in Rollouts, NEW s \in Spans, StoreSpan(r, s)
  PROVE  /\ spans' \in [Rollouts -> SUBSET Spans]
         /\ accepted' \in [Rollouts -> SUBSET Spans]
         /\ bytes' \in [Rollouts -> Nat]
         /\ Weighty => \A q \in Rollouts : Held(q)'
<1> DEFINE b == [bytes EXCEPT ![r] = @ + SizeOf[s]]
           E == Evictable(b, total + SizeOf[s])
<1>1. /\ bytes' = [q \in Rollouts |-> IF q \in E THEN 0 ELSE b[q]]
      /\ evicted' = evicted \cup {q \in E : b[q] > 0}
      /\ spans' = [q \in Rollouts |-> IF q \in E THEN {}
                                      ELSE IF q = r THEN spans[r] \cup {s} ELSE spans[q]]
      /\ accepted' = [accepted EXCEPT ![r] = @ \cup {s}]
  BY DEF StoreSpan, EvictSpans
<1>2. SizeOf[s] \in Nat
  BY DEF SpanAssumption
<1> HIDE DEF E
<1>3. b \in [Rollouts -> Nat] /\ b[r] = bytes[r] + SizeOf[s]
      /\ \A q \in Rollouts : q # r => b[q] = bytes[q]
  BY <1>2 DEF PartialType
<1> HIDE DEF b
<1>4. bytes' \in [Rollouts -> Nat]
  BY <1>1, <1>3
<1>5. spans' \in [Rollouts -> SUBSET Spans] /\ accepted' \in [Rollouts -> SUBSET Spans]
  BY <1>1 DEF PartialType
<1>6. ASSUME Weighty, NEW q \in Rollouts, q \notin evicted'
      PROVE  spans'[q] = accepted'[q] /\ (accepted'[q] # {} => bytes'[q] > 0)
  <2>1. q \notin evicted /\ spans[q] = accepted[q] /\ (accepted[q] # {} => bytes[q] > 0)
        /\ (q \in E => ~(b[q] > 0))
    BY <1>1, <1>6 DEF Held
  <2>2. bytes[q] \in Nat /\ SizeOf[s] > 0 /\ b[q] \in Nat
    BY <1>3, <1>6 DEF PartialType, Weighty
  <2>3. CASE q = r
    <3>1. b[r] > 0
      BY <1>2, <1>3, <2>2, <2>3
    <3>2. q \notin E
      BY <2>1, <2>3, <3>1
    <3>3. spans'[q] = spans[r] \cup {s} /\ accepted'[q] = accepted[r] \cup {s} /\ bytes'[q] = b[r]
      BY <1>1, <2>3, <3>2 DEF PartialType
    <3>4. QED
      BY <2>1, <2>3, <3>1, <3>3
  <2>4. CASE q # r
    <3>1. accepted'[q] = accepted[q] /\ b[q] = bytes[q]
      BY <1>1, <1>3, <2>4 DEF PartialType
    <3>2. CASE q \in E
      <4>1. accepted[q] = {}
        BY <2>1, <3>1, <3>2
      <4>2. spans'[q] = {}
        BY <1>1, <3>2
      <4>3. QED BY <3>1, <4>1, <4>2
    <3>3. CASE q \notin E
      <4>1. spans'[q] = spans[q] /\ bytes'[q] = bytes[q]
        BY <1>1, <2>4, <3>1, <3>3
      <4>2. QED BY <2>1, <3>1, <4>1
    <3>4. QED BY <3>2, <3>3
  <2>5. QED BY <2>3, <2>4
<1>7. QED
  BY <1>4, <1>5, <1>6 DEF Held

\* The half of an operation that is about memory: Take or nothing.
LEMMA TakeFacts ==
  ASSUME SpanAssumption, SpanInv, NEW r \in Rollouts, NEW s \in Spans, Take(r, s)
  PROVE  /\ spans' \in [Rollouts -> SUBSET Spans]
         /\ accepted' \in [Rollouts -> SUBSET Spans]
         /\ bytes' \in [Rollouts -> Nat]
         /\ Weighty => \A q \in Rollouts : Held(q)'
<1>1. CASE StoreSpan(r, s)
  BY <1>1, StoreFacts DEF SpanInv
<1>2. CASE Reject
  BY <1>2 DEF Reject, SpanInv, PartialType, Held
<1>3. QED
  BY <1>1, <1>2 DEF Take

\* Every operation preserves the invariant.
LEMMA SpanInvNext == SpanInv /\ [Next]_svars => SpanInv'
<1> SUFFICES ASSUME SpanInv, [Next]_svars
             PROVE  SpanInv'
  OBVIOUS
<1> USE SpanAssumption
<1>1. ASSUME NEW r \in Rollouts, GetNextSpanSequenceId(r)
      PROVE  SpanInv'
  <2>1. /\ counter' \in [Rollouts -> Nat] /\ highest' \in [Rollouts -> Nat]
        /\ issued' \in [Rollouts -> Seq(Nat)] /\ CounterLeads'
    BY <1>1, IssueFacts DEF GetNextSpanSequenceId, SpanInv
  <2>2. QED
    BY <1>1, <2>1 DEF GetNextSpanSequenceId, SpanInv, PartialType, Held, Weighty
<1>2. ASSUME NEW r \in Rollouts, NEW s \in Spans, NEW n \in 1 .. SequenceBound, AddSpan(r, s, n)
      PROVE  SpanInv'
  <2>1. n \in Nat
    BY SpanAssumption DEF SpanAssumption
  <2>2. /\ counter' \in [Rollouts -> Nat] /\ highest' \in [Rollouts -> Nat]
        /\ issued' = issued /\ CounterLeads'
    BY <1>2, <2>1, SyncFacts DEF AddSpan, SpanInv
  <2>3. /\ spans' \in [Rollouts -> SUBSET Spans] /\ accepted' \in [Rollouts -> SUBSET Spans]
        /\ bytes' \in [Rollouts -> Nat] /\ (Weighty => \A q \in Rollouts : Held(q)')
    BY <1>2, TakeFacts DEF AddSpan
  <2>4. QED
    BY <2>2, <2>3 DEF SpanInv, PartialType, Weighty
<1>3. ASSUME NEW r \in Rollouts, NEW s \in Spans, AddOtelSpan(r, s)
      PROVE  SpanInv'
  <2>1. /\ counter' \in [Rollouts -> Nat] /\ highest' \in [Rollouts -> Nat]
        /\ issued' \in [Rollouts -> Seq(Nat)] /\ CounterLeads'
    BY <1>3, IssueFacts DEF AddOtelSpan, SpanInv
  <2>2. /\ spans' \in [Rollouts -> SUBSET Spans] /\ accepted' \in [Rollouts -> SUBSET Spans]
        /\ bytes' \in [Rollouts -> Nat] /\ (Weighty => \A q \in Rollouts : Held(q)')
    BY <1>3, TakeFacts DEF AddOtelSpan
  <2>3. QED
    BY <2>1, <2>2 DEF SpanInv, PartialType, Weighty
<1>4. CASE UNCHANGED svars
  BY <1>4 DEF svars, SpanInv, PartialType, CounterLeads, Held, Weighty
<1>5. QED
  BY <1>1, <1>2, <1>3, <1>4 DEF Next

-----------------------------------------------------------------------------
\* A query of spans that is answered leaves out no span the store ever took in,
\* whatever was evicted in between.
THEOREM AnswersComplete == Spec => []AnswersAreComplete
<1>1. SpanInv => AnswersAreComplete
  BY DEF SpanInv, AnswersAreComplete, Held, Weighty
<1>2. QED
  BY SpanInvInit, SpanInvNext, <1>1, PTL DEF Spec

\* No sequence id is issued twice, nor below one seen on a span.
THEOREM SequenceIdsFresh == Spec => SequenceIdsAreFresh
<1> DEFINE Fresh == \A r \in Rollouts : issued'[r] # issued[r] => Last(issued'[r]) > highest[r]
<1>1. SpanInv /\ [Next]_svars => [Fresh]_svars
  <2> SUFFICES ASSUME SpanInv, Next
               PROVE  Fresh
    OBVIOUS
  <2> USE SpanAssumption
  <2>1. ASSUME NEW r \in Rollouts, IssueSpanSequenceId(r)
        PROVE  Fresh
    BY <2>1, IssueFacts DEF SpanInv
  <2>2. ASSUME NEW r \in Rollouts, NEW n, SyncSpanSequenceId(r, n)
        PROVE  Fresh
    BY <2>2 DEF SyncSpanSequenceId
  <2>3. QED
    BY <2>1, <2>2 DEF Next, GetNextSpanSequenceId, AddSpan, AddOtelSpan
<1>2. QED
  BY SpanInvInit, SpanInvNext, <1>1, PTL DEF Spec, SequenceIdsAreFresh

-----------------------------------------------------------------------------
\* Whatever is evicted, the older rollouts are evicted with it.
LEMMA EvictsFromOldest ==
  ASSUME SpanAssumption, NEW b, NEW tot,
         NEW i \in DOMAIN ByStartTime, NEW j \in DOMAIN ByStartTime, i < j,
         ByStartTime[j] \in Evictable(b, tot)
  PROVE  ByStartTime[i] \in Evictable(b, tot)
<1> DEFINE Reached(k) == \A m \in 0 .. k - 1 : tot - BytesOf(b, Oldest(m)) > SafeThreshold
<1>1. DOMAIN ByStartTime = 1 .. Len(ByStartTime) /\ Len(ByStartTime) \in Nat
      /\ IsInjective(ByStartTime)
  BY DEF SpanAssumption
<1>2. /\ ~(tot <= EvictionThreshold)
      /\ Evictable(b, tot) = {ByStartTime[k] : k \in {m \in DOMAIN ByStartTime : Reached(m)}}
  BY DEF Evictable
<1>3. PICK m \in DOMAIN ByStartTime : ByStartTime[j] = ByStartTime[m] /\ Reached(m)
  BY <1>2
<1>4. Reached(j)
  BY <1>1, <1>3 DEF IsInjective
<1>5. 0 .. i - 1 \subseteq 0 .. j - 1
  BY <1>1
<1>6. Reached(i)
  BY <1>4, <1>5
<1> HIDE DEF Reached
<1>7. QED
  BY <1>2, <1>6

\* A rollout loses spans only in a step that leaves no spans to any older one.
THEOREM OldestFirst == Spec => OldestGoFirst
<1> DEFINE A == \A i, j \in DOMAIN ByStartTime :
                  LET old == ByStartTime[i]  young == ByStartTime[j] IN
                  i < j /\ ~(spans[young] \subseteq spans'[young]) => spans'[old] = {}
<1>1. SpanInv /\ [Next]_svars => [A]_svars
  <2> SUFFICES ASSUME SpanInv, Next,
                      NEW i \in DOMAIN ByStartTime, NEW j \in DOMAIN ByStartTime, i < j,
                      ~(spans[ByStartTime[j]] \subseteq spans'[ByStartTime[j]])
               PROVE  spans'[ByStartTime[i]] = {}
    OBVIOUS
  <2> USE SpanAssumption
  <2>1. ByStartTime[i] \in Rollouts /\ ByStartTime[j] \in Rollouts
    BY DEF SpanAssumption
  <2>2. ASSUME NEW r \in Rollouts, NEW s \in Spans, StoreSpan(r, s)
        PROVE  spans'[ByStartTime[i]] = {}
    <3> DEFINE E == Evictable([bytes EXCEPT ![r] = @ + SizeOf[s]], total + SizeOf[s])
    <3>1. spans' = [q \in Rollouts |-> IF q \in E THEN {}
                                       ELSE IF q = r THEN spans[r] \cup {s} ELSE spans[q]]
      BY <2>2 DEF StoreSpan
    <3>2. ByStartTime[j] \in E => ByStartTime[i] \in E
      BY EvictsFromOldest
    <3> HIDE DEF E
    <3>3. ByStartTime[j] \in E
      BY <2>1, <3>1
    <3>4. QED
      BY <2>1, <3>1, <3>2, <3>3
  <2>3. PICK r \in Rollouts : GetNextSpanSequenceId(r) \/ Reject \/ \E s \in Spans : StoreSpan(r, s)
    BY DEF Next, AddSpan, AddOtelSpan, Take
  <2>4. QED
    BY <2>2, <2>3 DEF GetNextSpanSequenceId, Reject
<1>2. QED
  BY SpanInvInit, SpanInvNext, <1>1, PTL DEF Spec, OldestGoFirst

-----------------------------------------------------------------------------
\* Sums.  The order in which MapThenSumSet takes the elements is CHOOSE's; that it does
\* not matter is proved by induction on the subsets of a finite set.

\* The least number of a set.
LEMMA Least ==
  ASSUME NEW T \in SUBSET Nat, T # {}
  PROVE  \E n \in T : \A m \in T : n <= m
<1> DEFINE R == {p \in Nat \X Nat : p[1] < p[2]}
<1>1. IsWellFoundedOn(R, Nat)
  BY NatLessThanWellFounded DEF OpToRel
<1> HIDE DEF R
<1>2. PICK n \in T : \A m \in T : ~(<<m, n>> \in R)
  BY <1>1, WFMin
<1>3. \A m \in T : ~(m < n)
  BY <1>2 DEF R
<1>4. QED BY <1>3

\* A collection of finite sets that has each set whose proper subsets it has, has all.
LEMMA SubsetInduction ==
  ASSUME NEW T, IsFiniteSet(T), NEW P,
         \A S \in SUBSET T : (\A U \in SUBSET S : U # S => U \in P) => S \in P
  PROVE  \A S \in SUBSET T : S \in P
<1> SUFFICES ASSUME NEW Z \in SUBSET T, Z \notin P PROVE FALSE
  OBVIOUS
<1> DEFINE Bad == {n \in Nat : \E S \in SUBSET T : Cardinality(S) = n /\ S \notin P}
<1>1. \A S \in SUBSET T : IsFiniteSet(S) /\ Cardinality(S) \in Nat
  BY FS_Subset, FS_CardinalityType
<1>2. Bad # {}
  BY <1>1
<1>3. PICK n \in Bad : \A m \in Bad : n <= m
  BY <1>2, Least
<1>4. PICK S \in SUBSET T : Cardinality(S) = n /\ S \notin P
  BY <1>3
<1>5. ASSUME NEW U \in SUBSET S, U # S PROVE U \in P
  <2>1. Cardinality(U) < Cardinality(S)
    <3>1. Cardinality(U) <= Cardinality(S) /\ Cardinality(U) # Cardinality(S)
      BY <1>1, <1>5, FS_Subset
    <3>2. QED BY <3>1, <1>1
  <2>2. Cardinality(U) \notin Bad
    BY <2>1, <1>1, <1>3, <1>4
  <2>3. QED BY <2>2, <1>1
<1>6. QED BY <1>4, <1>5

Chosen(s) == CHOOSE x \in s : TRUE

\* F is what MapThenSumSet computes on the way to the sum of g over S.
Sums(g, S, F) ==
  F = [s \in SUBSET S |-> IF s = {} THEN 0 ELSE g[Chosen(s)] + F[s \ {Chosen(s)}]]

LEMMA SumChoice ==
  ASSUME NEW g, NEW S
  PROVE  BytesOf(g, S) = (CHOOSE F : Sums(g, S, F))[S]
BY DEF BytesOf, Sums, Chosen, MapThenSumSet, MapThenFoldSet

LEMMA ChosenFacts ==
  ASSUME NEW s, s # {}
  PROVE  Chosen(s) \in s /\ s \ {Chosen(s)} \in SUBSET s /\ s \ {Chosen(s)} # s
BY DEF Chosen


\* Two such functions agree where both are defined ...
LEMMA SumsAgree ==
  ASSUME NEW g, NEW T, IsFiniteSet(T), NEW R \in SUBSET T, NEW S \in SUBSET R,
         NEW F, NEW G, Sums(g, R, F), Sums(g, S, G)
  PROVE  F[S] = G[S]
<1> DEFINE P == {s \in SUBSET S : F[s] = G[s]}
<1>1. ASSUME NEW s \in SUBSET S, \A u \in SUBSET s : u # s => u \in P
      PROVE  s \in P
  <2>1. /\ F[s] = IF s = {} THEN 0 ELSE g[Chosen(s)] + F[s \ {Chosen(s)}]
        /\ G[s] = IF s = {} THEN 0 ELSE g[Chosen(s)] + G[s \ {Chosen(s)}]
    BY DEF Sums
  <2>2. s # {} => F[s \ {Chosen(s)}] = G[s \ {Chosen(s)}]
    BY <1>1, ChosenFacts
  <2>3. QED BY <2>1, <2>2
<1>2. IsFiniteSet(S)
  BY FS_Subset
<1> HIDE DEF P
<1>3. \A s \in SUBSET S : s \in P
  BY <1>1, <1>2, SubsetInduction
<1>4. QED BY <1>3 DEF P

\* ... and they exist.
LEMMA SumsExist ==
  ASSUME NEW g, NEW T, IsFiniteSet(T)
  PROVE  \A S \in SUBSET T : \E F : Sums(g, S, F)
<1> DEFINE P == {S \in SUBSET T : \E F : Sums(g, S, F)}
<1>1. ASSUME NEW S \in SUBSET T, \A U \in SUBSET S : U # S => U \in P
      PROVE  S \in P
  <2> DEFINE F(U) == CHOOSE f : Sums(g, U, f)
             Rest(s) == s \ {Chosen(s)}
             G == [s \in SUBSET S |-> IF s = {} THEN 0 ELSE g[Chosen(s)] + F(Rest(s))[Rest(s)]]
  <2>1. \A U \in SUBSET S : U # S => Sums(g, U, F(U))
    BY <1>1
  <2> HIDE DEF F
  <2>2. ASSUME NEW U \in SUBSET S, U # S PROVE G[U] = F(U)[U]
    <3>1. F(U)[U] = IF U = {} THEN 0 ELSE g[Chosen(U)] + F(U)[Rest(U)]
      BY <2>1, <2>2 DEF Sums
    <3>2. U # {} => F(U)[Rest(U)] = F(Rest(U))[Rest(U)]
      <4> SUFFICES ASSUME U # {} PROVE F(U)[Rest(U)] = F(Rest(U))[Rest(U)]
        OBVIOUS
      <4>1. Rest(U) \in SUBSET U /\ Rest(U) \in SUBSET S /\ Rest(U) # S
        BY ChosenFacts, <2>2
      <4>2. Sums(g, U, F(U)) /\ Sums(g, Rest(U), F(Rest(U)))
        BY <2>1, <2>2, <4>1
      <4> DEFINE V == Rest(U)
      <4> HIDE DEF V
      <4>3. V \in SUBSET U /\ Sums(g, V, F(V)) /\ Sums(g, U, F(U)) /\ U \in SUBSET T
        BY <4>1, <4>2 DEF V
      <4>4. \A s \in SUBSET U : F(U)[s] = IF s = {} THEN 0 ELSE g[Chosen(s)] + F(U)[s \ {Chosen(s)}]
        BY <4>2 DEF Sums
      <4>5. F(U)[V] = F(V)[V]
        BY <4>3, SumsAgree
      <4>6. QED BY <4>5 DEF V
    <3>3. QED BY <3>1, <3>2
  <2>3. ASSUME NEW s \in SUBSET S, s # {} PROVE F(Rest(s))[Rest(s)] = G[Rest(s)]
    <3>1. Rest(s) \in SUBSET S /\ Rest(s) # S
      BY <2>3, ChosenFacts
    <3>2. QED BY <2>2, <3>1
  <2>4. G = [s \in SUBSET S |-> IF s = {} THEN 0 ELSE g[Chosen(s)] + G[Rest(s)]]
    BY <2>3
  <2>5. Sums(g, S, G)
    BY <2>4 DEF Sums
  <2>6. QED BY <2>5
<1> HIDE DEF P
<1>2. \A S \in SUBSET T : S \in P
  BY <1>1, SubsetInduction
<1>3. QED BY <1>2 DEF P

\* How the sum is computed: an element first, then the others.
LEMMA SumFirst ==
  ASSUME NEW g, NEW S, IsFiniteSet(S)
  PROVE  /\ BytesOf(g, {}) = 0
         /\ S # {} => BytesOf(g, S) = g[Chosen(S)] + BytesOf(g, S \ {Chosen(S)})
<1> DEFINE F(U) == CHOOSE f : Sums(g, U, f)
<1>1. \A U \in SUBSET S : BytesOf(g, U) = F(U)[U] /\ Sums(g, U, F(U))
  BY SumsExist, SumChoice
<1>2. BytesOf(g, {}) = 0
  BY <1>1 DEF Sums
<1>3. ASSUME S # {} PROVE BytesOf(g, S) = g[Chosen(S)] + BytesOf(g, S \ {Chosen(S)})
  <2> DEFINE V == S \ {Chosen(S)}
  <2>1. V \in SUBSET S
    OBVIOUS
  <2>2. F(S)[S] = g[Chosen(S)] + F(S)[V]
    <3>1. Sums(g, S, F(S))
      BY <1>1
    <3> HIDE DEF F
    <3>2. F(S) = [s \in SUBSET S |-> IF s = {} THEN 0 ELSE g[Chosen(s)] + F(S)[s \ {Chosen(s)}]]
      BY <3>1 DEF Sums
    <3>3. QED BY <3>2, <1>3
  <2>3. Sums(g, S, F(S)) /\ Sums(g, V, F(V)) /\ BytesOf(g, V) = F(V)[V] /\ BytesOf(g, S) = F(S)[S]
    BY <1>1, <2>1
  <2> HIDE DEF F, V
  <2>4. F(S)[V] = F(V)[V]
    BY <2>1, <2>3, SumsAgree
  <2>5. QED BY <2>2, <2>3, <2>4 DEF V
<1>4. QED BY <1>2, <1>3

LEMMA SumType ==
  ASSUME NEW T, IsFiniteSet(T), NEW g, \A x \in T : g[x] \in Nat
  PROVE  \A S \in SUBSET T : BytesOf(g, S) \in Nat
<1> DEFINE P == {S \in SUBSET T : BytesOf(g, S) \in Nat}
<1>1. ASSUME NEW S \in SUBSET T, \A U \in SUBSET S : U # S => U \in P
      PROVE  S \in P
  <2>1. IsFiniteSet(S)
    BY FS_Subset
  <2>2. CASE S = {}
    <3>1. BytesOf(g, {}) = 0
      BY <2>1, SumFirst
    <3>2. QED BY <2>2, <3>1
  <2>3. CASE S # {}
    <3>1. g[Chosen(S)] \in Nat /\ BytesOf(g, S \ {Chosen(S)}) \in Nat
      BY <1>1, <2>3, ChosenFacts
    <3>2. QED BY <2>1, <2>3, <3>1, SumFirst
  <2>4. QED BY <2>2, <2>3
<1> HIDE DEF P
<1>2. \A S \in SUBSET T : S \in P
  BY <1>1, SubsetInduction
<1>3. QED BY <1>2 DEF P

\* The order does not matter: any element can go first.
LEMMA SumSplit ==
  ASSUME NEW T, IsFiniteSet(T), NEW g, \A x \in T : g[x] \in Nat
  PROVE  \A S \in SUBSET T : \A x \in S : BytesOf(g, S) = g[x] + BytesOf(g, S \ {x})
<1> DEFINE P == {S \in SUBSET T : \A x \in S : BytesOf(g, S) = g[x] + BytesOf(g, S \ {x})}
<1>1. ASSUME NEW S \in SUBSET T, \A U \in SUBSET S : U # S => U \in P, NEW x \in S
      PROVE  BytesOf(g, S) = g[x] + BytesOf(g, S \ {x})
  <2> DEFINE y == Chosen(S)
  <2>1. IsFiniteSet(S) /\ y \in S
    BY FS_Subset, ChosenFacts
  <2>2. BytesOf(g, S) = g[y] + BytesOf(g, S \ {y})
    BY <2>1, SumFirst
  <2> HIDE DEF y
  <2>3. CASE x = y
    BY <2>2, <2>3
  <2>4. CASE x # y
    <3>1. BytesOf(g, S \ {y}) = g[x] + BytesOf(g, (S \ {y}) \ {x})
      <4>1. S \ {y} \in SUBSET S /\ S \ {y} # S /\ x \in S \ {y}
        BY <2>1, <2>4
      <4>2. QED BY <4>1, <1>1
    <3>2. BytesOf(g, S \ {x}) = g[y] + BytesOf(g, (S \ {x}) \ {y})
      <4>1. S \ {x} \in SUBSET S /\ S \ {x} # S /\ y \in S \ {x}
        BY <2>1, <2>4
      <4>2. QED BY <4>1, <1>1
    <3>3. (S \ {y}) \ {x} = (S \ {x}) \ {y}
      OBVIOUS
    <3> DEFINE rest == BytesOf(g, (S \ {x}) \ {y})
    <3>4. g[x] \in Nat /\ g[y] \in Nat /\ rest \in Nat
      BY <2>1, SumType
    <3>5. /\ BytesOf(g, S) = g[y] + (g[x] + rest)
          /\ BytesOf(g, S \ {x}) = g[y] + rest
      BY <2>2, <3>1, <3>2, <3>3
    <3> HIDE DEF rest
    <3>6. QED BY <3>4, <3>5
  <2>5. QED BY <2>3, <2>4
<1>2. \A S \in SUBSET T : (\A U \in SUBSET S : U # S => U \in P) => S \in P
  BY <1>1
<1> HIDE DEF P
<1>3. \A S \in SUBSET T : S \in P
  BY <1>2, SubsetInduction
<1>4. QED BY <1>3 DEF P

\* Larger terms, larger sum.
LEMMA SumMonotone ==
  ASSUME NEW T, IsFiniteSet(T), NEW g, \A x \in T : g[x] \in Nat, NEW h, \A x \in T : h[x] \in Nat
  PROVE  \A S \in SUBSET T : (\A x \in S : g[x] <= h[x]) => BytesOf(g, S) <= BytesOf(h, S)
<1> DEFINE P == {S \in SUBSET T : (\A x \in S : g[x] <= h[x]) => BytesOf(g, S) <= BytesOf(h, S)}
<1>1. ASSUME NEW S \in SUBSET T, \A U \in SUBSET S : U # S => U \in P,
             \A x \in S : g[x] <= h[x]
      PROVE  BytesOf(g, S) <= BytesOf(h, S)
  <2>1. IsFiniteSet(S)
    BY FS_Subset
  <2>2. CASE S = {}
    <3>1. BytesOf(g, {}) = 0 /\ BytesOf(h, {}) = 0
      BY <2>1, SumFirst
    <3>2. QED BY <2>2, <3>1
  <2>3. CASE S # {}
    <3> DEFINE y == Chosen(S)
    <3>1. y \in S /\ S \ {y} \in SUBSET S /\ S \ {y} # S
      BY <2>3, ChosenFacts
    <3> HIDE DEF y
    <3>2. BytesOf(g, S \ {y}) <= BytesOf(h, S \ {y})
      BY <3>1, <1>1
    <3>3. /\ BytesOf(g, S) = g[y] + BytesOf(g, S \ {y})
          /\ BytesOf(h, S) = h[y] + BytesOf(h, S \ {y})
      BY <3>1, SumSplit
    <3>4. BytesOf(g, S \ {y}) \in Nat /\ BytesOf(h, S \ {y}) \in Nat /\ g[y] \in Nat /\ h[y] \in Nat
          /\ g[y] <= h[y]
      BY <3>1, <1>1, SumType
    <3>5. QED BY <3>2, <3>3, <3>4
  <2>4. QED BY <2>2, <2>3
<1>2. \A S \in SUBSET T : (\A U \in SUBSET S : U # S => U \in P) => S \in P
  BY <1>1
<1> HIDE DEF P
<1>3. \A S \in SUBSET T : S \in P
  BY <1>2, SubsetInduction
<1>4. QED BY <1>3 DEF P

\* Terms that become zero leave the sum.
LEMMA SumWithout ==
  ASSUME NEW T, IsFiniteSet(T), NEW g, \A x \in T : g[x] \in Nat, NEW E,
         NEW h, \A x \in T : h[x] = IF x \in E THEN 0 ELSE g[x]
  PROVE  BytesOf(g, T) = BytesOf(h, T) + BytesOf(g, T \cap E)
<1> DEFINE P == {S \in SUBSET T : BytesOf(g, S) = BytesOf(h, S) + BytesOf(g, S \cap E)}
<1>1. ASSUME NEW S \in SUBSET T, \A U \in SUBSET S : U # S => U \in P
      PROVE  BytesOf(g, S) = BytesOf(h, S) + BytesOf(g, S \cap E)
  <2>1. IsFiniteSet(S)
    BY FS_Subset
  <2>2. CASE S = {}
    <3>1. BytesOf(g, {}) = 0 /\ BytesOf(h, {}) = 0 /\ S \cap E = {}
      BY <2>1, <2>2, SumFirst
    <3>2. QED BY <2>2, <3>1
  <2>3. CASE S # {}
    <3> DEFINE y == Chosen(S)
               U == S \ {y}
    <3>1. y \in S /\ U \in SUBSET S /\ U # S
      BY <2>3, ChosenFacts
    <3> HIDE DEF y
    <3>2. BytesOf(g, U) = BytesOf(h, U) + BytesOf(g, U \cap E)
      BY <3>1, <1>1
    <3>3. BytesOf(g, S) = g[y] + BytesOf(g, U) /\ BytesOf(h, S) = h[y] + BytesOf(h, U)
      BY <3>1, SumSplit
    <3>4. BytesOf(g, U) \in Nat /\ BytesOf(h, U) \in Nat /\ BytesOf(g, U \cap E) \in Nat
          /\ g[y] \in Nat /\ h[y] = IF y \in E THEN 0 ELSE g[y]
      BY <3>1, SumType
    <3>5. CASE y \in E
      <4>1. y \in S \cap E /\ (S \cap E) \ {y} = U \cap E /\ S \cap E \in SUBSET T
        BY <3>1, <3>5
      <4>2. BytesOf(g, S \cap E) = g[y] + BytesOf(g, U \cap E)
        BY <4>1, SumSplit
      <4> HIDE DEF U
      <4>3. QED BY <3>2, <3>3, <3>4, <3>5, <4>2
    <3>6. CASE y \notin E
      <4>1. S \cap E = U \cap E
        BY <3>6
      <4> HIDE DEF U
      <4>2. QED BY <3>2, <3>3, <3>4, <3>6, <4>1
    <3>7. QED BY <3>5, <3>6
  <2>4. QED BY <2>2, <2>3
<1>2. \A S \in SUBSET T : (\A U \in SUBSET S : U # S => U \in P) => S \in P
  BY <1>1
<1> HIDE DEF P
<1>3. \A S \in SUBSET T : S \in P
  BY <1>2, SubsetInduction
<1>4. T \in P
  BY <1>3
<1>5. QED BY <1>4 DEF P

-----------------------------------------------------------------------------
\* Memory.  The books are right, each account covers what its rollout holds (it covers
\* more when a span came twice), and the sum of the accounts is bounded.
MemoryInv ==
  /\ \A r \in Rollouts : IsFiniteSet(spans[r]) /\ BytesOf(SizeOf, spans[r]) <= bytes[r]
  /\ total = BytesOf(bytes, Rollouts)
  /\ total <= EvictionThreshold

LEMMA RolloutsFinite == IsFiniteSet(Rollouts)
<1>1. ByStartTime \in Seq(Rollouts) /\ ToSet(ByStartTime) = Rollouts
  BY SpanAssumption
<1>2. DOMAIN ByStartTime = 1 .. Len(ByStartTime) /\ Len(ByStartTime) \in Nat
  BY <1>1
<1>3. IsFiniteSet(1 .. Len(ByStartTime))
  BY <1>2, FS_Interval
<1>4. ByStartTime \in Surjection(1 .. Len(ByStartTime), Rollouts)
  BY <1>1, <1>2 DEF ToSet, Surjection
<1>5. QED BY <1>3, <1>4, FS_Surjection

\* What the loop of _maybe_evict_spans leaves on the books is within the threshold, be
\* it because it came down to SafeThreshold or because there was nothing left to evict.
LEMMA EvictsEnough ==
  ASSUME NEW b \in [Rollouts -> Nat], NEW tot, tot = BytesOf(b, Rollouts)
  PROVE  /\ Evictable(b, tot) \subseteq Rollouts
         /\ tot - BytesOf(b, Evictable(b, tot)) <= EvictionThreshold
<1> DEFINE N == Len(ByStartTime)
           Above(k) == tot - BytesOf(b, Oldest(k)) > SafeThreshold
           Reached(i) == \A k \in 0 .. i - 1 : Above(k)
           E == Evictable(b, tot)
<1>1. /\ ByStartTime \in Seq(Rollouts) /\ ToSet(ByStartTime) = Rollouts
      /\ SafeThreshold \in Nat /\ EvictionThreshold \in Nat /\ SafeThreshold < EvictionThreshold
  BY SpanAssumption
<1>2. /\ N \in Nat /\ DOMAIN ByStartTime = 1 .. N
      /\ Oldest(N) = Rollouts
      /\ \A k \in 0 .. N : Oldest(k) \subseteq Rollouts
  BY <1>1 DEF ToSet, Oldest
<1>3. \A S \in SUBSET Rollouts : BytesOf(b, S) \in Nat
  BY RolloutsFinite, SumType
<1>4. BytesOf(b, {}) = 0
  BY RolloutsFinite, SumFirst
<1>5. tot \in Nat
  BY <1>3
<1>6. CASE tot <= EvictionThreshold
  <2>1. E = {}
    BY <1>6 DEF Evictable
  <2>2. QED BY <1>4, <1>5, <1>6, <2>1
<1>7. CASE ~(tot <= EvictionThreshold)
  <2>1. E = {ByStartTime[i] : i \in {j \in 1 .. N : Reached(j)}}
    BY <1>2, <1>7 DEF Evictable
  <2> HIDE DEF E, Above
  <2>2. CASE \A k \in 0 .. N - 1 : Above(k)
    <3>1. \A j \in 1 .. N : Reached(j)
      BY <1>2, <2>2
    <3>2. E = Rollouts
      BY <1>2, <2>1, <3>1 DEF Oldest
    <3>3. QED BY <1>1, <1>5, <3>2 DEF E
  <2>3. CASE ~\A k \in 0 .. N - 1 : Above(k)
    <3>1. PICK k \in 0 .. N - 1 : ~Above(k) /\ \A m \in 0 .. N - 1 : ~Above(m) => k <= m
      <4> DEFINE Low == {m \in 0 .. N - 1 : ~Above(m)}
      <4>1. Low \in SUBSET Nat /\ Low # {}
        BY <1>2, <2>3
      <4>2. QED BY <4>1, Least
    <3>2. \A j \in 1 .. N : Reached(j) <=> j <= k
      <4> SUFFICES ASSUME NEW j \in 1 .. N PROVE Reached(j) <=> j <= k
        OBVIOUS
      <4>1. ASSUME j <= k, NEW m \in 0 .. j - 1 PROVE Above(m)
        BY <1>2, <3>1, <4>1
      <4>2. ASSUME ~(j <= k) PROVE ~Reached(j)
        <5>1. k \in 0 .. j - 1
          BY <1>2, <4>2
        <5>2. QED BY <3>1, <5>1
      <4>3. QED BY <4>1, <4>2
    <3> HIDE DEF Reached
    <3>3. {j \in 1 .. N : Reached(j)} = 1 .. k
      BY <1>2, <3>2
    <3>4. E = Oldest(k) /\ Oldest(k) \subseteq Rollouts
      BY <1>2, <2>1, <3>3 DEF Oldest
    <3>5. BytesOf(b, Oldest(k)) \in Nat
      BY <1>3, <3>4
    <3>6. QED BY <1>1, <1>5, <3>1, <3>4, <3>5 DEF E, Above
  <2>4. QED BY <2>2, <2>3
<1>8. QED BY <1>6, <1>7

\* A term that grows makes the sum grow by as much.
LEMMA SumGrows ==
  ASSUME NEW T, IsFiniteSet(T), NEW g \in [T -> Nat], NEW x \in T, NEW v \in Nat
  PROVE  BytesOf([g EXCEPT ![x] = @ + v], T) = BytesOf(g, T) + v
<1> DEFINE h == [g EXCEPT ![x] = @ + v]
           U == T \ {x}
<1>1. h \in [T -> Nat] /\ h[x] = g[x] + v /\ \A y \in U : h[y] = g[y]
  OBVIOUS
<1> HIDE DEF h
<1>2. U \in SUBSET T /\ x \in T /\ T \in SUBSET T
  OBVIOUS
<1>3. (\A y \in T : g[y] \in Nat) /\ (\A y \in T : h[y] \in Nat)
  BY <1>1
<1>4. (\A y \in U : g[y] <= h[y]) /\ (\A y \in U : h[y] <= g[y])
  BY <1>1
<1>5. BytesOf(g, U) \in Nat /\ BytesOf(h, U) \in Nat
  BY <1>2, <1>3, SumType
<1>6. BytesOf(g, U) <= BytesOf(h, U) /\ BytesOf(h, U) <= BytesOf(g, U)
  BY <1>2, <1>3, <1>4, SumMonotone
<1>7. BytesOf(g, T) = g[x] + BytesOf(g, U) /\ BytesOf(h, T) = h[x] + BytesOf(h, U)
  BY <1>2, <1>3, SumSplit
<1> HIDE DEF U
<1>8. BytesOf(h, T) = BytesOf(g, T) + v
  BY <1>1, <1>3, <1>5, <1>6, <1>7
<1>9. QED BY <1>8 DEF h

\* A set's sum grows by at most the size of the element it gets.
LEMMA SumWith ==
  ASSUME NEW S \in SUBSET Spans, IsFiniteSet(S), NEW s \in Spans
  PROVE  /\ IsFiniteSet(S \cup {s})
         /\ BytesOf(SizeOf, S) \in Nat
         /\ BytesOf(SizeOf, S \cup {s}) <= BytesOf(SizeOf, S) + SizeOf[s]
<1> DEFINE T == S \cup {s}
<1>1. IsFiniteSet(T)
  BY FS_AddElement
<1>2. \A x \in T : SizeOf[x] \in Nat
  BY SpanAssumption
<1>3. BytesOf(SizeOf, S) \in Nat
  BY <1>1, <1>2, SumType
<1>4. BytesOf(SizeOf, T) <= BytesOf(SizeOf, S) + SizeOf[s]
  <2>1. CASE s \in S
    <3>1. T = S /\ SizeOf[s] \in Nat
      BY <1>2, <2>1
    <3> HIDE DEF T
    <3>2. QED BY <1>3, <3>1
  <2>2. CASE s \notin S
    <3>1. BytesOf(SizeOf, T) = SizeOf[s] + BytesOf(SizeOf, T \ {s})
      BY <1>1, <1>2, SumSplit
    <3>2. T \ {s} = S /\ SizeOf[s] \in Nat
      BY <1>2, <2>2
    <3> HIDE DEF T
    <3>3. BytesOf(SizeOf, T) = SizeOf[s] + BytesOf(SizeOf, S)
      BY <3>1, <3>2
    <3>4. QED BY <1>3, <3>2, <3>3
  <2>3. QED BY <2>1, <2>2
<1>5. QED BY <1>1, <1>3, <1>4

LEMMA StoreKeepsMemory ==
  ASSUME PartialType, MemoryInv, NEW r \in Rollouts, NEW s \in Spans, StoreSpan(r, s)
  PROVE  MemoryInv'
<1> DEFINE b == [bytes EXCEPT ![r] = @ + SizeOf[s]]
           tot == total + SizeOf[s]
           E == Evictable(b, tot)
<1>1. /\ bytes' = [q \in Rollouts |-> IF q \in E THEN 0 ELSE b[q]]
      /\ total' = tot - BytesOf(b, E)
      /\ spans' = [q \in Rollouts |-> IF q \in E THEN {}
                                      ELSE IF q = r THEN spans[r] \cup {s} ELSE spans[q]]
  BY DEF StoreSpan, EvictSpans
<1>2. SizeOf[s] \in Nat /\ bytes \in [Rollouts -> Nat]
  BY SpanAssumption DEF PartialType
<1>3. b \in [Rollouts -> Nat] /\ b[r] = bytes[r] + SizeOf[s]
      /\ \A q \in Rollouts : q # r => b[q] = bytes[q]
  BY <1>2
<1>4. tot = BytesOf(b, Rollouts)
  BY <1>2, RolloutsFinite, SumGrows DEF MemoryInv
<1> HIDE DEF b, tot
<1>5. E \subseteq Rollouts /\ tot - BytesOf(b, E) <= EvictionThreshold
  BY <1>3, <1>4, EvictsEnough
<1> HIDE DEF E
<1>6. bytes' \in [Rollouts -> Nat]
  BY <1>1, <1>3
<1>7. BytesOf(b, Rollouts) = BytesOf(bytes', Rollouts) + BytesOf(b, Rollouts \cap E)
  <2>1. \A q \in Rollouts : b[q] \in Nat
    BY <1>3
  <2>2. \A q \in Rollouts : bytes'[q] = IF q \in E THEN 0 ELSE b[q]
    BY <1>1
  <2>3. QED BY <2>1, <2>2, RolloutsFinite, SumWithout
<1>8. BytesOf(b, E) \in Nat /\ BytesOf(bytes', Rollouts) \in Nat /\ Rollouts \cap E = E
  BY <1>3, <1>5, <1>6, RolloutsFinite, SumType
<1>9. total' = BytesOf(bytes', Rollouts) /\ total' <= EvictionThreshold
  <2>1. tot = BytesOf(bytes', Rollouts) + BytesOf(b, E)
    BY <1>4, <1>7, <1>8
  <2>2. total' = tot - BytesOf(b, E)
    BY <1>1
  <2>3. QED BY <1>5, <1>8, <2>1, <2>2
<1>10. ASSUME NEW q \in Rollouts
       PROVE  IsFiniteSet(spans'[q]) /\ BytesOf(SizeOf, spans'[q]) <= bytes'[q]
  <2>1. IsFiniteSet(spans[q]) /\ BytesOf(SizeOf, spans[q]) <= bytes[q] /\ spans[q] \in SUBSET Spans
        /\ bytes[q] \in Nat
    BY <1>2 DEF MemoryInv, PartialType
  <2>2. CASE q \in E
    <3>1. spans'[q] = {} /\ bytes'[q] = 0
      BY <1>1, <2>2
    <3>2. BytesOf(SizeOf, {}) = 0 /\ IsFiniteSet({})
      BY FS_EmptySet, SumFirst
    <3>3. QED BY <3>1, <3>2
  <2>3. CASE q \notin E /\ q = r
    <3>1. spans'[q] = spans[q] \cup {s} /\ bytes'[q] = bytes[q] + SizeOf[s]
      BY <1>1, <1>3, <2>3
    <3>2. /\ IsFiniteSet(spans[q] \cup {s}) /\ BytesOf(SizeOf, spans[q]) \in Nat
          /\ BytesOf(SizeOf, spans[q] \cup {s}) <= BytesOf(SizeOf, spans[q]) + SizeOf[s]
          /\ BytesOf(SizeOf, spans[q] \cup {s}) \in Nat
      <4>1. \A x \in spans[q] \cup {s} : SizeOf[x] \in Nat
        BY <2>1, SpanAssumption
      <4>2. IsFiniteSet(spans[q] \cup {s})
        BY <2>1, SumWith
      <4>3. QED BY <2>1, <4>1, <4>2, SumWith, SumType
    <3>3. QED BY <1>2, <2>1, <3>1, <3>2
  <2>4. CASE q \notin E /\ q # r
    BY <1>1, <1>3, <2>1, <2>4
  <2>5. QED BY <2>2, <2>3, <2>4
<1>11. QED BY <1>9, <1>10 DEF MemoryInv

\* The accounts cover what is stored.
LEMMA AccountsCover == PartialType /\ MemoryInv => MemoryIsBounded
<1> SUFFICES ASSUME PartialType, MemoryInv PROVE MemoryIsBounded
  OBVIOUS
<1> DEFINE held == [r \in Rollouts |-> BytesOf(SizeOf, spans[r])]
<1>1. \A r \in Rollouts : held[r] \in Nat /\ bytes[r] \in Nat /\ held[r] <= bytes[r]
  <2> TAKE r \in Rollouts
  <2>1. spans[r] \in SUBSET Spans /\ IsFiniteSet(spans[r]) /\ bytes[r] \in Nat
        /\ BytesOf(SizeOf, spans[r]) <= bytes[r]
    BY DEF PartialType, MemoryInv
  <2>2. \A x \in spans[r] : SizeOf[x] \in Nat
    BY <2>1, SpanAssumption
  <2>3. QED BY <2>1, <2>2, SumType
<1>2. StoredBytes = BytesOf(held, Rollouts)
  BY DEF StoredBytes
<1> HIDE DEF held
<1>3. BytesOf(held, Rollouts) <= BytesOf(bytes, Rollouts)
  BY <1>1, RolloutsFinite, SumMonotone
<1>4. BytesOf(held, Rollouts) \in Nat /\ BytesOf(bytes, Rollouts) \in Nat
  BY <1>1, RolloutsFinite, SumType
<1>5. QED BY <1>2, <1>3, <1>4, SpanAssumption DEF MemoryInv, MemoryIsBounded

LEMMA MemoryInvInit == Init => MemoryInv
<1> SUFFICES ASSUME Init PROVE MemoryInv
  OBVIOUS
<1>1. BytesOf(SizeOf, {}) = 0 /\ IsFiniteSet({})
  BY FS_EmptySet, SumFirst
<1>2. \A r \in Rollouts : spans[r] = {} /\ bytes[r] = 0
  BY DEF Init
<1>3. BytesOf(bytes, Rollouts) = 0
  <2> DEFINE P == {S \in SUBSET Rollouts : BytesOf(bytes, S) = 0}
  <2>1. ASSUME NEW S \in SUBSET Rollouts, \A U \in SUBSET S : U # S => U \in P
        PROVE  S \in P
    <3>1. IsFiniteSet(S)
      BY RolloutsFinite, FS_Subset
    <3>2. BytesOf(bytes, {}) = 0 /\ (S # {} => BytesOf(bytes, S) = bytes[Chosen(S)] + BytesOf(bytes, S \ {Chosen(S)}))
      BY <3>1, SumFirst
    <3>3. S # {} => bytes[Chosen(S)] = 0 /\ BytesOf(bytes, S \ {Chosen(S)}) = 0
      BY <1>2, <2>1, ChosenFacts
    <3>4. BytesOf(bytes, S) = 0
      <4>1. CASE S = {}
        BY <3>2, <4>1
      <4>2. CASE S # {}
        BY <3>2, <3>3, <4>2
      <4>3. QED BY <4>1, <4>2
    <3>5. QED BY <3>4
  <2> HIDE DEF P
  <2>2. \A S \in SUBSET Rollouts : S \in P
    BY <2>1, RolloutsFinite, SubsetInduction
  <2>3. QED BY <2>2 DEF P
<1>4. total = 0 /\ EvictionThreshold \in Nat
  BY SpanAssumption DEF Init
<1>5. QED BY <1>1, <1>2, <1>3, <1>4 DEF MemoryInv

\* No history leaves more bytes of spans in memory than EvictionThreshold, whatever comes
\* twice, and whatever comes for rollouts evicted before (_maybe_evict_spans).
THEOREM MemoryBounded == Spec => []MemoryIsBounded
<1>1. SpanInv /\ MemoryInv /\ [Next]_svars => MemoryInv'
  <2> SUFFICES ASSUME SpanInv, MemoryInv, [Next]_svars
               PROVE  MemoryInv'
    OBVIOUS
  <2>1. ASSUME UNCHANGED <<spans, bytes, total>> PROVE MemoryInv'
    BY <2>1 DEF MemoryInv
  <2>2. \/ UNCHANGED <<spans, bytes, total>>
        \/ \E r \in Rollouts, s \in Spans : StoreSpan(r, s)
    BY DEF Next, GetNextSpanSequenceId, AddSpan, AddOtelSpan, Take, Reject, svars
  <2>3. QED BY <2>1, <2>2, StoreKeepsMemory DEF SpanInv
<1>2. SpanInv /\ MemoryInv => MemoryIsBounded
  BY AccountsCover DEF SpanInv
<1>3. QED BY <1>1, <1>2, SpanInvInit, SpanInvNext, MemoryInvInit, PTL DEF Spec

-----------------------------------------------------------------------------
(* The calls: StoreCalls.                                                   *)

\* The inductive invariant: types, ...
Contents == [queue : Seq(Callers), claimed : Nat, number : Nat,
             attempt : {"running", "succeeded", "timeout"}]
ExecStates == [at : {"none", "sent", "entered", "read", "done", "failed"},
               view : Contents, answer : Int]
CallStates == [at : {"idle", "waiting", "probing", "answered", "failed"},
               tries : 0 .. MaxTries, result : Int]

CallsTypes ==
  /\ plan \in Plans
  /\ data \in Contents
  /\ exec \in [Execs -> ExecStates]
  /\ caller \in [Callers -> CallStates]

\* ... a call that needs the lock has it, so that what it read is still so, ...
Locked ==
  \A e \in Taking \X Tries :
    NeedsLock(e) /\ Inside(e) =>
      /\ lock = e
      /\ OpOf(e[1]) = "issue" /\ exec[e].at = "read" => exec[e].view.number = data.number

\* ... what was answered was handed out, to that execution alone, ...
IsDone(e, op) == OpOf(e[1]) = op /\ exec[e].at = "done"

HandedOut ==
  \A e \in Taking \X Tries :
    /\ IsDone(e, "issue") => exec[e].answer \in 1 .. data.number
    /\ IsDone(e, "dequeue") => exec[e].answer \in 0 .. data.claimed

Apart ==
  \A e, f \in Taking \X Tries, op \in {"issue", "dequeue"} :
    e # f /\ IsDone(e, op) /\ IsDone(f, op) /\ exec[e].answer > Nothing =>
      exec[e].answer # exec[f].answer

\* ... and what a caller got was the answer of one of its tries, which are numbered.
OwnAnswer(c) ==
  caller[c].result > Nothing =>
    \E k \in Tries : exec[<<c, k>>].at = "done" /\ exec[<<c, k>>].answer = caller[c].result

Tried(c) ==
  /\ \A k \in Tries : k > caller[c].tries => exec[<<c, k>>].at = "none"
  /\ caller[c].at = "idle" <=> caller[c].tries = 0

CallsInv ==
  /\ CallsTypes /\ Locked /\ HandedOut /\ Apart
  /\ \A c \in Taking : OwnAnswer(c) /\ Tried(c)

\* Who takes part, in what, and which executions there are.
LEMMA PlanFacts ==
  ASSUME CallsTypes
  PROVE  /\ Taking \subseteq Callers
         /\ \A c \in Taking : OpOf(c) \in Ops
         /\ Taking \X Tries \subseteq Execs
<1>1. plan \in [DOMAIN plan -> Ops \X Routes] /\ DOMAIN plan \subseteq Callers
  BY CallsAssumption DEF CallsTypes
<1>2. QED
  BY <1>1 DEF Taking, OpOf, Execs

LEMMA CallsInvInit == CallsInit => CallsInv
<1> SUFFICES ASSUME CallsInit PROVE CallsInv
  OBVIOUS
<1>1. /\ plan \in Plans /\ data = InitialData
      /\ exec = [e \in Execs |-> [at |-> "none", view |-> InitialData, answer |-> NoResult]]
      /\ caller = [c \in Callers |-> [at |-> "idle", tries |-> 0, result |-> NoResult]]
  BY DEF CallsInit
<1>2. InitialData \in Contents /\ NoResult \in Int /\ ~(NoResult > Nothing)
  BY DEF InitialData, Contents, NoResult, Nothing
<1>3. CallsTypes
  BY <1>1, <1>2, CallsAssumption DEF CallsTypes, ExecStates, CallStates
<1>4. \A e \in Execs : exec[e].at = "none"
  BY <1>1
<1>5. Locked /\ HandedOut /\ Apart
  BY <1>3, <1>4, PlanFacts DEF Locked, HandedOut, Apart, Inside, IsDone
<1>6. \A c \in Taking : OwnAnswer(c) /\ Tried(c)
  BY <1>1, <1>2, <1>3, <1>4, PlanFacts DEF OwnAnswer, Tried, Execs
<1>7. QED
  BY <1>3, <1>5, <1>6 DEF CallsInv

\* What an operation hands out is new, if nothing it read was changed since.
LEMMA AppliedFacts ==
  ASSUME CallsTypes, NEW e \in Taking \X Tries,
         OpOf(e[1]) = "issue" => exec[e].view.number = data.number
  PROVE  /\ Applied(e)[2] \in Contents /\ Applied(e)[1] \in Int
         /\ IF OpOf(e[1]) = "issue"
            THEN /\ Applied(e)[1] = data.number + 1
                 /\ Applied(e)[2].number = data.number + 1
            ELSE Applied(e)[2].number = data.number
         /\ IF OpOf(e[1]) = "dequeue"
            THEN \/ Applied(e)[1] = data.claimed + 1 /\ Applied(e)[2].claimed = data.claimed + 1
                 \/ Applied(e)[1] = Nothing /\ Applied(e)[2].claimed = data.claimed
            ELSE Applied(e)[2].claimed = data.claimed
<1>1. data \in Contents /\ exec[e].view \in Contents /\ OpOf(e[1]) \in Ops /\ e[1] \in Callers
  BY PlanFacts DEF CallsTypes, ExecStates
<1>2. CASE OpOf(e[1]) = "enqueue"
  <2>1. Applied(e) = <<Len(data.queue) + 1, [data EXCEPT !.queue = Append(@, e[1])]>>
    BY <1>2, Zenon DEF Applied, Enqueued, Dequeued, NextNumber, Checked
  <2>2. Applied(e)[1] = Len(data.queue) + 1
        /\ Applied(e)[2] = [data EXCEPT !.queue = Append(data.queue, e[1])]
    BY <2>1
  <2>3. Append(data.queue, e[1]) \in Seq(Callers) /\ Len(data.queue) \in Nat
    BY <1>1 DEF Contents
  <2> DEFINE q == Append(data.queue, e[1])
             d == [data EXCEPT !.queue = q]
  <2>4. d \in Contents /\ d.number = data.number /\ d.claimed = data.claimed
    BY <1>1, <2>3 DEF Contents
  <2>5. Applied(e)[2] = d /\ Applied(e)[1] \in Int
    BY <2>2, <2>3
  <2> HIDE DEF d
  <2>6. QED BY <1>2, <2>4, <2>5
<1>3. CASE OpOf(e[1]) = "dequeue"
  <2>1. Applied(e) = IF data.claimed < Len(data.queue)
                     THEN <<data.claimed + 1, [data EXCEPT !.claimed = @ + 1]>>
                     ELSE <<Nothing, data>>
    BY <1>3, Zenon DEF Applied, Enqueued, Dequeued, NextNumber, Checked
  <2>2. CASE data.claimed < Len(data.queue)
    <3>1. Applied(e)[1] = data.claimed + 1 /\ Applied(e)[2] = [data EXCEPT !.claimed = @ + 1]
      BY <2>1, <2>2
    <3>2. QED BY <1>1, <1>3, <3>1 DEF Contents
  <2>3. CASE ~(data.claimed < Len(data.queue))
    <3>1. Applied(e)[1] = Nothing /\ Applied(e)[2] = data
      BY <2>1, <2>3
    <3>2. QED BY <1>1, <1>3, <3>1 DEF Contents, Nothing
  <2>4. QED BY <2>2, <2>3
<1>4. CASE OpOf(e[1]) = "issue"
  <2>1. Applied(e) = <<exec[e].view.number + 1, [data EXCEPT !.number = exec[e].view.number + 1]>>
    BY <1>4, Zenon DEF Applied, Enqueued, Dequeued, NextNumber, Checked
  <2>2. QED BY <1>1, <1>4, <2>1 DEF Contents
<1>5. CASE OpOf(e[1]) = "report"
  <2>1. Applied(e) = <<Done, [data EXCEPT !.attempt = "succeeded"]>>
    BY <1>5, Zenon DEF Applied, Enqueued, Dequeued, NextNumber, Checked
  <2>2. QED BY <1>1, <1>5, <2>1 DEF Contents, Done
<1>6. CASE OpOf(e[1]) = "wait"
  <2>1. Applied(e) = <<Done, IF exec[e].view.attempt = "running"
                             THEN [data EXCEPT !.attempt = "timeout"] ELSE data>>
    BY <1>6, Zenon DEF Applied, Enqueued, Dequeued, NextNumber, Checked
  <2>2. QED BY <1>1, <1>6, <2>1 DEF Contents, Done
<1>7. QED
  BY <1>1, <1>2, <1>3, <1>4, <1>5, <1>6 DEF Ops

\* Whoever issues an id at a write knows the last one: it has the lock, or nothing
\* conflicts.
LEMMA IssuerIsUpToDate ==
  ASSUME CallsInv, NEW e \in Taking \X Tries, exec[e].at = "read", ~Conflicts(e),
         OpOf(e[1]) = "issue"
  PROVE  exec[e].view.number = data.number
<1>1. CASE backend = "mongo"
  <2>1. Conflicts(e) <=> exec[e].view.number # data.number
    BY <1>1, Zenon DEF Conflicts
  <2>2. QED BY <2>1
<1>2. CASE backend # "mongo"
  BY <1>2 DEF CallsInv, Locked, NeedsLock, Inside
<1>3. QED BY <1>1, <1>2

\* What a caller has is not touched by an execution that is not done.
LEMMA CallerStays ==
  ASSUME CallsInv, NEW e \in Taking \X Tries, UNCHANGED <<plan, caller>>,
         exec[e].at \notin {"none", "done"}, \A f \in Execs : f # e => exec'[f] = exec[f]
  PROVE  \A c \in Taking' : OwnAnswer(c)' /\ Tried(c)'
<1>1. Taking' = Taking /\ Taking \subseteq Callers
  BY PlanFacts DEF CallsInv, Taking
<1>2. SUFFICES ASSUME NEW c \in Taking PROVE OwnAnswer(c)' /\ Tried(c)'
  BY <1>1 DEF CallsInv
<1>3. OwnAnswer(c) /\ Tried(c) /\ c \in Callers
  BY <1>1 DEF CallsInv
<1>4. \A k \in Tries : <<c, k>> \in Execs
  BY <1>3 DEF Execs
<1>5. \A k \in Tries : exec[<<c, k>>].at \in {"none", "done"} => exec'[<<c, k>>] = exec[<<c, k>>]
  BY <1>4
<1>6. OwnAnswer(c)' /\ Tried(c)'
  BY <1>3, <1>5 DEF OwnAnswer, Tried
<1>7. QED BY <1>6

\* The steps of an execution that neither answer nor change anything.
LEMMA QuietPreserves ==
  ASSUME CallsInv, NEW e \in Taking \X Tries, Enter(e) \/ Read(e) \/ Rerun(e)
  PROVE  CallsInv'
<1>1. /\ UNCHANGED <<backend, plan, data, caller>>
      /\ exec[e].at \in {"sent", "entered", "read"}
  BY DEF Enter, Read, Rerun
<1>2. e \in Execs /\ exec \in [Execs -> ExecStates] /\ exec[e] \in ExecStates
  BY PlanFacts DEF CallsInv, CallsTypes
<1>3. InitialData \in Contents /\ data \in Contents
  BY DEF InitialData, Contents, CallsInv, CallsTypes
<1>4. /\ exec' \in [Execs -> ExecStates]
      /\ \A f \in Execs : f # e => exec'[f] = exec[f]
      /\ exec'[e].at \in {"entered", "read"}
      /\ exec'[e].at = "read" => exec'[e].view = data
  <2>1. CASE Enter(e)
    BY <1>2, <2>1 DEF Enter, ExecStates
  <2>2. CASE Read(e)
    BY <1>2, <1>3, <2>2 DEF Read, ExecStates
  <2>3. CASE Rerun(e)
    BY <1>2, <1>3, <2>3 DEF Rerun, ExecStates
  <2>4. QED BY <2>1, <2>2, <2>3
<1>5. CallsTypes' /\ Taking' = Taking /\ Taking \X Tries \subseteq Execs
  BY <1>1, <1>4, PlanFacts DEF CallsInv, CallsTypes, Taking
<1>6. \A f \in Execs : \A op : IsDone(f, op)' => IsDone(f, op) /\ f # e
  BY <1>1, <1>4 DEF IsDone, OpOf
<1>7. HandedOut' /\ Apart'
  BY <1>1, <1>4, <1>5, <1>6 DEF CallsInv, HandedOut, Apart
<1>8. Locked'
  <2>1. /\ \A f \in Taking \X Tries : NeedsLock(f)' = NeedsLock(f) /\ OpOf(f[1])' = OpOf(f[1])
    BY <1>1 DEF NeedsLock, OpOf
  <2>2. \A f \in Taking \X Tries : NeedsLock(f) /\ Inside(f)' => lock' = f
    <3>1. CASE Enter(e)
      <4>1. \A f \in Taking \X Tries : f # Nobody
        BY DEF Nobody
      <4>2. QED
        BY <1>4, <1>5, <3>1, <4>1 DEF Enter, CallsInv, Locked, Inside
    <3>2. CASE Read(e) \/ Rerun(e)
      BY <1>4, <1>5, <3>2 DEF Read, Rerun, CallsInv, Locked, Inside
    <3>3. QED BY <3>1, <3>2
  <2>3. QED
    BY <1>1, <1>4, <1>5, <2>1, <2>2 DEF CallsInv, Locked, Inside
<1>9. QED
  BY <1>1, <1>4, <1>5, <1>7, <1>8, CallerStays DEF CallsInv
\* An answer is new, and whoever else holds the lock is not of the kind that could have
\* given the same.
LEMMA WritePreserves ==
  ASSUME CallsInv, NEW e \in Taking \X Tries, Write(e)
  PROVE  CallsInv'
<1> DEFINE a == Applied(e)[1]
           d == Applied(e)[2]
<1>1. /\ exec[e].at = "read" /\ ~Conflicts(e) /\ data' = d
      /\ exec' = [exec EXCEPT ![e] = [at |-> "done", view |-> InitialData, answer |-> a]]
      /\ lock' = IF lock = e THEN Nobody ELSE lock
      /\ UNCHANGED <<backend, plan, caller>>
  BY DEF Write, Released
<1>2. /\ d \in Contents /\ a \in Int
      /\ OpOf(e[1]) = "issue" => a = data.number + 1 /\ d.number = data.number + 1
      /\ OpOf(e[1]) # "issue" => d.number = data.number
      /\ OpOf(e[1]) = "dequeue" =>
           \/ a = data.claimed + 1 /\ d.claimed = data.claimed + 1
           \/ a = 0 /\ d.claimed = data.claimed
      /\ OpOf(e[1]) # "dequeue" => d.claimed = data.claimed
  BY <1>1, IssuerIsUpToDate, AppliedFacts DEF CallsInv, Nothing
<1> HIDE DEF a, d
<1>3. InitialData \in Contents /\ data \in Contents
  BY DEF InitialData, Contents, CallsInv, CallsTypes
<1>4. data.number \in Nat /\ data.claimed \in Nat /\ d.number \in Nat /\ d.claimed \in Nat
  BY <1>2, <1>3 DEF Contents
<1>5. e \in Execs /\ exec \in [Execs -> ExecStates] /\ Taking \X Tries \subseteq Execs
  BY PlanFacts DEF CallsInv, CallsTypes
<1>6. /\ exec' \in [Execs -> ExecStates]
      /\ \A f \in Execs : f # e => exec'[f] = exec[f]
      /\ exec'[e].at = "done" /\ exec'[e].answer = a
  BY <1>1, <1>2, <1>3, <1>5 DEF ExecStates
<1>7. CallsTypes' /\ Taking' = Taking
  BY <1>1, <1>2, <1>6 DEF CallsInv, CallsTypes, Taking
<1>8. /\ \A f : OpOf(f[1])' = OpOf(f[1]) /\ NeedsLock(f)' = NeedsLock(f)
      /\ \A f \in Execs : \A op : f # e => IsDone(f, op)' = IsDone(f, op)
  BY <1>1, <1>6 DEF OpOf, NeedsLock, IsDone
<1>9. HandedOut'
  <2>1. ASSUME NEW f \in Taking \X Tries
        PROVE  /\ IsDone(f, "issue")' => exec'[f].answer \in 1 .. d.number
               /\ IsDone(f, "dequeue")' => exec'[f].answer \in 0 .. d.claimed
    <3>1. CASE f = e
      BY <1>2, <1>4, <1>6, <1>8, <3>1 DEF IsDone
    <3>2. CASE f # e
      <4>1. /\ IsDone(f, "issue") => exec[f].answer \in 1 .. data.number
            /\ IsDone(f, "dequeue") => exec[f].answer \in 0 .. data.claimed
        BY DEF CallsInv, HandedOut
      <4>2. data.number <= d.number /\ data.claimed <= d.claimed
        BY <1>2, <1>4
      <4>3. QED
        BY <1>4, <1>5, <1>6, <1>8, <3>2, <4>1, <4>2
    <3>3. QED BY <3>1, <3>2
  <2>2. QED BY <1>1, <1>7, <2>1 DEF HandedOut
<1>10. Apart'
  <2>1. ASSUME NEW f \in Taking \X Tries, f # e, NEW op \in {"issue", "dequeue"},
               IsDone(f, op), OpOf(e[1]) = op
        PROVE  a # exec[f].answer \/ (a = 0 /\ exec[f].answer = 0)
    BY <1>2, <1>4, <2>1 DEF CallsInv, HandedOut
  <2>2. ASSUME NEW f \in Taking \X Tries, NEW g \in Taking \X Tries,
               NEW op \in {"issue", "dequeue"}, f # g, IsDone(f, op)', IsDone(g, op)',
               exec'[f].answer > 0
        PROVE  exec'[f].answer # exec'[g].answer
    <3>1. CASE f # e /\ g # e
      BY <1>5, <1>6, <1>8, <2>2, <3>1 DEF CallsInv, Apart, Nothing
    <3>2. CASE f = e
      BY <1>5, <1>6, <1>8, <2>1, <2>2, <3>2 DEF IsDone
    <3>3. CASE g = e
      BY <1>5, <1>6, <1>8, <2>1, <2>2, <3>3 DEF IsDone
    <3>4. QED BY <3>1, <3>2, <3>3
  <2>3. QED BY <1>7, <2>2 DEF Apart, Nothing
<1>11. Locked'
  <2>1. ASSUME NEW f \in Taking \X Tries, NeedsLock(f), Inside(f)'
        PROVE  /\ lock' = f
               /\ OpOf(f[1]) = "issue" /\ exec'[f].at = "read" => exec'[f].view.number = d.number
    <3>1. f # e /\ exec'[f] = exec[f] /\ Inside(f)
      BY <1>5, <1>6, <2>1 DEF Inside
    <3>2. lock = f
      BY <2>1, <3>1 DEF CallsInv, Locked
    <3>3. OpOf(e[1]) # "issue"
      BY <1>1, <2>1, <3>1, <3>2 DEF CallsInv, Locked, NeedsLock, Inside
    <3>4. QED
      BY <1>1, <1>2, <2>1, <3>1, <3>2, <3>3 DEF CallsInv, Locked
  <2>2. QED BY <1>1, <1>7, <1>8, <2>1 DEF Locked
<1>12. QED
  BY <1>1, <1>5, <1>6, <1>7, <1>9, <1>10, <1>11, CallerStays DEF CallsInv

\* A transaction that fails answers nothing, whether it was committed or not.
LEMMA FailurePreserves ==
  ASSUME CallsInv, NEW e \in Taking \X Tries, TransactionFails(e)
  PROVE  CallsInv'
<1>1. /\ backend = "mongo" /\ exec[e].at = "read"
      /\ exec' = [exec EXCEPT ![e].at = "failed", ![e].view = InitialData]
      /\ data' = data \/ (~Conflicts(e) /\ data' = Applied(e)[2])
      /\ UNCHANGED <<backend, plan, lock, caller>>
  BY DEF TransactionFails
<1>2. InitialData \in Contents /\ data \in Contents
  BY DEF InitialData, Contents, CallsInv, CallsTypes
<1>3. data' \in Contents /\ data.number <= data'.number /\ data.claimed <= data'.claimed
  <2>1. CASE data' = data
    BY <1>2, <2>1 DEF Contents
  <2>2. CASE ~Conflicts(e) /\ data' = Applied(e)[2]
    <3> DEFINE d == Applied(e)[2]
    <3>1. /\ d \in Contents
          /\ d.number = data.number \/ d.number = data.number + 1
          /\ d.claimed = data.claimed \/ d.claimed = data.claimed + 1
      BY <1>1, <2>2, IssuerIsUpToDate, AppliedFacts DEF CallsInv
    <3> HIDE DEF d
    <3>2. data' = d
      BY <2>2 DEF d
    <3>3. data.number \in Nat /\ data.claimed \in Nat
      BY <1>2 DEF Contents
    <3>4. QED
      BY <3>1, <3>2, <3>3
  <2>3. QED BY <1>1, <2>1, <2>2
<1>4. e \in Execs /\ exec \in [Execs -> ExecStates] /\ Taking \X Tries \subseteq Execs
  BY PlanFacts DEF CallsInv, CallsTypes
<1>5. /\ exec' \in [Execs -> ExecStates]
      /\ \A f \in Execs : f # e => exec'[f] = exec[f]
      /\ exec'[e].at = "failed"
  BY <1>1, <1>2, <1>4 DEF ExecStates
<1>6. CallsTypes' /\ Taking' = Taking
  BY <1>1, <1>3, <1>5 DEF CallsInv, CallsTypes, Taking
<1>7. \A f \in Execs : \A op : IsDone(f, op)' => IsDone(f, op) /\ f # e
  BY <1>1, <1>5 DEF IsDone, OpOf
<1>8. HandedOut'
  <2>1. /\ data.number \in Nat /\ data.claimed \in Nat
        /\ data'.number \in Nat /\ data'.claimed \in Nat
    BY <1>2, <1>3 DEF Contents
  <2>2. QED
    BY <1>3, <1>4, <1>5, <1>6, <1>7, <2>1 DEF CallsInv, HandedOut
<1>9. Apart' /\ Locked'
  BY <1>1, <1>4, <1>5, <1>6, <1>7 DEF CallsInv, Apart, Locked, NeedsLock
<1>10. QED
  BY <1>1, <1>4, <1>5, <1>6, <1>8, <1>9, CallerStays DEF CallsInv

\* A try is sent that was not sent before.
LEMMA SendsPreserves ==
  ASSUME CallsInv, NEW c \in Taking, NEW k \in Tries, k = caller[c].tries + 1, Sends(c, k)
  PROVE  CallsInv'
<1> DEFINE e == <<c, k>>
<1>1. /\ caller' = [caller EXCEPT ![c].at = "waiting", ![c].tries = k]
      /\ exec' = [exec EXCEPT ![e].at = "sent"]
      /\ UNCHANGED <<backend, plan, data, lock>>
  BY DEF Sends
<1>2. /\ c \in Callers /\ e \in Execs /\ exec \in [Execs -> ExecStates]
      /\ Taking \X Tries \subseteq Execs /\ Taking \subseteq Callers
      /\ caller \in [Callers -> CallStates]
      /\ caller[c].tries \in 0 .. MaxTries
  BY PlanFacts DEF CallsInv, CallsTypes, Execs, CallStates
<1>3. exec[e].at = "none"
  BY <1>2 DEF CallsInv, Tried, Tries
<1>4. /\ exec' \in [Execs -> ExecStates] /\ exec'[e].at = "sent"
      /\ \A f \in Execs : f # e => exec'[f] = exec[f]
  BY <1>1, <1>2 DEF ExecStates
<1>5. /\ caller' \in [Callers -> CallStates]
      /\ caller'[c].at = "waiting" /\ caller'[c].tries = k /\ caller'[c].result = caller[c].result
      /\ \A b \in Callers : b # c => caller'[b] = caller[b]
  BY <1>1, <1>2 DEF CallStates, Tries
<1>6. CallsTypes' /\ Taking' = Taking
  BY <1>1, <1>4, <1>5 DEF CallsInv, CallsTypes, Taking
<1>7. \A f \in Execs : \A op : IsDone(f, op)' => IsDone(f, op) /\ f # e
  BY <1>1, <1>4 DEF IsDone, OpOf
<1>8. HandedOut' /\ Apart'
  BY <1>1, <1>2, <1>4, <1>6, <1>7 DEF CallsInv, HandedOut, Apart
<1>9. Locked'
  BY <1>1, <1>2, <1>4, <1>6 DEF CallsInv, Locked, NeedsLock, Inside, OpOf
<1>10. ASSUME NEW b \in Taking PROVE OwnAnswer(b)' /\ Tried(b)'
  <2>1. \A j \in Tries : <<b, j>> \in Execs
    BY <1>2 DEF Execs
  <2>2. OwnAnswer(b) /\ Tried(b)
    BY DEF CallsInv
  <2>3. OwnAnswer(b)'
    BY <1>2, <1>3, <1>4, <1>5, <2>1, <2>2 DEF OwnAnswer
  <2>4. CASE b = c
    <3>1. \A j \in Tries : j > k => j > caller[c].tries /\ <<c, j>> # e
      BY <1>2 DEF Tries
    <3>2. k # 0
      BY DEF Tries
    <3>3. QED
      BY <1>4, <1>5, <2>1, <2>2, <2>3, <2>4, <3>1, <3>2 DEF Tried
  <2>5. CASE b # c
    BY <1>2, <1>4, <1>5, <2>1, <2>2, <2>3, <2>5 DEF Tried
  <2>6. QED BY <2>4, <2>5
<1>11. QED
  BY <1>6, <1>8, <1>9, <1>10 DEF CallsInv

\* A caller ends with nothing, or with the answer of its last try.
LEMMA EndsPreserves ==
  ASSUME CallsInv, NEW c \in Taking, NEW at \in {"probing", "answered", "failed"},
         NEW result \in Int, Ends(c, at, result), caller[c].at \in {"waiting", "probing"},
         \/ result \in {Nothing, NoResult}
         \/ Current(c).at = "done" /\ result = Current(c).answer
  PROVE  CallsInv'
<1>1. /\ caller' = [caller EXCEPT ![c].at = at, ![c].result = result]
      /\ UNCHANGED <<backend, plan, data, exec, lock>>
  BY DEF Ends
<1>2. c \in Callers /\ caller \in [Callers -> CallStates] /\ Taking \subseteq Callers
  BY PlanFacts DEF CallsInv, CallsTypes
<1>3. /\ caller' \in [Callers -> CallStates]
      /\ caller'[c].at = at /\ caller'[c].result = result /\ caller'[c].tries = caller[c].tries
      /\ \A b \in Callers : b # c => caller'[b] = caller[b]
  BY <1>1, <1>2 DEF CallStates
<1>4. CallsTypes' /\ Taking' = Taking
  BY <1>1, <1>3 DEF CallsInv, CallsTypes, Taking
<1>5. Locked' /\ HandedOut' /\ Apart'
  BY <1>1, <1>4
    DEF CallsInv, Locked, HandedOut, Apart, IsDone, NeedsLock, Inside, OpOf
<1>6. OwnAnswer(c)'
  <2>1. CASE result \in {Nothing, NoResult}
    BY <1>3, <2>1 DEF OwnAnswer, Nothing, NoResult
  <2>2. CASE Current(c).at = "done" /\ result = Current(c).answer
    <3>1. caller[c].tries \in Tries
      BY <1>2 DEF CallsInv, Tried, CallStates, Tries
    <3>2. QED
      BY <1>1, <1>3, <2>2, <3>1 DEF OwnAnswer, Current
  <2>3. QED BY <2>1, <2>2
<1>7. Tried(c)'
  BY <1>1, <1>3 DEF CallsInv, Tried
<1>8. \A b \in Taking : OwnAnswer(b)' /\ Tried(b)'
  BY <1>1, <1>2, <1>3, <1>6, <1>7 DEF CallsInv, OwnAnswer, Tried
<1>9. QED
  BY <1>4, <1>5, <1>8 DEF CallsInv

\* Every step of a caller preserves the invariant.
LEMMA CallerPreserves ==
  ASSUME CallsInv, NEW c \in Taking,
         Call(c) \/ Answered(c) \/ Unanswered(c) \/ Retry(c) \/ GiveUp(c) \/ Raises(c)
  PROVE  CallsInv'
<1>1. /\ caller[c] \in CallStates /\ Tried(c) /\ c \in Callers /\ MaxTries \in Nat \ {0}
      /\ Nothing \in Int /\ NoResult \in Int
  BY PlanFacts, CallsAssumption DEF CallsInv, CallsTypes, Nothing, NoResult
<1>2. CASE Call(c)
  BY <1>1, <1>2, SendsPreserves DEF Call, Tried, Tries, CallStates
<1>3. CASE Retry(c)
  <2>1. caller[c].tries + 1 \in Tries
    BY <1>1, <1>3 DEF Retry, Tries, CallStates
  <2>2. QED BY <1>3, <2>1, SendsPreserves DEF Retry
<1>4. CASE Answered(c)
  <2>1. Current(c).answer \in Int
    <3>1. caller[c].tries \in Tries
      BY <1>1, <1>4 DEF Answered, Tried, CallStates, Tries
    <3>2. QED
      BY <1>1, <3>1 DEF CallsInv, CallsTypes, Current, Execs, ExecStates
  <2>2. QED
    BY <1>4, <2>1, EndsPreserves DEF Answered
<1>5. CASE Unanswered(c)
  BY <1>1, <1>5, EndsPreserves DEF Unanswered
<1>6. CASE GiveUp(c) \/ Raises(c)
  BY <1>1, <1>6, EndsPreserves DEF GiveUp, Raises
<1>7. QED
  BY <1>2, <1>3, <1>4, <1>5, <1>6

LEMMA CallsInvStep == CallsInv /\ [CallsNext]_callVars => CallsInv'
<1> SUFFICES ASSUME CallsInv, [CallsNext]_callVars PROVE CallsInv'
  OBVIOUS
<1>1. CASE \E c \in Taking :
        Call(c) \/ Answered(c) \/ Unanswered(c) \/ Retry(c) \/ GiveUp(c) \/ Raises(c)
  BY <1>1, CallerPreserves
<1>2. CASE \E e \in Taking \X Tries : Execution(e) \/ TransactionFails(e)
  BY <1>2, QuietPreserves, WritePreserves, FailurePreserves DEF Execution
<1>3. CASE UNCHANGED callVars
  <2>1. UNCHANGED <<backend, plan, data, exec, lock, caller>>
    BY <1>3 DEF callVars
  <2>2. QED
    BY <2>1 DEF CallsInv, CallsTypes, Taking, Locked, HandedOut, Apart, IsDone, NeedsLock,
                Inside, OpOf, OwnAnswer, Tried
<1>4. QED
  BY <1>1, <1>2, <1>3 DEF CallsNext

\* No sequence id and no rollout is given to two callers, whatever threads and processes
\* they are in, whatever back end serves them and however often requests are repeated
\* (_call_store_method, LightningStoreThreaded, MongoLightningStore, _request_json).
THEOREM CallsGiveNothingTwice == CallsSpec => []NothingTwice
<1>1. CallsInv => NothingTwice
  <2> SUFFICES ASSUME CallsInv, NEW c \in Taking, NEW d \in Taking, c # d,
                      OpOf(c) = OpOf(d), OpOf(c) \in {"issue", "dequeue"},
                      caller[c].result > Nothing
               PROVE  caller[c].result # caller[d].result
    BY DEF NothingTwice
  <2>1. CASE caller[d].result > Nothing
    <3>1. PICK k \in Tries :
            exec[<<c, k>>].at = "done" /\ exec[<<c, k>>].answer = caller[c].result
      BY DEF CallsInv, OwnAnswer
    <3>2. PICK j \in Tries :
            exec[<<d, j>>].at = "done" /\ exec[<<d, j>>].answer = caller[d].result
      BY <2>1 DEF CallsInv, OwnAnswer
    <3>3. /\ IsDone(<<c, k>>, OpOf(c)) /\ IsDone(<<d, j>>, OpOf(c))
          /\ <<c, k>> # <<d, j>> /\ <<c, k>> \in Taking \X Tries /\ <<d, j>> \in Taking \X Tries
      BY <3>1, <3>2 DEF IsDone
    <3>4. QED
      BY <3>1, <3>2, <3>3 DEF CallsInv, Apart
  <2>2. CASE ~(caller[d].result > Nothing)
    BY <2>2
  <2>3. QED BY <2>1, <2>2
<1>2. QED
  BY <1>1, CallsInvInit, CallsInvStep, PTL DEF CallsSpec

-----------------------------------------------------------------------------
\* What the steps leave behind, for the invariants that follow.

\* The rest of what an operation does.
LEMMA AppliedRest ==
  ASSUME CallsTypes, NEW e \in Taking \X Tries
  PROVE  /\ Applied(e)[2].attempt =
              CASE OpOf(e[1]) = "report" -> "succeeded"
                [] OpOf(e[1]) = "wait" /\ exec[e].view.attempt = "running" -> "timeout"
                [] OTHER -> data.attempt
         /\ IF OpOf(e[1]) = "enqueue"
            THEN /\ Applied(e)[2].queue = Append(data.queue, e[1])
                 /\ Applied(e)[1] = Len(data.queue) + 1
            ELSE Applied(e)[2].queue = data.queue
         /\ OpOf(e[1]) = "dequeue" => Applied(e)[2].claimed \in {data.claimed, data.claimed + 1}
         /\ OpOf(e[1]) # "dequeue" => Applied(e)[2].claimed = data.claimed
         /\ OpOf(e[1]) \in {"report", "wait"} => Applied(e)[1] = Done
<1>1. data \in Contents /\ exec[e].view \in Contents /\ OpOf(e[1]) \in Ops
  BY PlanFacts DEF CallsTypes, ExecStates
<1>2. CASE OpOf(e[1]) = "enqueue"
  <2>1. Applied(e) = <<Len(data.queue) + 1, [data EXCEPT !.queue = Append(@, e[1])]>>
    BY <1>2, Zenon DEF Applied, Enqueued, Dequeued, NextNumber, Checked
  <2>2. Applied(e)[1] = Len(data.queue) + 1
        /\ Applied(e)[2] = [data EXCEPT !.queue = Append(data.queue, e[1])]
    BY <2>1
  <2> DEFINE q == Append(data.queue, e[1])
             d == [data EXCEPT !.queue = q]
  <2> HIDE DEF q
  <2>3. d.attempt = data.attempt /\ d.claimed = data.claimed /\ d.queue = q
    BY <1>1 DEF Contents
  <2>4. Applied(e)[2] = d
    BY <2>2 DEF q
  <2> HIDE DEF d
  <2>5. QED BY <1>2, <2>2, <2>3, <2>4 DEF q
<1>3. CASE OpOf(e[1]) = "dequeue"
  <2>1. Applied(e) = IF data.claimed < Len(data.queue)
                     THEN <<data.claimed + 1, [data EXCEPT !.claimed = @ + 1]>>
                     ELSE <<Nothing, data>>
    BY <1>3, Zenon DEF Applied, Enqueued, Dequeued, NextNumber, Checked
  <2>2. QED BY <1>1, <1>3, <2>1 DEF Contents
<1>4. CASE OpOf(e[1]) = "issue"
  <2>1. Applied(e) = <<exec[e].view.number + 1, [data EXCEPT !.number = exec[e].view.number + 1]>>
    BY <1>4, Zenon DEF Applied, Enqueued, Dequeued, NextNumber, Checked
  <2>2. QED BY <1>1, <1>4, <2>1 DEF Contents
<1>5. CASE OpOf(e[1]) = "report"
  <2>1. Applied(e) = <<Done, [data EXCEPT !.attempt = "succeeded"]>>
    BY <1>5, Zenon DEF Applied, Enqueued, Dequeued, NextNumber, Checked
  <2>2. QED BY <1>1, <1>5, <2>1 DEF Contents
<1>6. CASE OpOf(e[1]) = "wait"
  <2>1. Applied(e) = <<Done, IF exec[e].view.attempt = "running"
                             THEN [data EXCEPT !.attempt = "timeout"] ELSE data>>
    BY <1>6, Zenon DEF Applied, Enqueued, Dequeued, NextNumber, Checked
  <2>2. QED BY <1>1, <1>6, <2>1 DEF Contents
<1>7. QED
  BY <1>1, <1>2, <1>3, <1>4, <1>5, <1>6 DEF Ops

\* A step of an execution: it goes on, is answered, or fails, and is alone in that.
GoesOn(e) ==
  /\ data' = data
  /\ exec[e].at \in {"sent", "entered", "read"} /\ exec'[e].at \in {"entered", "read"}
  /\ Inside(e) \/ Enter(e)
  /\ exec'[e].at = "read" => exec'[e].view = data

IsAnswered(e) ==
  /\ exec[e].at = "read" /\ ~Conflicts(e) /\ data' = Applied(e)[2]
  /\ exec'[e].at = "done" /\ exec'[e].answer = Applied(e)[1]

Fails(e) ==
  /\ backend = "mongo" /\ exec[e].at = "read" /\ exec'[e].at = "failed"
  /\ data' = data \/ (~Conflicts(e) /\ data' = Applied(e)[2])

LEMMA ExecutionShape ==
  ASSUME CallsInv, NEW e \in Taking \X Tries, Execution(e) \/ TransactionFails(e)
  PROVE  /\ UNCHANGED <<backend, plan, caller>> /\ Taking' = Taking
         /\ \A f \in Taking \X Tries : f # e => exec'[f] = exec[f]
         /\ GoesOn(e) \/ IsAnswered(e) \/ Fails(e)
<1>1. /\ Taking \X Tries \subseteq Execs /\ exec \in [Execs -> ExecStates] /\ exec[e] \in ExecStates
  BY PlanFacts DEF CallsInv, CallsTypes
<1>2. CASE Enter(e)
  BY <1>1, <1>2 DEF Enter, GoesOn, Taking, ExecStates
<1>3. CASE Read(e)
  BY <1>1, <1>3 DEF Read, GoesOn, Inside, Taking, ExecStates
<1>4. CASE Rerun(e)
  BY <1>1, <1>4 DEF Rerun, GoesOn, Inside, Taking, ExecStates
<1>5. CASE Write(e)
  BY <1>1, <1>5 DEF Write, IsAnswered, Taking
<1>6. CASE TransactionFails(e)
  BY <1>1, <1>6 DEF TransactionFails, Fails, Taking, ExecStates
<1>7. QED BY <1>2, <1>3, <1>4, <1>5, <1>6 DEF Execution

\* A step of a caller: a new try, or an end.
NewTry(c) ==
  \E k \in Tries :
    /\ k = caller[c].tries + 1 /\ caller'[c].tries = k /\ caller'[c].at = "waiting"
    /\ caller[c].at \in {"idle", "probing"}
    /\ exec[<<c, k>>].at = "none" /\ exec'[<<c, k>>].at = "sent"
    /\ \A f \in Taking \X Tries : f # <<c, k>> => exec'[f] = exec[f]

Finishes(c) ==
  /\ exec' = exec /\ caller'[c].tries = caller[c].tries /\ caller[c].tries \in Tries
  /\ caller'[c].at \in {"probing", "answered", "failed"}
  /\ caller'[c].at = "answered" =>
       \/ OpOf(c) = "dequeue"
       \/ Current(c).at = "done" /\ caller'[c].result = Current(c).answer
  /\ caller'[c].at = "probing" => OpOf(c) # "dequeue"

LEMMA CallerShape ==
  ASSUME CallsInv, NEW c \in Taking,
         Call(c) \/ Answered(c) \/ Unanswered(c) \/ Retry(c) \/ GiveUp(c) \/ Raises(c)
  PROVE  /\ UNCHANGED <<backend, plan, data>> /\ Taking' = Taking
         /\ \A b \in Taking : b # c => caller'[b] = caller[b]
         /\ NewTry(c) \/ Finishes(c)
<1>1. /\ c \in Callers /\ Taking \subseteq Callers /\ Taking \X Tries \subseteq Execs
      /\ caller \in [Callers -> CallStates] /\ exec \in [Execs -> ExecStates]
      /\ caller[c] \in CallStates /\ Tried(c) /\ MaxTries \in Nat \ {0}
  BY PlanFacts, CallsAssumption DEF CallsInv, CallsTypes
<1>2. ASSUME NEW k \in Tries, k = caller[c].tries + 1, Sends(c, k),
             caller[c].at \in {"idle", "probing"}
      PROVE  /\ UNCHANGED <<backend, plan, data>> /\ Taking' = Taking
             /\ \A b \in Taking : b # c => caller'[b] = caller[b]
             /\ NewTry(c)
  <2>1. <<c, k>> \in Execs /\ exec[<<c, k>>] \in ExecStates
    BY <1>1 DEF Execs
  <2>2. exec[<<c, k>>].at = "none"
    BY <1>1, <1>2 DEF Tried, Tries, CallStates
  <2>3. /\ exec'[<<c, k>>].at = "sent"
        /\ \A f \in Taking \X Tries : f # <<c, k>> => exec'[f] = exec[f]
    BY <1>1, <1>2, <2>1 DEF Sends, ExecStates
  <2>4. /\ caller'[c].tries = k /\ caller'[c].at = "waiting"
        /\ \A b \in Taking : b # c => caller'[b] = caller[b]
    BY <1>1, <1>2 DEF Sends, CallStates
  <2>5. QED BY <1>2, <2>2, <2>3, <2>4 DEF Sends, NewTry, Taking
<1>3. CASE Call(c)
  <2>1. 1 \in Tries /\ caller[c].tries = 0
    BY <1>1, <1>3 DEF Call, Tried, Tries, CallStates
  <2>2. QED BY <1>2, <1>3, <2>1 DEF Call
<1>4. CASE Retry(c)
  <2>1. caller[c].tries + 1 \in Tries
    BY <1>1, <1>4 DEF Retry, Tries, CallStates
  <2>2. QED BY <1>2, <1>4, <2>1 DEF Retry
<1>5. ASSUME NEW at \in {"probing", "answered", "failed"}, NEW result, Ends(c, at, result),
             caller[c].at \in {"waiting", "probing"},
             at = "answered" => \/ OpOf(c) = "dequeue"
                                \/ Current(c).at = "done" /\ result = Current(c).answer,
             at = "probing" => OpOf(c) # "dequeue"
      PROVE  /\ UNCHANGED <<backend, plan, data>> /\ Taking' = Taking
             /\ \A b \in Taking : b # c => caller'[b] = caller[b]
             /\ Finishes(c)
  <2>1. /\ caller'[c].at = at /\ caller'[c].result = result
        /\ caller'[c].tries = caller[c].tries
        /\ \A b \in Taking : b # c => caller'[b] = caller[b]
    BY <1>1, <1>5 DEF Ends, CallStates
  <2>2. caller[c].tries \in Tries
    BY <1>1, <1>5 DEF Tried, CallStates, Tries
  <2>3. QED BY <1>5, <2>1, <2>2 DEF Ends, Finishes, Taking
<1>6. CASE Answered(c)
  BY <1>5, <1>6 DEF Answered
<1>7. CASE Unanswered(c)
  BY <1>5, <1>7 DEF Unanswered, GivesNone
<1>8. CASE GiveUp(c) \/ Raises(c)
  BY <1>5, <1>8 DEF GiveUp, Raises
<1>9. QED BY <1>3, <1>4, <1>6, <1>7, <1>8

-----------------------------------------------------------------------------
\* Reports stand.  Outside Mongo the executions on one loop take turns; ...
Alone ==
  backend # "mongo" =>
    \A e, f \in Taking \X Tries : Inside(e) /\ Inside(f) /\ SameLoop(e, f) => e = f

\* ... so, if whoever waits shares a loop with the reports or runs a transaction, ...
Steady ==
  \/ backend = "mongo"
  \/ \A c, d \in Taking : OpOf(c) = "wait" /\ OpOf(d) = "report" => SameLoop(<<c, 1>>, <<d, 1>>)

\* ... a wait that read a running attempt finds that no report came in between, ...
WaitsAreCurrent ==
  Steady /\ backend # "mongo" =>
    \A e \in Taking \X Tries :
      OpOf(e[1]) = "wait" /\ exec[e].at = "read" /\ exec[e].view.attempt = "running" =>
        data.attempt # "succeeded"

\* ... and what was reported stands.
ReportsStand ==
  Steady /\ (\E e \in Taking \X Tries : IsDone(e, "report")) => data.attempt = "succeeded"

\* An answer is that of the last try, except for a claim given up.
AnswersAreCurrent ==
  \A c \in Taking :
    caller[c].at = "answered" /\ OpOf(c) # "dequeue" =>
      /\ caller[c].tries \in Tries
      /\ Current(c).at = "done" /\ caller[c].result = Current(c).answer

StandInv == Alone /\ WaitsAreCurrent /\ ReportsStand /\ AnswersAreCurrent

LEMMA ExecutionStands ==
  ASSUME CallsInv, StandInv, NEW e \in Taking \X Tries, Execution(e) \/ TransactionFails(e)
  PROVE  StandInv'
<1>1. /\ UNCHANGED <<backend, plan, caller>> /\ Taking' = Taking
      /\ \A f \in Taking \X Tries : f # e => exec'[f] = exec[f]
      /\ GoesOn(e) \/ IsAnswered(e) \/ Fails(e)
  BY ExecutionShape
<1>2. /\ \A c : OpOf(c)' = OpOf(c)
      /\ \A f, g : SameLoop(f, g)' = SameLoop(f, g)
      /\ Steady' = Steady
  BY <1>1 DEF OpOf, SameLoop, Remote, Steady
<1>3. CallsTypes
  BY DEF CallsInv
<1>4. Alone'
  <2> SUFFICES ASSUME backend # "mongo",
                      NEW f \in Taking \X Tries, NEW g \in Taking \X Tries,
                      Inside(f)', Inside(g)', SameLoop(f, g)
               PROVE  f = g
    BY <1>1, <1>2 DEF Alone
  <2>1. CASE Inside(e) \/ ~GoesOn(e)
    <3>1. \A h \in Taking \X Tries : Inside(h)' => Inside(h)
      BY <1>1, <2>1 DEF Inside, GoesOn, IsAnswered, Fails
    <3>2. QED BY <3>1 DEF StandInv, Alone
  <2>2. CASE GoesOn(e) /\ ~Inside(e)
    <3>1. \A h \in Taking \X Tries : Inside(h) => ~SameLoop(e, h) /\ ~SameLoop(h, e)
      BY <2>2 DEF GoesOn, Enter, SameLoop
    <3>2. \A h \in Taking \X Tries : h # e /\ Inside(h)' => Inside(h)
      BY <1>1 DEF Inside
    <3>3. QED BY <3>1, <3>2 DEF StandInv, Alone
  <2>3. QED BY <2>1, <2>2
<1>5. ASSUME data' # data
      PROVE  /\ exec[e].at = "read" /\ ~Conflicts(e) /\ data' = Applied(e)[2]
             /\ data'.attempt = CASE OpOf(e[1]) = "report" -> "succeeded"
                                  [] OpOf(e[1]) = "wait" /\ exec[e].view.attempt = "running" -> "timeout"
                                  [] OTHER -> data.attempt
  BY <1>1, <1>3, <1>5, AppliedRest DEF GoesOn, IsAnswered, Fails
<1>6. WaitsAreCurrent'
  <2> SUFFICES ASSUME Steady, backend # "mongo", NEW f \in Taking \X Tries,
                      OpOf(f[1]) = "wait", exec'[f].at = "read",
                      exec'[f].view.attempt = "running"
               PROVE  data'.attempt # "succeeded"
    BY <1>1, <1>2 DEF WaitsAreCurrent
  <2>1. CASE f = e
    BY <1>1, <2>1 DEF GoesOn, IsAnswered, Fails
  <2>2. CASE f # e
    <3>1. exec'[f] = exec[f] /\ Inside(f) /\ data.attempt # "succeeded"
      BY <1>1, <2>2 DEF Inside, StandInv, WaitsAreCurrent
    <3>2. CASE data' = data
      BY <3>1, <3>2
    <3>3. CASE data' # data
      <4>1. Inside(e)
        BY <1>5, <3>3 DEF Inside
      <4>2. ~SameLoop(f, e)
        BY <2>2, <3>1, <4>1 DEF StandInv, Alone
      <4>3. OpOf(e[1]) # "report"
        BY <4>2 DEF Steady, SameLoop
      <4>4. QED BY <1>5, <3>1, <3>3, <4>3
    <3>4. QED BY <3>2, <3>3
  <2>3. QED BY <2>1, <2>2
<1>7. ReportsStand'
  <2> SUFFICES ASSUME Steady, NEW f \in Taking \X Tries, IsDone(f, "report")'
               PROVE  data'.attempt = "succeeded"
    BY <1>1, <1>2 DEF ReportsStand
  <2>1. CASE f = e
    <3>1. IsAnswered(e) /\ OpOf(e[1]) = "report"
      BY <1>1, <1>2, <2>1 DEF IsDone, GoesOn, Fails
    <3>2. QED BY <1>3, <3>1, AppliedRest DEF IsAnswered
  <2>2. CASE f # e
    <3>1. IsDone(f, "report") /\ data.attempt = "succeeded"
      BY <1>1, <1>2, <2>2 DEF IsDone, StandInv, ReportsStand
    <3>2. CASE data' = data
      BY <3>1, <3>2
    <3>3. CASE data' # data
      <4>1. OpOf(e[1]) = "wait" => exec[e].view.attempt # "running"
        <5>1. CASE backend = "mongo" /\ OpOf(e[1]) = "wait"
          <6>1. Conflicts(e) <=> exec[e].view.attempt # data.attempt
            BY <5>1, Zenon DEF Conflicts
          <6>2. QED BY <1>5, <3>1, <3>3, <6>1
        <5>2. CASE backend # "mongo"
          BY <1>5, <3>1, <3>3, <5>2 DEF StandInv, WaitsAreCurrent
        <5>3. QED BY <5>1, <5>2
      <4>2. QED BY <1>5, <3>1, <3>3, <4>1
    <3>4. QED BY <3>2, <3>3
  <2>3. QED BY <2>1, <2>2
<1>8. AnswersAreCurrent'
  <2> SUFFICES ASSUME NEW c \in Taking, caller[c].at = "answered", OpOf(c) # "dequeue"
               PROVE  /\ caller[c].tries \in Tries
                      /\ exec'[<<c, caller[c].tries>>].at = "done"
                      /\ caller[c].result = exec'[<<c, caller[c].tries>>].answer
    BY <1>1, <1>2 DEF AnswersAreCurrent, Current
  <2>1. /\ caller[c].tries \in Tries
        /\ exec[<<c, caller[c].tries>>].at = "done"
        /\ caller[c].result = exec[<<c, caller[c].tries>>].answer
    BY DEF StandInv, AnswersAreCurrent, Current
  <2>2. exec[e].at # "done"
    BY <1>1 DEF GoesOn, IsAnswered, Fails
  <2>3. QED BY <1>1, <2>1, <2>2
<1>9. QED BY <1>4, <1>6, <1>7, <1>8 DEF StandInv

LEMMA CallerStands ==
  ASSUME CallsInv, StandInv, NEW c \in Taking,
         Call(c) \/ Answered(c) \/ Unanswered(c) \/ Retry(c) \/ GiveUp(c) \/ Raises(c)
  PROVE  StandInv'
<1>1. /\ UNCHANGED <<backend, plan, data>> /\ Taking' = Taking
      /\ \A b \in Taking : b # c => caller'[b] = caller[b]
      /\ NewTry(c) \/ Finishes(c)
  BY CallerShape
<1>2. /\ \A b : OpOf(b)' = OpOf(b)
      /\ \A f, g : SameLoop(f, g)' = SameLoop(f, g)
      /\ Steady' = Steady
  BY <1>1 DEF OpOf, SameLoop, Remote, Steady
<1>3. \A f \in Taking \X Tries :
        \/ exec'[f] = exec[f]
        \/ exec[f].at = "none" /\ exec'[f].at = "sent"
  BY <1>1 DEF NewTry, Finishes
<1>4. Alone'
  BY <1>1, <1>2, <1>3 DEF StandInv, Alone, Inside
<1>5. WaitsAreCurrent'
  BY <1>1, <1>2, <1>3 DEF StandInv, WaitsAreCurrent
<1>6. ReportsStand'
  BY <1>1, <1>2, <1>3 DEF StandInv, ReportsStand, IsDone
<1>7. AnswersAreCurrent'
  <2> SUFFICES ASSUME NEW b \in Taking, caller'[b].at = "answered", OpOf(b) # "dequeue"
               PROVE  /\ caller'[b].tries \in Tries
                      /\ exec'[<<b, caller'[b].tries>>].at = "done"
                      /\ caller'[b].result = exec'[<<b, caller'[b].tries>>].answer
    BY <1>1, <1>2 DEF AnswersAreCurrent, Current
  <2>1. CASE b = c
    BY <1>1, <2>1 DEF NewTry, Finishes, Current
  <2>2. CASE b # c
    <3>1. /\ caller[b].tries \in Tries
          /\ exec[<<b, caller[b].tries>>].at = "done"
          /\ caller[b].result = exec[<<b, caller[b].tries>>].answer
      BY <1>1, <2>2 DEF StandInv, AnswersAreCurrent, Current
    <3>2. QED BY <1>1, <1>3, <2>2, <3>1
  <2>3. QED BY <2>1, <2>2
<1>8. QED BY <1>4, <1>5, <1>6, <1>7 DEF StandInv

LEMMA StandInvInit == CallsInit => StandInv
<1> SUFFICES ASSUME CallsInit PROVE StandInv
  OBVIOUS
<1>1. /\ \A e \in Taking \X Tries : exec[e].at = "none"
      /\ \A c \in Taking : caller[c].at = "idle"
  <2>1. CallsTypes
    BY CallsInvInit DEF CallsInv
  <2>2. QED BY <2>1, PlanFacts DEF CallsInit
<1>2. QED
  BY <1>1 DEF StandInv, Alone, WaitsAreCurrent, ReportsStand, AnswersAreCurrent, Inside, IsDone

LEMMA StandInvStep == CallsInv /\ StandInv /\ [CallsNext]_callVars => StandInv'
<1> SUFFICES ASSUME CallsInv, StandInv, [CallsNext]_callVars PROVE StandInv'
  OBVIOUS
<1>1. CASE UNCHANGED callVars
  <2>1. UNCHANGED <<backend, plan, data, exec, lock, caller>>
    BY <1>1 DEF callVars
  <2>2. QED
    BY <2>1 DEF StandInv, Alone, Steady, WaitsAreCurrent, ReportsStand, AnswersAreCurrent,
                Inside, IsDone, SameLoop, Remote, OpOf, Taking, Current
<1>2. QED BY <1>1, ExecutionStands, CallerStands DEF CallsNext

LEMMA CallsInvariant == CallsSpec => [](CallsInv /\ StandInv)
BY CallsInvInit, CallsInvStep, StandInvInit, StandInvStep, PTL DEF CallsSpec

\* Whoever had a report answered finds the attempt succeeded, whatever waits ran their
\* health checks meanwhile and however often both were sent, on a transactional store
\* and wherever the reports and the waits are served by one loop (MongoLightningStore,
\* LightningStoreServer, _call_store_method).
THEOREM ReportsStandOnOneLoop == CallsSpec => []ReportStandsOnOneLoop
<1>1. CallsInv /\ StandInv => ReportStandsOnOneLoop
  <2> SUFFICES ASSUME CallsInv, StandInv, Steady, NEW c \in Taking,
                      OpOf(c) = "report", caller[c].at = "answered"
               PROVE  data.attempt = "succeeded"
    BY DEF ReportStandsOnOneLoop, ReportStands, Steady
  <2>1. IsDone(<<c, caller[c].tries>>, "report") /\ caller[c].tries \in Tries
    BY DEF StandInv, AnswersAreCurrent, IsDone, Current
  <2>2. QED BY <2>1 DEF StandInv, ReportsStand
<1>2. QED BY <1>1, CallsInvariant, PTL

-----------------------------------------------------------------------------
\* The price of lost replies.  Every rollout in the queue was put there by a try that
\* ended, ...
EndedTry(e) == exec[e].at \in {"done", "failed"}
EndedTries(c) == {k \in Tries : EndedTry(<<c, k>>)}
Positions(c) == {i \in DOMAIN data.queue : data.queue[i] = c}

OnePerTry == \A c \in Taking : Cardinality(Positions(c)) <= Cardinality(EndedTries(c))

\* ... and is where the answer says, ...
AnswersPoint ==
  \A e \in Taking \X Tries :
    IsDone(e, "enqueue") =>
      exec[e].answer \in DOMAIN data.queue /\ data.queue[exec[e].answer] = e[1]

\* ... and a claim is tried once, by those who call, of whom there are finitely many.
OneTry ==
  \A c \in Taking : OpOf(c) = "dequeue" => caller[c].tries <= 1 /\ caller[c].at # "probing"

ClaimsMade == {c \in Taking : OpOf(c) = "dequeue" /\ caller[c].tries > 0}
ClaimsEnded == {c \in Taking : OpOf(c) = "dequeue" /\ EndedTry(<<c, 1>>)}

OnePerClaim ==
  /\ IsFiniteSet(ClaimsMade)
  /\ data.claimed <= Cardinality(ClaimsEnded)

LossInv == OnePerTry /\ AnswersPoint /\ OneTry /\ OnePerClaim

\* The sets that are counted are finite, and claims end only if they were made.
Counted ==
  /\ \A c \in Taking : IsFiniteSet(EndedTries(c)) /\ IsFiniteSet(Positions(c))
  /\ \A c \in Taking : EndedTries(c) \subseteq 1 .. caller[c].tries
  /\ ClaimsEnded \subseteq ClaimsMade

LEMMA CountTo ==
  ASSUME NEW n \in Nat
  PROVE  IsFiniteSet(1 .. n) /\ Cardinality(1 .. n) = n
BY FS_Interval

LEMMA CountedSets == CallsInv => Counted
<1> SUFFICES ASSUME CallsInv PROVE Counted
  OBVIOUS
<1>1. /\ MaxTries \in Nat /\ data.queue \in Seq(Callers)
      /\ \A c \in Taking : caller[c] \in CallStates
  BY CallsAssumption, PlanFacts DEF CallsInv, CallsTypes, Contents
<1>2. \A c \in Taking : EndedTries(c) \subseteq 1 .. caller[c].tries
  BY <1>1 DEF CallsInv, Tried, EndedTries, EndedTry, Tries, CallStates
<1>3. \A c \in Taking : IsFiniteSet(EndedTries(c))
  <2>1. IsFiniteSet(1 .. MaxTries)
    BY <1>1, FS_Interval
  <2>2. QED BY <2>1, FS_Subset DEF EndedTries, Tries
<1>4. \A c \in Taking : IsFiniteSet(Positions(c))
  <2>1. IsFiniteSet(1 .. Len(data.queue)) /\ DOMAIN data.queue = 1 .. Len(data.queue)
    BY <1>1, FS_Interval
  <2>2. QED BY <2>1, FS_Subset DEF Positions
<1>5. ClaimsEnded \subseteq ClaimsMade
  <2>1. 1 \in Tries
    BY CallsAssumption DEF Tries
  <2>2. ASSUME NEW c \in ClaimsEnded PROVE caller[c].tries > 0
    <3>1. c \in Taking /\ exec[<<c, 1>>].at # "none"
      BY DEF ClaimsEnded, EndedTry
    <3>2. ~(1 > caller[c].tries) /\ caller[c].tries \in Int
      BY <1>1, <2>1, <3>1 DEF CallsInv, Tried, CallStates
    <3>3. QED BY <3>2
  <2>3. QED BY <2>2 DEF ClaimsEnded, ClaimsMade
<1>6. QED BY <1>2, <1>3, <1>4, <1>5 DEF Counted

\* What a write adds to the queue, and where.
LEMMA AddedPositions ==
  ASSUME CallsTypes, NEW b \in Callers, data'.queue = Append(data.queue, b)
  PROVE  /\ Positions(b)' = Positions(b) \cup {Len(data.queue) + 1}
         /\ \A c : c # b => Positions(c)' = Positions(c)
         /\ Len(data.queue) + 1 \in DOMAIN data'.queue /\ data'.queue[Len(data.queue) + 1] = b
         /\ \A i \in DOMAIN data.queue :
              i \in DOMAIN data'.queue /\ data'.queue[i] = data.queue[i]
<1>1. data.queue \in Seq(Callers) /\ Len(data.queue) \in Nat
  BY DEF CallsTypes, Contents
<1>2. /\ DOMAIN data'.queue = 1 .. Len(data.queue) + 1 /\ DOMAIN data.queue = 1 .. Len(data.queue)
      /\ data'.queue[Len(data.queue) + 1] = b
      /\ \A i \in 1 .. Len(data.queue) : data'.queue[i] = data.queue[i]
  BY <1>1
<1>3. Len(data.queue) + 1 \in DOMAIN data'.queue
      /\ \A i \in DOMAIN data'.queue : i \in DOMAIN data.queue \/ i = Len(data.queue) + 1
  BY <1>1, <1>2
<1>4. \A i \in DOMAIN data.queue : i \in DOMAIN data'.queue
  BY <1>1, <1>2
<1>5. QED BY <1>2, <1>3, <1>4 DEF Positions

LEMMA ExecutionLoses ==
  ASSUME CallsInv, LossInv, NEW e \in Taking \X Tries, Execution(e) \/ TransactionFails(e)
  PROVE  LossInv'
<1>1. /\ UNCHANGED <<backend, plan, caller>> /\ Taking' = Taking
      /\ \A f \in Taking \X Tries : f # e => exec'[f] = exec[f]
      /\ GoesOn(e) \/ IsAnswered(e) \/ Fails(e)
  BY ExecutionShape
<1>2. \A c : OpOf(c)' = OpOf(c)
  BY <1>1 DEF OpOf
<1>3. CallsTypes /\ CallsInv' /\ e = <<e[1], e[2]>> /\ e[1] \in Taking /\ e[2] \in Tries
      /\ Taking \subseteq Callers
  BY CallsInvStep, PlanFacts DEF CallsInv, CallsNext
<1>c. Counted /\ Counted'
  <2>1. CallsInv' => Counted'
    BY CountedSets, PTL
  <2>2. QED BY <1>3, <2>1, CountedSets
<1>4. ~EndedTry(e)
  BY <1>1 DEF EndedTry, GoesOn, IsAnswered, Fails
<1>5. data' = data \/ (data' = Applied(e)[2] /\ EndedTry(e)')
  BY <1>1 DEF EndedTry, GoesOn, IsAnswered, Fails
<1>6. /\ \A f \in Taking \X Tries : f # e => EndedTry(f)' = EndedTry(f)
      /\ data' # data => EndedTry(e)'
  BY <1>1, <1>5 DEF EndedTry
<1>7. /\ data'.queue = data.queue
      \/ /\ OpOf(e[1]) = "enqueue" /\ data' # data
         /\ data'.queue = Append(data.queue, e[1])
  BY <1>3, <1>5, AppliedRest
<1>8. OnePerTry'
  <2> SUFFICES ASSUME NEW c \in Taking
               PROVE  Cardinality(Positions(c)') <= Cardinality(EndedTries(c)')
    BY <1>1 DEF OnePerTry
  <2>1. /\ Cardinality(Positions(c)) <= Cardinality(EndedTries(c))
        /\ IsFiniteSet(Positions(c)) /\ IsFiniteSet(EndedTries(c))
        /\ IsFiniteSet(EndedTries(c)')
    BY <1>1, <1>c DEF LossInv, OnePerTry, Counted
  <2>2. /\ Cardinality(Positions(c)) \in Nat /\ Cardinality(EndedTries(c)) \in Nat
        /\ Cardinality(EndedTries(c)') \in Nat
    BY <2>1, FS_CardinalityType
  <2>3. EndedTries(c) \subseteq EndedTries(c)'
    BY <1>4, <1>6 DEF EndedTries
  <2>4. Cardinality(EndedTries(c)) <= Cardinality(EndedTries(c)')
    BY <2>1, <2>3, FS_Subset
  <2>5. CASE Positions(c)' = Positions(c)
    BY <2>1, <2>2, <2>4, <2>5
  <2>6. CASE Positions(c)' # Positions(c)
    <3>1. c = e[1] /\ EndedTry(e)' /\ Positions(c)' = Positions(c) \cup {Len(data.queue) + 1}
      BY <1>3, <1>6, <1>7, <2>6, AddedPositions DEF Positions
    <3>2. e[2] \notin EndedTries(c) /\ EndedTries(c) \cup {e[2]} \subseteq EndedTries(c)'
      BY <1>3, <1>4, <2>3, <3>1 DEF EndedTries
    <3>3. Cardinality(Positions(c)') <= Cardinality(Positions(c)) + 1
      <4>1. Cardinality(Positions(c) \cup {Len(data.queue) + 1})
              \in {Cardinality(Positions(c)), Cardinality(Positions(c)) + 1}
        BY <2>1, FS_AddElement
      <4>2. QED BY <2>2, <3>1, <4>1
    <3>4. Cardinality(EndedTries(c) \cup {e[2]}) = Cardinality(EndedTries(c)) + 1
      BY <2>1, <3>2, FS_AddElement
    <3>5. Cardinality(EndedTries(c) \cup {e[2]}) <= Cardinality(EndedTries(c)')
      BY <2>1, <3>2, FS_Subset
    <3>6. Cardinality(Positions(c)') \in Nat
      BY <2>1, <3>1, FS_AddElement, FS_CardinalityType
    <3>7. QED BY <2>1, <2>2, <3>3, <3>4, <3>5, <3>6
  <2>7. QED BY <2>5, <2>6
<1>9. AnswersPoint'
  <2> SUFFICES ASSUME NEW f \in Taking \X Tries, OpOf(f[1]) = "enqueue", exec'[f].at = "done"
               PROVE  exec'[f].answer \in DOMAIN data'.queue /\ data'.queue[exec'[f].answer] = f[1]
    BY <1>1, <1>2 DEF AnswersPoint, IsDone
  <2>1. CASE f = e
    <3>1. /\ data'.queue = Append(data.queue, e[1])
          /\ exec'[e].answer = Len(data.queue) + 1
      BY <1>1, <1>3, <2>1, AppliedRest DEF GoesOn, IsAnswered, Fails
    <3>2. QED BY <1>3, <2>1, <3>1, AddedPositions
  <2>2. CASE f # e
    <3>1. /\ exec[f].answer \in DOMAIN data.queue /\ data.queue[exec[f].answer] = f[1]
          /\ exec'[f] = exec[f]
      BY <1>1, <2>2 DEF LossInv, AnswersPoint, IsDone
    <3>2. QED BY <1>3, <1>7, <3>1, AddedPositions
  <2>3. QED BY <2>1, <2>2
<1>10. OneTry' /\ ClaimsMade' = ClaimsMade
  BY <1>1, <1>2 DEF LossInv, OneTry, ClaimsMade
<1>11. data'.claimed <= Cardinality(ClaimsEnded')
  <2>1. /\ IsFiniteSet(ClaimsMade) /\ data.claimed <= Cardinality(ClaimsEnded)
        /\ data.claimed \in Nat /\ ClaimsEnded \subseteq ClaimsMade
        /\ ClaimsEnded' \subseteq ClaimsMade
    BY <1>1, <1>3, <1>10, <1>c DEF LossInv, OnePerClaim, CallsTypes, Contents, Counted
  <2>2. IsFiniteSet(ClaimsEnded) /\ IsFiniteSet(ClaimsEnded')
    BY <2>1, FS_Subset
  <2>3. Cardinality(ClaimsEnded) \in Nat /\ Cardinality(ClaimsEnded') \in Nat
    BY <2>2, FS_CardinalityType
  <2>4. 1 \in Tries
    BY CallsAssumption DEF Tries
  <2>5. ClaimsEnded \subseteq ClaimsEnded'
    BY <1>1, <1>2, <1>4, <1>6, <2>4 DEF ClaimsEnded
  <2>6. Cardinality(ClaimsEnded) <= Cardinality(ClaimsEnded')
    BY <2>2, <2>5, FS_Subset
  <2>7. CASE data'.claimed = data.claimed
    BY <2>1, <2>3, <2>6, <2>7
  <2>8. CASE data'.claimed # data.claimed
    <3>1. OpOf(e[1]) = "dequeue" /\ data'.claimed = data.claimed + 1 /\ EndedTry(e)'
      BY <1>3, <1>5, <2>8, AppliedRest
    <3>2. e[2] = 1
      <4>1. exec[e].at # "none" /\ caller[e[1]].tries <= 1 /\ caller[e[1]] \in CallStates
        BY <1>1, <1>3, <3>1 DEF LossInv, OneTry, GoesOn, IsAnswered, Fails, CallsTypes
      <4>2. ~(e[2] > caller[e[1]].tries)
        BY <1>3, <4>1 DEF CallsInv, Tried
      <4>3. \A k \in Tries : ~(k > caller[e[1]].tries) => k = 1
        BY <4>1, CallsAssumption DEF Tries, CallStates
      <4>4. QED BY <1>3, <4>2, <4>3
    <3>3. e[1] \notin ClaimsEnded /\ ClaimsEnded \cup {e[1]} \subseteq ClaimsEnded'
      BY <1>1, <1>2, <1>3, <1>4, <2>5, <3>1, <3>2 DEF ClaimsEnded
    <3>4. /\ Cardinality(ClaimsEnded \cup {e[1]}) = Cardinality(ClaimsEnded) + 1
      BY <2>2, <3>3, FS_AddElement
    <3>5. Cardinality(ClaimsEnded \cup {e[1]}) <= Cardinality(ClaimsEnded')
      BY <2>2, <3>3, FS_Subset
    <3>6. QED BY <2>1, <2>3, <3>1, <3>4, <3>5
  <2>9. QED BY <2>7, <2>8
<1>12. QED BY <1>8, <1>9, <1>10, <1>11 DEF LossInv, OnePerClaim

LEMMA CallerLoses ==
  ASSUME CallsInv, LossInv, NEW c \in Taking,
         Call(c) \/ Answered(c) \/ Unanswered(c) \/ Retry(c) \/ GiveUp(c) \/ Raises(c)
  PROVE  LossInv'
<1>1. /\ UNCHANGED <<backend, plan, data>> /\ Taking' = Taking
      /\ \A b \in Taking : b # c => caller'[b] = caller[b]
      /\ NewTry(c) \/ Finishes(c)
  BY CallerShape
<1>2. \A b : OpOf(b)' = OpOf(b)
  BY <1>1 DEF OpOf
<1>3. \A f \in Taking \X Tries :
        \/ exec'[f] = exec[f]
        \/ exec[f].at = "none" /\ exec'[f].at = "sent"
  BY <1>1 DEF NewTry, Finishes
<1>4. \A f \in Taking \X Tries : EndedTry(f)' = EndedTry(f)
  BY <1>3 DEF EndedTry
<1>5. OnePerTry'
  <2>1. ASSUME NEW b \in Taking
        PROVE  EndedTries(b)' = EndedTries(b) /\ Positions(b)' = Positions(b)
    BY <1>1, <1>4 DEF EndedTries, Positions
  <2>2. QED BY <1>1, <2>1 DEF LossInv, OnePerTry
<1>6. AnswersPoint'
  BY <1>1, <1>2, <1>3 DEF LossInv, AnswersPoint, IsDone
<1>7. OneTry'
  <2>1. ASSUME OpOf(c) = "dequeue"
        PROVE  caller'[c].tries <= 1 /\ caller'[c].at # "probing"
    <3>1. CASE NewTry(c)
      <4>1. caller[c].at = "idle" /\ caller[c].tries = 0
        BY <2>1, <3>1 DEF NewTry, LossInv, OneTry, CallsInv, Tried
      <4>2. QED BY <3>1, <4>1 DEF NewTry
    <3>2. CASE Finishes(c)
      BY <2>1, <3>2 DEF Finishes, LossInv, OneTry
    <3>3. QED BY <1>1, <3>1, <3>2
  <2>2. QED BY <1>1, <1>2, <2>1 DEF LossInv, OneTry
<1>8. IsFiniteSet(ClaimsMade')
  <2>1. ClaimsMade' \subseteq ClaimsMade \cup {c}
    BY <1>1, <1>2 DEF ClaimsMade
  <2>2. QED BY <2>1, FS_AddElement, FS_Subset DEF LossInv, OnePerClaim
<1>9. ClaimsEnded' = ClaimsEnded
  <2>1. 1 \in Tries
    BY CallsAssumption DEF Tries
  <2>2. QED BY <1>1, <1>2, <1>4, <2>1 DEF ClaimsEnded
<1>10. QED BY <1>1, <1>5, <1>6, <1>7, <1>8, <1>9 DEF LossInv, OnePerClaim

LEMMA LossInvInit == CallsInit => LossInv
<1> SUFFICES ASSUME CallsInit PROVE LossInv
  OBVIOUS
<1>1. CallsInv
  BY CallsInvInit
<1>2. /\ \A e \in Taking \X Tries : exec[e].at = "none"
      /\ \A c \in Taking : caller[c].at = "idle" /\ caller[c].tries = 0
      /\ data.queue = <<>> /\ data.claimed = 0
  BY <1>1, PlanFacts DEF CallsInit, CallsInv, InitialData
<1>3. \A c \in Taking : EndedTries(c) = {} /\ Positions(c) = {}
  BY <1>2 DEF EndedTries, EndedTry, Positions
<1>4. ClaimsMade = {} /\ ClaimsEnded = {}
  BY <1>1, <1>2, CountedSets DEF ClaimsMade, Counted
<1>5. Cardinality({}) = 0 /\ IsFiniteSet({})
  BY FS_EmptySet
<1>6. OnePerTry
  BY <1>3, <1>5 DEF OnePerTry
<1>7. AnswersPoint /\ OneTry
  BY <1>2 DEF AnswersPoint, IsDone, OneTry
<1>8. OnePerClaim
  BY <1>2, <1>4, <1>5 DEF OnePerClaim
<1>9. QED BY <1>6, <1>7, <1>8 DEF LossInv

LEMMA LossInvStep == CallsInv /\ LossInv /\ [CallsNext]_callVars => LossInv'
<1> SUFFICES ASSUME CallsInv, LossInv, [CallsNext]_callVars PROVE LossInv'
  OBVIOUS
<1>1. CASE UNCHANGED callVars
  <2>1. UNCHANGED <<backend, plan, data, exec, lock, caller>>
    BY <1>1 DEF callVars
  <2>2. QED
    BY <2>1 DEF LossInv, OnePerTry, Positions, EndedTries, EndedTry, AnswersPoint, IsDone,
                OneTry, OnePerClaim, ClaimsMade, ClaimsEnded, OpOf, Taking
<1>2. QED BY <1>1, ExecutionLoses, CallerLoses DEF CallsNext

\* Lost replies cost one rollout per try of an enqueue at most and one claim per caller
\* at most, and no rollout whose enqueue was answered is missing, for any number of
\* tries and callers on any of the stores (_request_json, dequeue_rollout).
THEOREM LossesBounded == CallsSpec => []LossesAreBounded
<1>1. CallsInv /\ StandInv /\ LossInv => LossesAreBounded
  <2> SUFFICES ASSUME CallsInv, StandInv, LossInv PROVE LossesAreBounded
    OBVIOUS
  <2>1. ASSUME NEW c \in Taking PROVE Copies(c) <= caller[c].tries
    <3>1. /\ Copies(c) = Cardinality(Positions(c))
          /\ Cardinality(Positions(c)) <= Cardinality(EndedTries(c))
          /\ EndedTries(c) \subseteq 1 .. caller[c].tries
          /\ IsFiniteSet(EndedTries(c)) /\ IsFiniteSet(Positions(c))
      BY CountedSets DEF Copies, Positions, LossInv, OnePerTry, Counted
    <3>2. caller[c].tries \in Nat
      BY PlanFacts, CallsAssumption DEF CallsInv, CallsTypes, CallStates
    <3>3. /\ IsFiniteSet(1 .. caller[c].tries)
          /\ Cardinality(1 .. caller[c].tries) = caller[c].tries
      BY <3>2, CountTo
    <3>4. Cardinality(EndedTries(c)) <= caller[c].tries
      BY <3>1, <3>3, FS_Subset
    <3>5. Cardinality(Positions(c)) \in Nat /\ Cardinality(EndedTries(c)) \in Nat
      BY <3>1, FS_CardinalityType
    <3>6. QED BY <3>1, <3>2, <3>4, <3>5
  <2>2. ASSUME NEW c \in Taking, OpOf(c) = "enqueue", caller[c].at = "answered"
        PROVE  data.queue[caller[c].result] = c
    <3>1. /\ IsDone(<<c, caller[c].tries>>, "enqueue") /\ caller[c].tries \in Tries
          /\ caller[c].result = exec[<<c, caller[c].tries>>].answer
      BY <2>2 DEF StandInv, AnswersAreCurrent, IsDone, Current
    <3>2. QED BY <3>1 DEF LossInv, AnswersPoint
  <2>3. data.claimed <= Claims
    <3>1. /\ IsFiniteSet(ClaimsMade) /\ ClaimsEnded \subseteq ClaimsMade
          /\ data.claimed <= Cardinality(ClaimsEnded) /\ Claims = Cardinality(ClaimsMade)
      BY CountedSets DEF LossInv, OnePerClaim, Claims, ClaimsMade, Counted
    <3>2. Cardinality(ClaimsEnded) <= Cardinality(ClaimsMade) /\ IsFiniteSet(ClaimsEnded)
      BY <3>1, FS_Subset
    <3>3. /\ Cardinality(ClaimsEnded) \in Nat /\ Cardinality(ClaimsMade) \in Nat
          /\ data.claimed \in Nat
      BY <3>1, <3>2, FS_CardinalityType DEF CallsInv, CallsTypes, Contents
    <3>4. QED BY <3>1, <3>2, <3>3
  <2>4. QED BY <2>1, <2>2, <2>3 DEF LossesAreBounded
<1>2. QED BY <1>1, CallsInvariant, LossInvInit, LossInvStep, PTL DEF CallsSpec

-----------------------------------------------------------------------------
(* The collections: Collections.                                            *)

\* The inductive invariant: no two items have the same keys, ...
Keyed(items) ==
  /\ items \in Seq(Items)
  /\ IsInjective(items)
  /\ \A i, j \in ToSet(items) : KeyOf(i) = KeyOf(j) => i = j

\* ... and every item is in a branch, of which there is one for each key.
Branched(items, branches) ==
  /\ branches \in Seq(Values)
  /\ IsInjective(branches)
  /\ \A i \in ToSet(items) : i["k1"] \in ToSet(branches)

CollInv ==
  /\ backing \in {"memory", "mongo"}
  /\ Keyed(rows)
  /\ nodes \in Seq(Values)
  /\ backing = "memory" => Branched(rows, nodes)

\* It holds of what is empty.
LEMMA CollInvInit == CollInit => CollInv
<1>1. ToSet(<<>>) = {} /\ IsInjective(<<>>)
  BY DEF ToSet, IsInjective
<1>2. <<>> \in Seq(Items) /\ <<>> \in Seq(Values)
  OBVIOUS
<1>3. QED BY <1>1, <1>2 DEF CollInit, CollInv, Keyed, Branched

\* Keys of items.
LEMMA Keys ==
  /\ \A i \in Items : i["k1"] \in Values /\ i["k2"] \in Values
  /\ \A i, j : KeyOf(i) = KeyOf(j) <=> i["k1"] = j["k1"] /\ i["k2"] = j["k2"]
<1>1. "k1" \in Fields /\ "k2" \in Fields
  BY DEF Fields
<1>2. QED BY <1>1 DEF Items, KeyOf

\* An item that takes the place of another with its keys.
LEMMA ReplacedKeeps ==
  ASSUME NEW items, Keyed(items), NEW i \in Items, Has(items, i)
  PROVE  /\ Keyed(Replaced(items, i))
         /\ ToSet(Replaced(items, i)) \subseteq ToSet(items) \cup {i}
<1> DEFINE L == Len(items)
           new == Replaced(items, i)
<1>1. /\ L \in Nat /\ DOMAIN items = 1 .. L
      /\ \A n \in 1 .. L : items[n] \in Items /\ items[n] \in ToSet(items)
      /\ \A n \in 1 .. L : \A m \in 1 .. L : items[n] = items[m] => n = m
  BY DEF Keyed, ToSet, IsInjective
<1>2. new = [n \in 1 .. L |-> IF KeyOf(items[n]) = KeyOf(i) THEN i ELSE items[n]]
  BY <1>1 DEF Replaced
<1> HIDE DEF L, new
<1>3. new \in Seq(Items) /\ DOMAIN new = 1 .. L
  BY <1>1, <1>2
<1>4. \A n \in 1 .. L : /\ KeyOf(new[n]) = KeyOf(items[n])
                        /\ new[n] = i \/ new[n] = items[n]
                        /\ KeyOf(new[n]) = KeyOf(i) => new[n] = i
                        /\ KeyOf(new[n]) # KeyOf(i) => new[n] = items[n]
  BY <1>2
<1>5. \A n \in 1 .. L : \A m \in 1 .. L : KeyOf(items[n]) = KeyOf(items[m]) => n = m
  BY <1>1 DEF Keyed
<1>6. ToSet(new) = {new[n] : n \in 1 .. L}
  BY <1>3 DEF ToSet
<1>7. IsInjective(new)
  BY <1>3, <1>4, <1>5 DEF IsInjective
<1>8. ASSUME NEW x \in ToSet(new), NEW y \in ToSet(new), KeyOf(x) = KeyOf(y)
      PROVE  x = y
  BY <1>4, <1>5, <1>6, <1>8
<1>9. ToSet(new) \subseteq ToSet(items) \cup {i}
  BY <1>1, <1>4, <1>6
<1>10. QED BY <1>3, <1>7, <1>8, <1>9 DEF Keyed, new

\* Whatever is written, keys stay unique.
LEMMA WrittenKeeps ==
  ASSUME NEW items, Keyed(items), NEW i \in Items, NEW mode \in Modes
  PROVE  /\ Keyed(Written(items, i, mode))
         /\ ToSet(Written(items, i, mode)) \subseteq ToSet(items) \cup {i}
<1>1. CASE mode = "delete"
  <2> DEFINE S == {j \in Items : KeyOf(j) # KeyOf(i)}
  <2>1. Written(items, i, mode) = Those(items, S)
    BY <1>1 DEF Written, Without
  <2> HIDE DEF S
  <2>2. /\ Those(items, S) \in Seq(Items) /\ ToSet(Those(items, S)) = ToSet(items) \cap S
        /\ IsInjective(Those(items, S))
    BY ThoseHold DEF Keyed
  <2>3. QED BY <2>1, <2>2 DEF Keyed
<1>2. CASE mode # "delete" /\ Has(items, i)
  BY <1>2, ReplacedKeeps DEF Written
<1>3. CASE mode # "delete" /\ ~Has(items, i)
  <2>1. Written(items, i, mode) = Append(items, i)
    BY <1>3 DEF Written
  <2>2. items \in Seq(Items) /\ Append(items, i) \in Seq(Items)
    BY DEF Keyed
  <2>3. /\ ToSet(Append(items, i)) = ToSet(items) \cup {i}
        /\ IsInjective(Append(items, i)) <=> IsInjective(items) /\ i \notin ToSet(items)
    BY <2>2, AppendHolds
  <2>4. \A j \in ToSet(items) : KeyOf(j) # KeyOf(i)
    BY <1>3 DEF Has
  <2>5. QED BY <2>1, <2>2, <2>3, <2>4 DEF Keyed
<1>4. QED BY <1>1, <1>2, <1>3

\* And whatever may be written finds its branch.
Grown(branches, i, mode) ==
  IF mode \in {"update", "delete"} \/ i["k1"] \in ToSet(branches) THEN branches
  ELSE Append(branches, i["k1"])

\* It is one of those there are then.
LEMMA WrittenBranches ==
  ASSUME NEW items, NEW branches, Keyed(items), Branched(items, branches),
         NEW i \in Items, NEW mode \in Modes, Allowed(items, i, mode)
  PROVE  Branched(Written(items, i, mode), Grown(branches, i, mode))
<1>1. ToSet(Written(items, i, mode)) \subseteq ToSet(items) \cup {i}
  BY WrittenKeeps
<1>2. i["k1"] \in Values
  BY Keys
<1>3. CASE i["k1"] \in ToSet(branches)
  BY <1>1, <1>3 DEF Branched, Grown
<1>4. CASE i["k1"] \notin ToSet(branches) /\ mode \in {"update", "delete"}
  <2>1. Has(items, i)
    BY <1>4 DEF Allowed
  <2>2. PICK j \in ToSet(items) : KeyOf(j) = KeyOf(i)
    BY <2>1 DEF Has
  <2>3. j["k1"] = i["k1"] /\ j["k1"] \in ToSet(branches)
    BY <2>2, Keys DEF Branched
  <2>4. QED BY <1>4, <2>3
<1>5. CASE i["k1"] \notin ToSet(branches) /\ mode \notin {"update", "delete"}
  <2>1. Grown(branches, i, mode) = Append(branches, i["k1"])
    BY <1>5 DEF Grown
  <2>2. branches \in Seq(Values) /\ Append(branches, i["k1"]) \in Seq(Values)
    BY <1>2 DEF Branched
  <2>3. /\ ToSet(Append(branches, i["k1"])) = ToSet(branches) \cup {i["k1"]}
        /\ IsInjective(Append(branches, i["k1"]))
             <=> IsInjective(branches) /\ i["k1"] \notin ToSet(branches)
    BY <1>2, <2>2, AppendHolds
  <2>4. QED BY <1>1, <1>5, <2>1, <2>2, <2>3 DEF Branched
<1>6. QED BY <1>3, <1>4, <1>5

\* What is written is a sequence of items, whatever there was.
LEMMA WrittenType ==
  ASSUME NEW items \in Seq(Items), NEW i \in Items, NEW mode
  PROVE  Written(items, i, mode) \in Seq(Items)
<1>1. CASE mode = "delete"
  <2> DEFINE S == {j \in Items : KeyOf(j) # KeyOf(i)}
  <2>1. Written(items, i, mode) = Those(items, S)
    BY <1>1 DEF Written, Without
  <2>2. QED BY <2>1, ThoseHold
<1>2. CASE mode # "delete" /\ Has(items, i)
  <2>1. Written(items, i, mode) = Replaced(items, i)
    BY <1>2 DEF Written
  <2>2. Replaced(items, i)
          = [n \in 1 .. Len(items) |-> IF KeyOf(items[n]) = KeyOf(i) THEN i ELSE items[n]]
    BY DEF Replaced
  <2>3. QED BY <2>1, <2>2
<1>3. CASE mode # "delete" /\ ~Has(items, i)
  BY <1>3 DEF Written
<1>4. QED BY <1>1, <1>2, <1>3

\* What there is after n items of a batch, and the branches then.
StepsFrom(batch, mode, f) ==
  f = [n \in 0 .. Len(batch) |-> IF n = 0 THEN rows ELSE Written(f[n - 1], batch[n], mode)]

NodedFrom(batch, mode, f) ==
  f = [n \in 0 .. Len(batch) |-> IF n = 0 THEN nodes ELSE Grown(f[n - 1], batch[n], mode)]

\* A batch is one or two items.
LEMMA BatchItems ==
  ASSUME NEW batch \in Batches
  PROVE  Len(batch) \in Nat /\ \A n \in 1 .. Len(batch) : batch[n] \in Items
<1>1. PICK k \in 1 .. 2 : batch \in [1 .. k -> Items]
  BY DEF Batches
<1>2. Len(batch) = k
  BY <1>1
<1>3. QED BY <1>1, <1>2

\* Steps is such a function: CHOOSE finds one, as one can be unfolded from the rows.
LEMMA StepsAre ==
  ASSUME NEW batch \in Batches, NEW mode, rows \in Seq(Items)
  PROVE  /\ Steps(batch, mode)[0] = rows
         /\ \A n \in 1 .. Len(batch) :
              Steps(batch, mode)[n] = Written(Steps(batch, mode)[n - 1], batch[n], mode)
<1> DEFINE L == Len(batch)
           A == Seq(Items)
           W == [p \in A \X (1 .. L) |-> Written(p[1], batch[p[2]], mode)]
<1>1. L \in Nat /\ \A n \in 1 .. L : batch[n] \in Items
  BY BatchItems
<1>2. \E f : StepsFrom(batch, mode, f)
  <2>1. ASSUME NEW p \in A \X (1 .. L) PROVE Written(p[1], batch[p[2]], mode) \in A
    <3>1. p[1] \in A /\ batch[p[2]] \in Items
      BY <1>1
    <3>2. QED BY <3>1, WrittenType
  <2>2. W \in [A \X (1 .. L) -> A]
    BY <2>1
  <2>3. \A s \in A, n \in 1 .. L : W[<<s, n>>] = Written(s, batch[n], mode)
    OBVIOUS
  <2> HIDE DEF W
  <2>4. PICK f \in [0 .. L -> A] : Unfolds(L, rows, W, f)
    BY <1>1, <2>2, UnfoldExists
  <2>5. \A n \in 0 .. L : f[n] \in A
    OBVIOUS
  <2>6. f = [n \in 0 .. L |-> IF n = 0 THEN rows ELSE W[<<f[n - 1], n>>]]
    BY <2>4 DEF Unfolds
  <2>7. \A n \in 0 .. L : n # 0 => W[<<f[n - 1], n>>] = Written(f[n - 1], batch[n], mode)
    <3>1. ASSUME NEW n \in 0 .. L, n # 0 PROVE f[n - 1] \in A /\ n \in 1 .. L
      BY <1>1, <2>5, <3>1
    <3> HIDE DEF A
    <3>2. QED BY <2>3, <3>1
  <2>8. f = [n \in 0 .. L |-> IF n = 0 THEN rows ELSE Written(f[n - 1], batch[n], mode)]
    BY ONLY <2>6, <2>7
  <2>9. QED BY <2>8 DEF StepsFrom
<1>3. Steps(batch, mode) = CHOOSE f : StepsFrom(batch, mode, f)
  BY DEF Steps, StepsFrom
<1> DEFINE g == Steps(batch, mode)
<1>4. StepsFrom(batch, mode, g)
  BY <1>2, <1>3
<1> HIDE DEF g
<1>5. \A n \in 0 .. L : g[n] = IF n = 0 THEN rows ELSE Written(g[n - 1], batch[n], mode)
  BY <1>4 DEF StepsFrom
<1>6. 0 \in 0 .. L /\ \A n \in 1 .. L : n \in 0 .. L /\ n # 0
  BY <1>1
<1>7. g[0] = rows /\ \A n \in 1 .. L : g[n] = Written(g[n - 1], batch[n], mode)
  BY ONLY <1>5, <1>6
<1>8. QED BY <1>7 DEF g

\* And so is Noded, from the nodes.
LEMMA NodedAre ==
  ASSUME NEW batch \in Batches, NEW mode, nodes \in Seq(Values)
  PROVE  /\ Noded(batch, mode)[0] = nodes
         /\ \A n \in 1 .. Len(batch) :
              Noded(batch, mode)[n] = Grown(Noded(batch, mode)[n - 1], batch[n], mode)
<1> DEFINE L == Len(batch)
           A == Seq(Values)
           W == [p \in A \X (1 .. L) |-> Grown(p[1], batch[p[2]], mode)]
<1>1. L \in Nat /\ \A n \in 1 .. L : batch[n] \in Items
  BY BatchItems
<1>2. \E f : NodedFrom(batch, mode, f)
  <2>1. ASSUME NEW p \in A \X (1 .. L) PROVE Grown(p[1], batch[p[2]], mode) \in A
    <3>1. p[1] \in Seq(Values) /\ batch[p[2]]["k1"] \in Values
      BY <1>1, Keys
    <3>2. QED BY <3>1 DEF Grown
  <2>2. W \in [A \X (1 .. L) -> A]
    BY <2>1
  <2>3. \A s \in A, n \in 1 .. L : W[<<s, n>>] = Grown(s, batch[n], mode)
    OBVIOUS
  <2> HIDE DEF W
  <2>4. PICK f \in [0 .. L -> A] : Unfolds(L, nodes, W, f)
    BY <1>1, <2>2, UnfoldExists
  <2>5. \A n \in 0 .. L : f[n] \in A
    OBVIOUS
  <2>6. f = [n \in 0 .. L |-> IF n = 0 THEN nodes ELSE W[<<f[n - 1], n>>]]
    BY <2>4 DEF Unfolds
  <2>7. \A n \in 0 .. L : n # 0 => W[<<f[n - 1], n>>] = Grown(f[n - 1], batch[n], mode)
    <3>1. ASSUME NEW n \in 0 .. L, n # 0 PROVE f[n - 1] \in A /\ n \in 1 .. L
      BY <1>1, <2>5, <3>1
    <3> HIDE DEF A
    <3>2. QED BY <2>3, <3>1
  <2>8. f = [n \in 0 .. L |-> IF n = 0 THEN nodes ELSE Grown(f[n - 1], batch[n], mode)]
    BY ONLY <2>6, <2>7
  <2>9. QED BY <2>8 DEF NodedFrom
<1>3. Noded(batch, mode) = CHOOSE f : NodedFrom(batch, mode, f)
  BY DEF Noded, NodedFrom, Grown
<1> DEFINE g == Noded(batch, mode)
<1>4. NodedFrom(batch, mode, g)
  BY <1>2, <1>3
<1> HIDE DEF g
<1>5. \A n \in 0 .. L : g[n] = IF n = 0 THEN nodes ELSE Grown(g[n - 1], batch[n], mode)
  BY <1>4 DEF NodedFrom
<1>6. 0 \in 0 .. L /\ \A n \in 1 .. L : n \in 0 .. L /\ n # 0
  BY <1>1
<1>7. g[0] = nodes /\ \A n \in 1 .. L : g[n] = Grown(g[n - 1], batch[n], mode)
  BY ONLY <1>5, <1>6
<1>8. QED BY <1>7 DEF g

\* As many items are written as may be, one after the other, or none.
LEMMA BatchLengthIs ==
  ASSUME NEW batch \in Batches, NEW mode
  PROVE  /\ BatchLength(batch, mode) \in 0 .. Len(batch)
         /\ \A m \in 1 .. BatchLength(batch, mode) :
              Allowed(Steps(batch, mode)[m - 1], batch[m], mode)
<1> DEFINE L == Len(batch)
           may(m) == Allowed(Steps(batch, mode)[m - 1], batch[m], mode)
           ok(n) == \A m \in 1 .. n : may(m)
           most(n) == ok(n) /\ \A m \in 0 .. L : ok(m) => m <= n
           longest == CHOOSE n \in 0 .. L : most(n)
<1>1. L \in Nat
  BY BatchItems
<1> HIDE DEF may
<1>2. \E n \in 0 .. L : most(n)
  <2> DEFINE P == {n \in Nat : \E k \in 0 .. n : ok(k) /\ \A m \in 0 .. n : ok(m) => m <= k}
  <2>1. 0 \in P
    <3>1. ok(0) /\ 0 \in 0 .. 0 /\ \A m \in 0 .. 0 : m <= 0
      OBVIOUS
    <3>2. QED BY <3>1
  <2>2. ASSUME NEW n \in Nat, n \in P PROVE n + 1 \in P
    <3> HIDE DEF ok
    <3>1. PICK k \in 0 .. n : ok(k) /\ \A m \in 0 .. n : ok(m) => m <= k
      BY <2>2
    <3>2. CASE ok(n + 1)
      <4>1. n + 1 \in 0 .. n + 1 /\ \A m \in 0 .. n + 1 : m <= n + 1
        OBVIOUS
      <4>2. QED BY <3>2, <4>1
    <3>3. CASE ~ok(n + 1)
      <4>1. k \in 0 .. n + 1 /\ \A m \in 0 .. n + 1 : m = n + 1 \/ m \in 0 .. n
        OBVIOUS
      <4>2. \A m \in 0 .. n + 1 : ok(m) => m <= k
        BY <3>1, <3>3, <4>1
      <4>3. QED BY <3>1, <4>1, <4>2
    <3>4. QED BY <3>2, <3>3
  <2>3. \A n \in Nat : n \in P
    <3> HIDE DEF P
    <3>1. QED BY <2>1, <2>2, CountingUp
  <2>4. QED BY <1>1, <2>3
<1>3. longest \in 0 .. L /\ ok(longest)
  <2> HIDE DEF ok
  <2>1. longest \in 0 .. L /\ most(longest)
    BY <1>2
  <2>2. QED BY <2>1
<1>4. BatchLength(batch, mode) = IF backing = "mongo" /\ longest < L THEN 0 ELSE longest
  BY DEF BatchLength, may
<1>5. 0 \in 0 .. L /\ ok(0)
  BY <1>1
<1> HIDE DEF longest
<1>6. BatchLength(batch, mode) \in 0 .. L /\ ok(BatchLength(batch, mode))
  <2> HIDE DEF ok
  <2>1. QED BY <1>3, <1>4, <1>5
<1>7. QED BY <1>6 DEF may

\* What a batch leaves is keyed, and branched if it was.
LEMMA BatchKeeps ==
  ASSUME CollInv, NEW batch \in Batches, NEW mode \in Modes
  PROVE  LET done == BatchLength(batch, mode) IN
         /\ Keyed(Steps(batch, mode)[done])
         /\ backing = "memory" => Branched(Steps(batch, mode)[done], Noded(batch, mode)[done])
<1> DEFINE L == Len(batch)
           done == BatchLength(batch, mode)
           S == Steps(batch, mode)
           N == Noded(batch, mode)
           Good(n) == Keyed(S[n]) /\ (backing = "memory" => Branched(S[n], N[n]))
           P == {n \in Nat : n <= done => Good(n)}
<1>1. L \in Nat /\ \A n \in 1 .. L : batch[n] \in Items
  BY BatchItems
<1>2. rows \in Seq(Items) /\ nodes \in Seq(Values)
  BY DEF CollInv, Keyed
<1>3. done \in 0 .. L /\ \A m \in 1 .. done : Allowed(S[m - 1], batch[m], mode)
  BY BatchLengthIs
<1>4. S[0] = rows /\ \A n \in 1 .. L : S[n] = Written(S[n - 1], batch[n], mode)
  BY <1>2, StepsAre
<1>5. N[0] = nodes /\ \A n \in 1 .. L : N[n] = Grown(N[n - 1], batch[n], mode)
  BY <1>2, NodedAre
<1> HIDE DEF L, done, S, N
<1>6. 0 \in P
  BY <1>4, <1>5 DEF CollInv
<1>7. ASSUME NEW n \in Nat, n \in P PROVE n + 1 \in P
  <2>1. ASSUME n + 1 <= done PROVE Good(n + 1)
    <3>1. Good(n)
      <4>1. n <= done
        BY <1>1, <1>3, <2>1
      <4>2. QED BY <1>7, <4>1
    <3>2. n + 1 \in 1 .. L /\ n + 1 \in 1 .. done /\ (n + 1) - 1 = n
      BY <1>1, <1>3, <2>1
    <3>3. batch[n + 1] \in Items /\ Allowed(S[n], batch[n + 1], mode)
      BY <1>1, <1>3, <3>2
    <3>4. /\ S[n + 1] = Written(S[n], batch[n + 1], mode)
          /\ N[n + 1] = Grown(N[n], batch[n + 1], mode)
      BY <1>4, <1>5, <3>2
    <3>5. Keyed(S[n + 1])
      BY <3>1, <3>3, <3>4, WrittenKeeps
    <3>6. ASSUME backing = "memory" PROVE Branched(S[n + 1], N[n + 1])
      BY <3>1, <3>3, <3>4, <3>6, WrittenBranches
    <3>7. QED BY <3>5, <3>6
  <2> HIDE DEF Good
  <2>2. QED BY <2>1
<1>8. \A n \in Nat : n \in P
  <2> HIDE DEF P
  <2>1. QED BY <1>6, <1>7, CountingUp
<1>9. Good(done)
  <2> HIDE DEF Good
  <2>1. QED BY <1>1, <1>3, <1>8
<1>10. QED BY <1>9 DEF done, S, N

\* A branch that is taken out takes its items with it.
LEMMA EvictKeeps ==
  ASSUME CollInv, NEW k \in Values, Evict(k)
  PROVE  CollInv'
<1> DEFINE I == {i \in Items : i["k1"] # k}
<1>1. /\ rows' = Those(rows, I) /\ nodes' = Those(nodes, Values \ {k})
      /\ backing = "memory" /\ backing' = backing
  BY DEF Evict
<1>2. /\ rows \in Seq(Items) /\ IsInjective(rows) /\ nodes \in Seq(Values) /\ IsInjective(nodes)
      /\ \A i, j \in ToSet(rows) : KeyOf(i) = KeyOf(j) => i = j
      /\ \A i \in ToSet(rows) : i["k1"] \in ToSet(nodes)
  BY <1>1 DEF CollInv, Keyed, Branched
<1>3. \A i \in I : i["k1"] # k
  OBVIOUS
<1> HIDE DEF I
<1>4. rows' \in Seq(Items) /\ ToSet(rows') = ToSet(rows) \cap I /\ IsInjective(rows')
  BY <1>1, <1>2, ThoseHold
<1>5. /\ nodes' \in Seq(Values) /\ IsInjective(nodes')
      /\ ToSet(nodes') = ToSet(nodes) \cap (Values \ {k})
  BY <1>1, <1>2, ThoseHold
<1>6. ToSet(nodes) \subseteq Values
  BY <1>2 DEF ToSet
<1>7. \A i \in ToSet(rows') : i["k1"] \in ToSet(nodes')
  BY <1>2, <1>3, <1>4, <1>5, <1>6
<1>8. \A i, j \in ToSet(rows') : KeyOf(i) = KeyOf(j) => i = j
  BY <1>2, <1>4
<1>9. backing' \in {"memory", "mongo"}
  BY <1>1
<1>10. Keyed(rows)'
  BY <1>4, <1>8 DEF Keyed
<1>11. Branched(rows, nodes)'
  BY <1>5, <1>7 DEF Branched
<1>12. QED BY <1>5, <1>9, <1>10, <1>11 DEF CollInv

\* Every step of a collection keeps the invariant.
LEMMA CollInvStep == CollInv /\ [CollNext]_collVars => CollInv'
<1> SUFFICES ASSUME CollInv, [CollNext]_collVars PROVE CollInv'
  OBVIOUS
<1>1. ASSUME NEW batch \in Batches, NEW mode \in Modes, Mutate(batch, mode) PROVE CollInv'
  <2> DEFINE done == BatchLength(batch, mode)
             S == Steps(batch, mode)
             N == Noded(batch, mode)
  <2>1. /\ rows' = S[done] /\ backing' = backing
        /\ nodes' = IF backing = "memory" THEN N[done] ELSE nodes
    BY <1>1 DEF Mutate
  <2>2. Keyed(S[done]) /\ (backing = "memory" => Branched(S[done], N[done]))
    BY BatchKeeps
  <2> HIDE DEF done, S, N
  <2>3. Keyed(rows')
    BY <2>1, <2>2
  <2>4. backing = "memory" => Branched(rows', nodes')
    BY <2>1, <2>2
  <2>5. nodes' \in Seq(Values)
    BY <2>1, <2>4 DEF CollInv, Branched
  <2>6. QED BY <2>1, <2>3, <2>4, <2>5 DEF CollInv, Keyed, Branched
<1>2. ASSUME NEW k \in Values, Evict(k) PROVE CollInv'
  BY <1>2, EvictKeeps
<1>3. CASE UNCHANGED collVars
  BY <1>3 DEF collVars, CollInv, Keyed, Branched
<1>4. QED BY <1>1, <1>2, <1>3 DEF CollNext

\* So it holds of every behaviour.
LEMMA CollInvHolds == CollSpec => []CollInv
<1>1. QED BY CollInvInit, CollInvStep, PTL DEF CollSpec

-----------------------------------------------------------------------------
\* What every filter of the store has in common.
LEMMA FiltersAre ==
  ASSUME NEW f \in Filters
  PROVE  /\ f.logic \in Logics
         /\ ~f.named => f.opt = {}
         /\ \A c \in f.must \cup f.opt : c[2] \in {"exact", "within", "contains"}
<1> DEFINE Fine(o) == \A c \in o : c[2] \in {"exact", "within", "contains"}
<1>1. \A field, vs : /\ \A o \in Optional(field, "within", vs) : Fine(o)
                     /\ \A o \in Optional(field, "contains", vs) : Fine(o)
                     /\ \A o \in Optional(field, "exact", vs) : Fine(o)
  BY DEF Optional
<1>2. ASSUME NEW S, NEW U, \A o \in S : Fine(o), \A o \in U : Fine(o)
      PROVE  \A o \in Both(S, U) : Fine(o)
  BY <1>2 DEF Both
<1>3. \A o \in {{<<"k1", "exact", <<v>>>>} : v \in Values} : Fine(o)
  OBVIOUS
<1>4. Fine({})
  OBVIOUS
<1> HIDE DEF Fine
<1>5. CASE f \in QueryRollouts
  <2>1. PICK o \in Both(Optional("x", "within", Sets),
                Both(Optional("k1", "within", Sets), Optional("k1", "contains", Values))),
             l \in Logics :
             f = [must |-> {}, opt |-> o, named |-> o # {}, logic |-> l]
    BY <1>5 DEF QueryRollouts
  <2>2. Fine(o)
    BY <1>1, <1>2
  <2>3. QED BY <2>1, <2>2 DEF Fine
<1>6. CASE f \in QueryWorkers
  <2>1. PICK o \in Both(Optional("x", "within", Sets), Optional("k1", "contains", Values)),
             l \in Logics :
             f = [must |-> {}, opt |-> o, named |-> o # {}, logic |-> l]
    BY <1>6 DEF QueryWorkers
  <2>2. Fine(o)
    BY <1>1, <1>2
  <2>3. QED BY <2>1, <2>2 DEF Fine
<1>7. CASE f \in QueryAttempts
  BY <1>7 DEF QueryAttempts, Logics
<1>8. CASE f \in QueryResources
  <2>1. PICK o \in Both(Optional("k1", "exact", Values), Optional("k1", "contains", Values)) :
             f = [must |-> {}, opt |-> o, named |-> o # {}, logic |-> "and"]
    BY <1>8 DEF QueryResources
  <2>2. Fine(o)
    BY <1>1, <1>2
  <2>3. QED BY <2>1, <2>2 DEF Fine, Logics
<1>9. CASE f \in QuerySpans
  <2> DEFINE M == Both({{<<"k1", "exact", <<v>>>>} : v \in Values}, Optional("k2", "exact", Values))
             O == Both(Optional("x", "exact", Values),
                       Both(Optional("x", "contains", Values), Optional("k2", "exact", Values)))
  <2>1. PICK m \in M, o \in O, l \in Logics :
             f = [must |-> m, opt |-> o, named |-> TRUE, logic |-> l]
    <3>1. QuerySpans = {[must |-> m, opt |-> o, named |-> TRUE, logic |-> l] :
                          m \in M, o \in O, l \in Logics}
      BY DEF QuerySpans
    <3> HIDE DEF M, O
    <3>2. QED BY <1>9, <3>1
  <2>2. Fine(m) /\ Fine(o)
    <3>1. Fine(m)
      BY <1>1, <1>2, <1>3
    <3>2. Fine(o)
      BY <1>1, <1>2
    <3>3. QED BY <3>1, <3>2
  <2>3. QED BY <2>1, <2>2 DEF Fine
<1>10. QED BY <1>5, <1>6, <1>7, <1>8, <1>9 DEF Filters

\* An item that matches has the exact values of a key that the filter gives.
LEMMA ExactValuesHold ==
  ASSUME NEW f \in Filters, NEW i \in Matching(f), NEW k, ExactValues(f, k) # {}
  PROVE  ExactValues(f, k) = {i[k]}
<1> DEFINE about == {c \in Sources(f) : c[1] = k}
<1>1. /\ about # {} /\ \A c \in about : c[2] = "exact" /\ c[3] # <<>>
      /\ ExactValues(f, k) = {c[3][1] : c \in about}
  BY DEF ExactValues
<1>2. Matches(i, f)
  BY DEF Matching
<1>3. ASSUME NEW c \in about PROVE c[3][1] = i[k]
  <2>1. c[2] = "exact" /\ c[3] # <<>> /\ c[1] = k
    BY <1>1
  <2>2. HoldsFor(i, c, "memory")
    <3>1. CASE c \in f.must
      BY <1>2, <2>1, <3>1 DEF Matches, Given
    <3>2. CASE c \in f.opt /\ f.logic = "and"
      <4>1. f.named
        BY <3>2, FiltersAre
      <4>2. "and" # "or"
        OBVIOUS
      <4>3. \A d \in Given(f.opt) : HoldsFor(i, d, "memory")
        BY <1>2, <3>2, <4>1, <4>2 DEF Matches
      <4>4. QED BY <2>1, <3>2, <4>3 DEF Given
    <3>3. QED BY <3>1, <3>2 DEF Sources
  <2>3. QED BY <2>1, <2>2 DEF HoldsFor
<1> HIDE DEF about
<1>4. QED BY <1>1, <1>3

\* So it is under the prefix, if there is one.
LEMMA UnderPrefix ==
  ASSUME NEW f \in Filters, Prefix(f) # <<>>, NEW i \in Matching(f)
  PROVE  i \in Under(Prefix(f)) /\ ExactValues(f, "k1") = {i["k1"]}
<1>1. ExactValues(f, "k1") # {}
  BY DEF Prefix
<1>2. ExactValues(f, "k1") = {i["k1"]}
  BY <1>1, ExactValuesHold
<1>3. i \in Items
  BY DEF Matching
<1>4. KeyOf(i)[1] = i["k1"] /\ KeyOf(i)[2] = i["k2"]
  BY DEF KeyOf
<1>5. \A n \in DOMAIN Prefix(f) : Prefix(f)[n] = {KeyOf(i)[n]}
  <2>1. CASE ExactValues(f, "k2") = {} \/ Cardinality(ExactValues(f, "k1")) > 1
    <3>1. Prefix(f) = <<ExactValues(f, "k1")>>
      BY <1>1, <2>1 DEF Prefix
    <3>2. QED BY <1>2, <1>4, <3>1
  <2>2. CASE ~(ExactValues(f, "k2") = {} \/ Cardinality(ExactValues(f, "k1")) > 1)
    <3>1. Prefix(f) = <<ExactValues(f, "k1"), ExactValues(f, "k2")>>
      BY <1>1, <2>2 DEF Prefix
    <3>2. ExactValues(f, "k2") = {i["k2"]}
      BY <2>2, ExactValuesHold
    <3>3. QED BY <1>2, <1>4, <3>1, <3>2
  <2>3. QED BY <2>1, <2>2
<1>6. QED BY <1>2, <1>3, <1>5 DEF Under

-----------------------------------------------------------------------------
\* The branches in the order in which a scan comes to them.
BranchAt(n) == nodes[Len(nodes) + 1 - n]
InBranch(n) == {i \in Items : i["k1"] = BranchAt(n)}
Scanned == [n \in DOMAIN nodes |-> Those(rows, InBranch(n))]

\* Scan puts them together.
LEMMA ScanIs ==
  ASSUME CollInv, backing = "memory"
  PROVE  /\ Scan = FlattenSeq(Scanned)
         /\ Scanned \in Seq(Seq(Items)) /\ Len(nodes) \in Nat /\ Len(Scanned) = Len(nodes)
         /\ \A n \in 1 .. Len(nodes) : Scanned[n] = Those(rows, InBranch(n))
<1>1. /\ Len(nodes) \in Nat /\ DOMAIN nodes = 1 .. Len(nodes) /\ rows \in Seq(Items)
  BY DEF CollInv, Keyed
<1>2. Scan = FlattenSeq(Scanned)
  BY DEF Scan, Scanned, InBranch, BranchAt
<1> DEFINE piece(n) == Those(rows, InBranch(n))
<1>3. \A n \in 1 .. Len(nodes) : piece(n) \in Seq(Items)
  BY <1>1, ThoseHold
<1>4. Scanned = [n \in 1 .. Len(nodes) |-> piece(n)]
  BY <1>1 DEF Scanned
<1> HIDE DEF piece
<1>5. /\ Scanned \in Seq(Seq(Items)) /\ Len(Scanned) = Len(nodes)
      /\ \A n \in 1 .. Len(nodes) : Scanned[n] = piece(n)
  BY ONLY <1>1, <1>3, <1>4
<1>6. QED BY <1>1, <1>2, <1>5 DEF piece

\* Every key has a place in the scan, and no two places have the same.
LEMMA BranchPlaces ==
  ASSUME CollInv, backing = "memory"
  PROVE  /\ \A m, n \in 1 .. Len(nodes) : BranchAt(m) = BranchAt(n) => m = n
         /\ \A i \in ToSet(rows) : \E n \in 1 .. Len(nodes) : i["k1"] = BranchAt(n)
<1> DEFINE L == Len(nodes)
<1>1. /\ L \in Nat /\ DOMAIN nodes = 1 .. L
      /\ \A m, n \in 1 .. L : nodes[m] = nodes[n] => m = n
      /\ \A i \in ToSet(rows) : i["k1"] \in ToSet(nodes)
  BY DEF CollInv, Branched, IsInjective
<1> HIDE DEF L
<1>2. \A n \in 1 .. L : L + 1 - n \in 1 .. L /\ L + 1 - (L + 1 - n) = n
  BY <1>1
<1>3. ASSUME NEW m \in 1 .. L, NEW n \in 1 .. L, BranchAt(m) = BranchAt(n) PROVE m = n
  <2>1. L + 1 - m = L + 1 - n
    <3>1. nodes[L + 1 - m] = nodes[L + 1 - n]
      BY <1>3 DEF BranchAt, L
    <3>2. QED BY <1>1, <1>2, <3>1
  <2>2. QED BY <1>1, <2>1
<1>4. ASSUME NEW i \in ToSet(rows) PROVE \E n \in 1 .. L : i["k1"] = BranchAt(n)
  <2>1. PICK m \in 1 .. L : i["k1"] = nodes[m]
    BY <1>1 DEF ToSet
  <2>2. L + 1 - m \in 1 .. L /\ L + 1 - (L + 1 - m) = m
    BY <1>2
  <2>3. BranchAt(L + 1 - m) = nodes[m]
    BY <2>2 DEF BranchAt, L
  <2>4. QED BY <2>1, <2>2, <2>3
<1>5. QED BY <1>3, <1>4 DEF L

\* A scan of everything comes to every item, once.
LEMMA ScanHolds ==
  ASSUME CollInv, backing = "memory"
  PROVE  Scan \in Seq(Items) /\ ToSet(Scan) = ToSet(rows) /\ IsInjective(Scan)
<1>1. /\ Scan = FlattenSeq(Scanned)
      /\ Scanned \in Seq(Seq(Items)) /\ Len(nodes) \in Nat /\ Len(Scanned) = Len(nodes)
      /\ \A n \in 1 .. Len(nodes) : Scanned[n] = Those(rows, InBranch(n))
  BY ScanIs
<1>2. Scan \in Seq(Items)
  BY <1>1, FlattenType
<1>3. rows \in Seq(Items) /\ IsInjective(rows) /\ ToSet(rows) \subseteq Items
  BY DEF CollInv, Keyed, ToSet
<1>4. \A n \in 1 .. Len(nodes) :
        ToSet(Scanned[n]) = ToSet(rows) \cap InBranch(n) /\ IsInjective(Scanned[n])
  BY <1>1, <1>3, ThoseHold
<1>5. \A x : x \in ToSet(Scan) <=> \E n \in 1 .. Len(Scanned) : x \in ToSet(Scanned[n])
  BY <1>1, FlattenHolds
<1>6. ToSet(Scan) = ToSet(rows)
  <2>1. ASSUME NEW i \in ToSet(rows) PROVE i \in ToSet(Scan)
    <3>1. PICK n \in 1 .. Len(nodes) : i["k1"] = BranchAt(n)
      BY BranchPlaces
    <3>2. i \in InBranch(n)
      BY <1>3, <3>1 DEF InBranch
    <3>3. QED BY <1>1, <1>4, <1>5, <3>2
  <2>2. ToSet(Scan) \subseteq ToSet(rows)
    BY <1>1, <1>4, <1>5
  <2>3. QED BY <2>1, <2>2
<1>7. Disjoint(Scanned)
  <2>1. ASSUME NEW m \in 1 .. Len(nodes), NEW n \in 1 .. Len(nodes), m # n
        PROVE  ToSet(Scanned[m]) \cap ToSet(Scanned[n]) = {}
    <3>1. BranchAt(m) # BranchAt(n)
      BY <2>1, BranchPlaces
    <3>2. InBranch(m) \cap InBranch(n) = {}
      BY <3>1 DEF InBranch
    <3>3. QED BY <1>4, <3>2
  <2>2. QED BY <1>1, <1>4, <2>1 DEF Disjoint
<1>8. IsInjective(Scan)
  BY <1>1, <1>7, FlattenHolds
<1>9. QED BY <1>2, <1>6, <1>8

\* Items that agree in their first key come in the same order in a scan and in a branch.
LEMMA ScanOfOne ==
  ASSUME CollInv, backing = "memory", NEW M, NEW v, \A i \in M : i["k1"] = v
  PROVE  Those(Scan, M) = Those(rows, M)
<1> DEFINE SS == Sifted(Scanned, M)
           L == Len(nodes)
<1>1. /\ Scan = FlattenSeq(Scanned)
      /\ Scanned \in Seq(Seq(Items)) /\ L \in Nat /\ Len(Scanned) = L
      /\ \A n \in 1 .. L : Scanned[n] = Those(rows, InBranch(n))
  BY ScanIs
<1>2. rows \in Seq(Items) /\ ToSet(rows) \subseteq Items
  BY DEF CollInv, Keyed, ToSet
<1>3. Those(Scan, M) = FlattenSeq(SS)
  BY <1>1, ThoseFlatten
<1>4. SS \in Seq(Seq(Items)) /\ Len(SS) = L /\ \A n \in 1 .. L : SS[n] = Those(Scanned[n], M)
  BY <1>1, SiftedType
<1>5. \A n \in 1 .. L : SS[n] = Those(rows, InBranch(n) \cap M)
  <2>1. \A B : Those(Those(rows, B), M) = Those(rows, B \cap M)
    BY <1>2, ThoseTwice
  <2> HIDE DEF SS, L
  <2>2. QED BY ONLY <1>1, <1>4, <2>1
<1> HIDE DEF SS, L
<1>6. ASSUME NEW n \in 1 .. L, BranchAt(n) # v PROVE SS[n] = <<>>
  <2>1. ToSet(rows) \cap (InBranch(n) \cap M) = {}
    BY <1>6 DEF InBranch
  <2>2. Those(rows, InBranch(n) \cap M) = <<>>
    BY <1>2, <2>1, ThoseNone
  <2>3. QED BY <1>5, <2>2
<1>7. CASE ToSet(rows) \cap M = {}
  <2>1. ASSUME NEW n \in 1 .. L PROVE SS[n] = <<>>
    <3>1. ToSet(rows) \cap (InBranch(n) \cap M) = {}
      BY <1>7
    <3>2. Those(rows, InBranch(n) \cap M) = <<>>
      BY <1>2, <3>1, ThoseNone
    <3>3. QED BY <1>5, <3>2
  <2>2. FlattenSeq(SS) = <<>>
    BY <1>4, <2>1, FlattenLone
  <2>3. Those(rows, M) = <<>>
    BY <1>2, <1>7, ThoseNone
  <2>4. QED BY <1>3, <2>2, <2>3
<1>8. CASE ToSet(rows) \cap M # {}
  <2>1. PICK n \in 1 .. L : BranchAt(n) = v
    BY <1>8, BranchPlaces DEF L
  <2>2. \A m \in 1 .. L : m # n => BranchAt(m) # v
    BY <2>1, BranchPlaces DEF L
  <2>3. \A m \in 1 .. Len(SS) : m # n => SS[m] = <<>>
    BY <1>4, <1>6, <2>2
  <2>4. FlattenSeq(SS) = SS[n]
    BY <1>4, <2>3, FlattenLone
  <2>5. \A x \in ToSet(rows) : x \in InBranch(n) \cap M <=> x \in M
    BY <1>2, <2>1 DEF InBranch
  <2>6. Those(rows, InBranch(n) \cap M) = Those(rows, M)
    BY <2>5, ThoseSame
  <2>7. QED BY <1>3, <1>5, <2>4, <2>6
<1>9. QED BY <1>7, <1>8

\* Walking a branch is as good as a scan.
LEMMA WalkIs ==
  ASSUME CollInv, backing = "memory", NEW f \in Filters
  PROVE  Walk(f) = Those(Scan, Matching(f))
<1>1. CASE Prefix(f) = <<>>
  BY <1>1 DEF Walk
<1>2. CASE Prefix(f) # <<>>
  <2>1. Under(Prefix(f)) \cap Matching(f) = Matching(f)
    BY <1>2, UnderPrefix
  <2>2. Walk(f) = Those(rows, Matching(f))
    BY <1>2, <2>1 DEF Walk
  <2>3. \E v : \A i \in Matching(f) : i["k1"] = v
    <3>1. CASE Matching(f) = {}
      BY <3>1
    <3>2. CASE Matching(f) # {}
      <4>1. PICK j \in Matching(f) : TRUE
        BY <3>2
      <4>2. ExactValues(f, "k1") = {j["k1"]}
        BY <1>2, UnderPrefix
      <4>3. \A i \in Matching(f) : {i["k1"]} = {j["k1"]}
        BY <1>2, <4>2, UnderPrefix
      <4>4. \A i \in Matching(f) : i["k1"] = j["k1"]
        BY <4>3
      <4>5. QED BY <4>4
    <3>3. QED BY <3>1, <3>2
  <2>4. PICK v : \A i \in Matching(f) : i["k1"] = v
    BY <2>3
  <2>5. Those(Scan, Matching(f)) = Those(rows, Matching(f))
    BY <2>4, ScanOfOne
  <2>6. QED BY <2>2, <2>5
<1>3. QED BY <1>1, <1>2

\* What a query finds before it is cut into pages.
Found(f) == IF backing = "memory" THEN Walk(f) ELSE Those(rows, MongoMatching(f))
Wanted(f) == IF backing = "memory" THEN Matching(f) ELSE MongoMatching(f)

\* It is what is wanted of the items stored, once.
LEMMA FoundIs ==
  ASSUME CollInv, NEW f \in Filters
  PROVE  /\ Found(f) \in Seq(Items)
         /\ ToSet(Found(f)) = ToSet(rows) \cap Wanted(f)
         /\ IsInjective(Found(f))
<1>1. CASE backing = "memory"
  <2>1. Found(f) = Those(Scan, Matching(f)) /\ Wanted(f) = Matching(f)
    BY <1>1, WalkIs DEF Found, Wanted
  <2>2. Scan \in Seq(Items) /\ ToSet(Scan) = ToSet(rows) /\ IsInjective(Scan)
    BY <1>1, ScanHolds
  <2>3. QED BY <2>1, <2>2, ThoseHold
<1>2. CASE backing # "memory"
  <2>1. Found(f) = Those(rows, MongoMatching(f)) /\ Wanted(f) = MongoMatching(f)
    BY <1>2 DEF Found, Wanted
  <2>2. rows \in Seq(Items) /\ IsInjective(rows)
    BY DEF CollInv, Keyed
  <2>3. QED BY <2>1, <2>2, ThoseHold
<1>3. QED BY <1>1, <1>2

\* The whole of what is found is on the page without a limit, and on two pages.
LEMMA PagesAre ==
  ASSUME NEW T, NEW found \in Seq(T)
  PROVE  /\ Page(found, -1, 0).items = found
         /\ Page(found, 1, 0).items \o Page(found, -1, 1).items = found
         /\ \A limit, offset : Page(found, limit, offset).total = Len(found)
<1> DEFINE L == Len(found)
<1>1. L \in Nat
  OBVIOUS
<1>2. Page(found, -1, 0).items = SubSeq(found, 1, L)
  BY DEF Page
<1>3. SubSeq(found, 1, L) = found
  OBVIOUS
<1>4. Page(found, -1, 1).items = SubSeq(found, 2, L)
  BY DEF Page
<1>5. Page(found, 1, 0).items = SubSeq(found, 1, IF 1 > L THEN L ELSE 1)
  <2>1. 1 # -1 /\ 0 + 1 = 1
    OBVIOUS
  <2>2. QED BY <2>1 DEF Page
<1>6. Page(found, 1, 0).items \o Page(found, -1, 1).items = found
  <2>1. CASE L = 0
    <3>1. found = <<>> /\ SubSeq(found, 1, 0) = <<>> /\ SubSeq(found, 2, 0) = <<>>
      BY <2>1
    <3>2. (IF 1 > L THEN L ELSE 1) = 0 /\ L = 0
      BY <2>1
    <3>3. /\ Page(found, 1, 0).items = SubSeq(found, 1, 0)
          /\ Page(found, -1, 1).items = SubSeq(found, 2, 0)
      BY ONLY <1>4, <1>5, <3>2
    <3>4. <<>> \o <<>> = <<>>
      OBVIOUS
    <3>5. QED BY ONLY <3>1, <3>3, <3>4
  <2>2. CASE L # 0
    <3>1. ~(1 > L)
      BY <1>1, <2>2
    <3>2. SubSeq(found, 1, 1) \o SubSeq(found, 2, L) = SubSeq(found, 1, L)
      <4>1. 1 \in 1 .. Len(found) + 1 /\ 1 \in 1 - 1 .. Len(found) /\ L \in 1 .. Len(found)
        BY <1>1, <3>1
      <4>2. SubSeq(found, 1, 1) \o SubSeq(found, 1 + 1, L) = SubSeq(found, 1, L)
        BY <4>1, ConcatAdjacentSubSeq
      <4>3. QED BY <4>2
    <3>3. QED BY <1>3, <1>4, <1>5, <3>1, <3>2
  <2>3. QED BY <2>1, <2>2
<1>7. \A limit, offset : Page(found, limit, offset).total = L
  BY DEF Page
<1>8. QED BY <1>2, <1>3, <1>6, <1>7

\* The filters mean the same to both but for the case of letters and for no alternatives.
LEMMA BackendsDo == BackendsAgree
<1> SUFFICES ASSUME NEW f \in Filters,
                    f.logic = "or" /\ f.named => Given(f.opt) # {},
                    \A c \in f.must \cup f.opt : c[2] # "contains"
             PROVE  Matching(f) = MongoMatching(f)
  BY DEF BackendsAgree
<1>1. f.logic \in Logics /\ (~f.named => f.opt = {})
  BY FiltersAre
<1>2. ASSUME NEW i \in Items, NEW c \in f.must \cup f.opt
      PROVE  HoldsFor(i, c, "memory") <=> HoldsFor(i, c, "mongo")
  <2>1. c[2] \in {"exact", "within"}
    BY FiltersAre
  <2>2. QED BY <2>1 DEF HoldsFor
<1>3. Given(f.must) \subseteq f.must /\ Given(f.opt) \subseteq f.opt
  BY DEF Given
<1>4. ASSUME NEW i \in Items PROVE Matches(i, f) <=> MongoMatches(i, f)
  <2>1. (\A c \in Given(f.must) : HoldsFor(i, c, "memory"))
          <=> \A c \in Given(f.must) : HoldsFor(i, c, "mongo")
    BY <1>2, <1>3
  <2>2. (\A c \in Given(f.opt) : HoldsFor(i, c, "memory"))
          <=> \A c \in Given(f.opt) : HoldsFor(i, c, "mongo")
    BY <1>2, <1>3
  <2>3. (\E c \in Given(f.opt) : HoldsFor(i, c, "memory"))
          <=> \E c \in Given(f.opt) : HoldsFor(i, c, "mongo")
    BY <1>2, <1>3
  <2>4. ~f.named => Given(f.opt) = {}
    BY <1>1, <1>3
  <2>5. f.logic = "and" \/ f.logic = "or"
    BY <1>1 DEF Logics
  <2>6. QED BY <2>1, <2>2, <2>3, <2>4, <2>5 DEF Matches, MongoMatches
<1>5. QED BY <1>4 DEF Matching, MongoMatching

\* A query finds every stored item that its filter matches, once, whether it walks a
\* branch, scans a dict or asks MongoDB, and its pages add up to what it finds.
THEOREM QueriesFindEverything == CollSpec => []QueriesAreComplete
<1>1. ASSUME CollInv PROVE QueriesAreComplete
  <2>1. BranchIsEnough
    BY <1>1, WalkIs DEF BranchIsEnough
  <2>2. \A f \in Filters : \A limit, offset : Query(f, limit, offset) = Page(Found(f), limit, offset)
    BY DEF Query, Found
  <2>3. ASSUME NEW f \in Filters
        PROVE  /\ Query(f, -1, 0).items = Found(f)
               /\ Query(f, 1, 0).items \o Query(f, -1, 1).items = Found(f)
               /\ Query(f, -1, 0).total = Len(Found(f)) /\ Query(f, 1, 1).total = Len(Found(f))
    <3>1. PICK found : found = Found(f)
      OBVIOUS
    <3>2. found \in Seq(Items)
      BY <1>1, <3>1, FoundIs
    <3>3. /\ Page(found, -1, 0).items = found
          /\ Page(found, 1, 0).items \o Page(found, -1, 1).items = found
          /\ Page(found, -1, 0).total = Len(found) /\ Page(found, 1, 1).total = Len(found)
      BY <3>2, PagesAre
    <3>4. /\ Query(f, -1, 0) = Page(found, -1, 0) /\ Query(f, 1, 0) = Page(found, 1, 0)
          /\ Query(f, -1, 1) = Page(found, -1, 1) /\ Query(f, 1, 1) = Page(found, 1, 1)
      BY <2>2, <3>1
    <3>5. QED BY ONLY <3>1, <3>3, <3>4
  <2>4. FoundOnce
    <3>1. ASSUME NEW f \in Filters
          PROVE  ToSet(Found(f)) = ToSet(rows) \cap Wanted(f) /\ IsInjective(Found(f))
      BY <1>1, FoundIs
    <3>2. QED BY <2>3, <3>1 DEF FoundOnce, Wanted
  <2>5. PagesAreTheWhole
    BY <2>3 DEF PagesAreTheWhole
  <2>6. QED BY <2>1, <2>4, <2>5, BackendsDo DEF QueriesAreComplete
<1>2. QED BY <1>1, CollInvHolds, PTL
===============================================================================
