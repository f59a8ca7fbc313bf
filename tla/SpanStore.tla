----------------------------- MODULE SpanStore -----------------------------
(***************************************************************************)
(* The data plane of the store: the spans of the rollouts, the counters    *)
(* their sequence ids come from (CollectionBasedLightningStore) and the    *)
(* memory that InMemoryLightningStore lets them have (store/memory.py).    *)
(*                                                                         *)
(* Each operation is one critical section of the store.  A call that finds *)
(* no attempt to put a span on raises, but keeps what it wrote before: the *)
(* in-memory collections undo nothing.  What a span does to the status of  *)
(* its attempt and rollout is AddSpan of LightningStore.                   *)
(***************************************************************************)
EXTENDS Naturals, Sequences, FiniteSets, SequencesExt, FiniteSetsExt

CONSTANTS
  Rollouts,           \* the rollouts there are
  Spans,              \* (attempt_id, span_id), the rest of a span's primary key
  ByStartTime,        \* the rollouts by start_time
  SizeOf,             \* [Spans -> bytes of the span]
  EvictionThreshold,
  SafeThreshold,
  SequenceBound       \* bound: sequence ids per rollout

ASSUME SpanAssumption ==
  /\ ByStartTime \in Seq(Rollouts)
  /\ ToSet(ByStartTime) = Rollouts /\ IsInjective(ByStartTime)
  /\ SizeOf \in [Spans -> Nat]
  /\ SafeThreshold \in Nat /\ EvictionThreshold \in Nat
  /\ SafeThreshold < EvictionThreshold
  /\ SequenceBound \in Nat

VARIABLES
  counter,   \* span_sequence_ids: [Rollouts -> last sequence id issued or seen]
  spans,     \* [Rollouts -> the spans stored]
  bytes,     \* _span_bytes_by_rollout
  total,     \* _total_span_bytes
  evicted,   \* _evicted_rollout_span_sets
  issued,    \* history: [Rollouts -> sequence ids issued, in order]
  highest,   \* history: [Rollouts -> highest sequence id issued or brought by a span]
  accepted   \* history: [Rollouts -> spans ever taken in]

svars == <<counter, spans, bytes, total, evicted, issued, highest, accepted>>

Init ==
  /\ counter  = [r \in Rollouts |-> 0]
  /\ spans    = [r \in Rollouts |-> {}]
  /\ bytes    = [r \in Rollouts |-> 0]
  /\ total    = 0
  /\ evicted  = {}
  /\ issued   = [r \in Rollouts |-> <<>>]
  /\ highest  = [r \in Rollouts |-> 0]
  /\ accepted = [r \in Rollouts |-> {}]

-----------------------------------------------------------------------------
\* Sequence ids.

Raised(f, r, n) == [f EXCEPT ![r] = IF n > @ THEN n ELSE @]

\* Operators named Mutant... are plausible bugs of the operator that follows them.

\* _issue_span_sequence_id_unlocked.
IssueSpanSequenceId(r) ==
  /\ counter[r] < SequenceBound
  /\ counter' = [counter EXCEPT ![r] = @ + 1]
  /\ issued'  = [issued EXCEPT ![r] = Append(@, counter[r] + 1)]
  /\ highest' = Raised(highest, r, counter[r] + 1)

\* The id of the span at hand is taken for the latest.
MutantSyncToLast(r, n) ==
  /\ counter' = [counter EXCEPT ![r] = n]
  /\ highest' = Raised(highest, r, n)
  /\ UNCHANGED issued

\* _sync_span_sequence_id_unlocked, with the id that came with a span.
SyncSpanSequenceId(r, n) ==
  /\ counter' = Raised(counter, r, n)
  /\ highest' = Raised(highest, r, n)
  /\ UNCHANGED issued

-----------------------------------------------------------------------------
\* Memory.

BytesOf(b, R) == MapThenSumSet(LAMBDA r : b[r], R)

\* The k oldest rollouts.
Oldest(k) == {ByStartTime[i] : i \in 1 .. k}

\* Only the oldest rollout is evicted, whether or not that is enough.
MutantEvictOne(b, tot) ==
  IF tot <= EvictionThreshold THEN {} ELSE Oldest(1)

\* The newest rollouts go first.
MutantEvictNewest(b, tot) ==
  LET N == Len(ByStartTime)
      Newest(k) == Rollouts \ Oldest(N - k)
      Reached(i) == \A k \in 0 .. N - i : tot - BytesOf(b, Newest(k)) > SafeThreshold IN
  IF tot <= EvictionThreshold THEN {}
  ELSE {ByStartTime[i] : i \in {j \in DOMAIN ByStartTime : Reached(j)}}

\* The rollouts that _maybe_evict_spans evicts, given the bytes on its books: it
\* goes from the oldest on and looks before each one whether total has come down
\* to SafeThreshold.
Evictable(b, tot) ==
  LET Reached(i) == \A k \in 0 .. i - 1 : tot - BytesOf(b, Oldest(k)) > SafeThreshold IN
  IF tot <= EvictionThreshold THEN {}
  ELSE {ByStartTime[i] : i \in {j \in DOMAIN ByStartTime : Reached(j)}}

\* Only a rollout with a single span is marked.
MutantForgetMark(b, tot, E) ==
  /\ bytes'   = [r \in Rollouts |-> IF r \in E THEN 0 ELSE b[r]]
  /\ total'   = tot - BytesOf(b, E)
  /\ evicted' = evicted \cup {r \in E : Cardinality(spans[r]) = 1}

\* _evict_spans_for_rollout for each of E.  A rollout with nothing to free is not
\* marked.
EvictSpans(b, tot, E) ==
  /\ bytes'   = [r \in Rollouts |-> IF r \in E THEN 0 ELSE b[r]]
  /\ total'   = tot - BytesOf(b, E)
  /\ evicted' = evicted \cup {r \in E : b[r] > 0}

\* _add_span_unlocked of the in-memory store: a span the store holds already is
\* not stored again, yet its bytes are accounted again.
StoreSpan(r, s) ==
  LET b   == [bytes EXCEPT ![r] = @ + SizeOf[s]]
      tot == total + SizeOf[s]
      E   == Evictable(b, tot) IN
  /\ EvictSpans(b, tot, E)
  /\ spans'    = [q \in Rollouts |-> IF q \in E THEN {}
                                     ELSE IF q = r THEN spans[r] \cup {s} ELSE spans[q]]
  /\ accepted' = [accepted EXCEPT ![r] = @ \cup {s}]

\* The attempt is not found: ValueError, after the counter has moved.
Reject == UNCHANGED <<spans, bytes, total, evicted, accepted>>

Take(r, s) == StoreSpan(r, s) \/ Reject

-----------------------------------------------------------------------------
\* Operations.

GetNextSpanSequenceId(r) ==
  /\ IssueSpanSequenceId(r)
  /\ UNCHANGED <<spans, bytes, total, evicted, accepted>>

\* add_span, and add_otel_span with a sequence_id: n was issued earlier or made up
\* by the caller, and spans arrive in any order and more than once.
AddSpan(r, s, n) == SyncSpanSequenceId(r, n) /\ Take(r, s)

\* add_otel_span without a sequence_id.
AddOtelSpan(r, s) == IssueSpanSequenceId(r) /\ Take(r, s)

Next ==
  \E r \in Rollouts :
    \/ GetNextSpanSequenceId(r)
    \/ \E s \in Spans :
         \/ \E n \in 1 .. SequenceBound : AddSpan(r, s, n)
         \/ AddOtelSpan(r, s)

Spec == Init /\ [][Next]_svars

-----------------------------------------------------------------------------
\* "The store will not issue the same sequence ID twice" (get_next_span_sequence_id),
\* nor one that is not above every id it has seen on a span of the rollout by then,
\* in whatever order spans arrive and whether or not their calls succeed.
SequenceIdsAreFresh ==
  [][\A r \in Rollouts : issued'[r] # issued[r] => Last(issued'[r]) > highest[r]]_svars

\* No call leaves spans of more than EvictionThreshold bytes in memory, those
\* sent twice and those of rollouts evicted before included.
StoredBytes == BytesOf([r \in Rollouts |-> BytesOf(SizeOf, spans[r])], Rollouts)

MemoryIsBounded == StoredBytes <= EvictionThreshold

\* query_spans raises for the rollouts marked evicted and answers for the others:
\* an answer leaves out no span that the store ever took in (unless a custom
\* span_size_estimator finds that spans weigh nothing).
AnswersAreComplete ==
  (\A s \in Spans : SizeOf[s] > 0) => \A r \in Rollouts \ evicted : spans[r] = accepted[r]

\* A rollout loses spans only in a step that leaves no spans to any older one.
OldestGoFirst ==
  [][\A i, j \in DOMAIN ByStartTime :
       LET old == ByStartTime[i]  young == ByStartTime[j] IN
       i < j /\ ~(spans[young] \subseteq spans'[young]) => spans'[old] = {}]_svars
=============================================================================
