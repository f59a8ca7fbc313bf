------------------------------ MODULE TraceTree ------------------------------
(***************************************************************************)
(* The adapters of adapter/triplet.py.  TracerTraceToTriplet: the spans of   *)
(* an attempt become a tree, calls that float under the root are moved below *)
(* the span that encloses them, and the tree becomes the triplets that a     *)
(* trainer learns from.  LlmProxyTraceToTriplet: triplets come from the      *)
(* sequence ids alone.  One behaviour is one call of adapt.                  *)
(***************************************************************************)
EXTENDS Integers, Sequences, SequencesExt, FiniteSets, FiniteSetsExt, Selections

CONSTANTS
  Traces,     \* the traces considered: sequences of spans
  None,       \* no parent, no response id, no reward
  Lost,       \* the id of a span that never reached the store
  Root        \* the id of the virtual root

SpanRecords ==
  [seq : Nat, parent : {None, Lost} \cup Nat, start : Int, end : Int,
   kind : {"call", "reward", "plain"}, response : {None} \cup STRING]

\* Parents come before their children: no span is below itself.
ParentsFirst(t) ==
  \E rank \in [DOMAIN t -> DOMAIN t] :
    \A i \in DOMAIN t : t[i].parent \in DOMAIN t => rank[t[i].parent] < rank[i]

\* The spans are in the order of their sequence ids: the store returns them so, and the
\* proxy's adapter sorts them.
IsTrace(t) ==
  /\ t \in Seq(SpanRecords) /\ t # <<>>
  /\ \A i \in DOMAIN t : t[i].parent \in DOMAIN t \cup {None, Lost}
  /\ \A i, j \in DOMAIN t : i <= j => t[i].seq <= t[j].seq
  /\ ParentsFirst(t)

ASSUME TracesAssumption == \A t \in Traces : IsTrace(t)

ASSUME NamesAssumption ==
  {None, Lost, Root} \cap Nat = {} /\ None # Lost /\ None # Root /\ Lost # Root

VARIABLES
  trace,      \* the spans, in the order of their sequence ids
  policy,     \* reward_match; by_sequence stands for LlmProxyTraceToTriplet
  exclude,    \* exclude_llm_call_in_reward, which the other adapter does not have
  stage,
  tree,       \* [node -> the sequence of its children]
  triplets    \* a sequence of [call, reward]

traceVars == <<trace, policy, exclude, stage, tree, triplets>>

Spans == DOMAIN trace
Nodes == Spans \cup {Lost, Root}

TraceInit ==
  /\ trace \in Traces
  /\ policy \in {"first_occurrence", "first_sibling", "by_sequence"}
  /\ exclude \in BOOLEAN
  /\ policy = "by_sequence" => ~exclude
  /\ stage = "spans"
  /\ tree = [n \in Nodes |-> <<>>]
  /\ triplets = <<>>

-----------------------------------------------------------------------------
(* from_spans                                                              *)

Ids == [i \in Spans |-> i]

ChildrenOf(parent) == Those(Ids, {i \in Spans : trace[i].parent = parent})

Roots == ChildrenOf(None) \o (IF ChildrenOf(Lost) = <<>> THEN <<>> ELSE <<Lost>>)

Top == IF Len(Roots) > 1 THEN Root ELSE Roots[1]

FromSpans ==
  /\ stage = "spans"
  /\ policy # "by_sequence"
  /\ tree' = [n \in Nodes |->
       IF n # Root THEN ChildrenOf(n) ELSE IF Top = Root THEN Roots ELSE <<>>]
  /\ stage' = "tree"
  /\ UNCHANGED <<trace, policy, exclude, triplets>>

\* A lost span is taken to span its children.
Start(n) ==
  IF n = Lost THEN Min({trace[i].start : i \in ToSet(ChildrenOf(Lost))}) ELSE trace[n].start
End(n) ==
  IF n = Lost THEN Max({trace[i].end : i \in ToSet(ChildrenOf(Lost))}) ELSE trace[n].end

-----------------------------------------------------------------------------
(* repair_hierarchy                                                        *)

Depth == Cardinality(Nodes)

\* For every node the nodes from it down, by the number of levels looked at.
Down(t) ==
  LET below[d \in 0 .. Depth] ==
        IF d = 0 THEN [n \in Nodes |-> <<>>]
        ELSE [n \in Nodes |->
                <<n>> \o FlattenSeq([k \in DOMAIN t[n] |-> below[d - 1][t[n][k]]])]
  IN below

Traverse(t, n) == Down(t)[Depth][n]

\* The first node from n down that has not exactly one child.
Fork(t, n) ==
  LET at[d \in 0 .. Depth] ==
        IF d = 0 THEN n
        ELSE LET m == at[d - 1] IN IF Len(t[m]) = 1 THEN t[m][1] ELSE m
  IN at[Depth]

Slack(n, m) == (End(n) - End(m)) + (Start(m) - Start(n))

\* A span that covers exactly the same time is a parent, too.  (A plausible bug of
\* Encloses.)
MutantSameTime(n, m) == Start(n) <= Start(m) /\ End(n) >= End(m)

Encloses(n, m) == Start(n) <= Start(m) /\ End(n) >= End(m) /\ Slack(n, m) > 0

\* m goes below the tightest of the spans that enclose it, the first one of several.
Adopted(t, top, m) ==
  LET order == Traverse(t, top)
      able == {k \in DOMAIN order : order[k] \notin {m, top} /\ Encloses(order[k], m)}
      slack(k) == Slack(order[k], m)
      closest == CHOOSE k \in able :
        \A j \in able : slack(k) < slack(j) \/ (slack(k) = slack(j) /\ k <= j)
  IN IF Len(t[top]) = 1 \/ able = {} THEN t
     ELSE LET left == [t EXCEPT ![top] = Those(@, Nodes \ {m})]
          IN [left EXCEPT ![order[closest]] = Append(@, m)]

\* One child after the other, as they were at first.
Repaired(t, top) ==
  LET after[k \in 0 .. Len(t[top])] ==
        IF k = 0 THEN t ELSE Adopted(after[k - 1], top, t[top][k])
  IN after[Len(t[top])]

RepairHierarchy ==
  /\ stage = "tree"
  /\ tree' = Repaired(tree, Fork(tree, Top))
  /\ stage' = "repaired"
  /\ UNCHANGED <<trace, policy, exclude, triplets>>

-----------------------------------------------------------------------------
(* to_trajectory                                                           *)

Kind(n) == IF n \in Spans THEN trace[n].kind ELSE "plain"

Response(n) == IF n \in Spans THEN trace[n].response ELSE None
Responses == {Response(n) : n \in Nodes}

\* A call of find_llm_calls: "seen" is the set of response ids that the callers share.
Visits == [node : Nodes, inReward : BOOLEAN, inCall : BOOLEAN, seen : SUBSET Responses]

IsCall(v) ==
  /\ Kind(v.node) = "call"
  /\ ~v.inReward
  /\ Response(v.node) = None => ~v.inCall
  /\ Response(v.node) \notin v.seen

\* What the node itself adds, and the visits of its children, which see what those before
\* them have seen.
Itself(v) ==
  [calls |-> IF IsCall(v) THEN <<v.node>> ELSE <<>>,
   seen  |-> v.seen \cup (IF IsCall(v) THEN {Response(v.node)} \ {None} ELSE {})]

Child(v, k, seen) ==
  [node |-> tree[v.node][k], seen |-> seen, inCall |-> v.inCall \/ IsCall(v),
   inReward |-> v.inReward \/ (exclude /\ Kind(v.node) = "reward")]

\* An empty set is replaced by a new one, which the callers never get to see.
Found(v, below) ==
  LET got[k \in 0 .. Len(tree[v.node])] ==
        IF k = 0 THEN Itself(v)
        ELSE LET before == got[k - 1]
                 more == below[Child(v, k, before.seen)]
             IN [calls |-> before.calls \o more.calls, seen |-> more.seen]
      all == got[Len(tree[v.node])]
  IN [calls |-> all.calls, seen |-> IF v.seen = {} THEN {} ELSE all.seen]

FindCalls ==
  LET find[d \in 0 .. Depth] ==
        IF d = 0 THEN [v \in Visits |-> [calls |-> <<>>, seen |-> v.seen]]
        ELSE LET below == find[d - 1] IN [v \in Visits |-> Found(v, below)]
  IN find

Calls ==
  FindCalls[Depth][[node |-> Top, inReward |-> FALSE, inCall |-> FALSE, seen |-> {}]].calls

\* The nodes in the order in which they started, those of the tree before for equal times.
ByTime ==
  LET order == Those(Traverse(tree, Top), Nodes \ {Root})
      before(j, k) == \/ Start(order[j]) < Start(order[k])
                      \/ Start(order[j]) = Start(order[k]) /\ j < k
      rank(k) == Cardinality({j \in DOMAIN order : before(j, k)}) + 1
  IN [r \in DOMAIN order |-> order[CHOOSE k \in DOMAIN order : rank(k) = r]]

\* The last of the calls gets the reward or nobody does.  (A plausible bug of Receiver.)
MutantOnlyTheLast(given, earlier, reward) ==
  LET last == Last(earlier) IN
  IF earlier = <<>> \/ End(Last(earlier)) > Start(reward) \/ given[last] # None THEN None
  ELSE last

\* The call that a reward goes to: of those that began before it the last one that has
\* ended and has no reward yet.
Receiver(given, earlier, reward) ==
  LET free == Those(earlier, {c \in DOMAIN given : End(c) <= Start(reward) /\ given[c] = None})
  IN IF free = <<>> THEN None ELSE Last(free)

\* The item at place k hands its reward out, if it has one.
HandedOut(given, order, calls, k) ==
  LET to == Receiver(given, Those(SubSeq(order, 1, k), ToSet(calls)), order[k])
  IN IF Kind(order[k]) # "reward" \/ to = None THEN given ELSE [given EXCEPT ![to] = order[k]]

\* match_rewards under FIRST_OCCURRENCE: [call -> the span of its reward, or None], after
\* each of the items.
FirstOccurrence(order, calls) ==
  LET given[k \in 0 .. Len(order)] ==
        IF k = 0 THEN [c \in ToSet(calls) |-> None]
        ELSE HandedOut(given[k - 1], order, calls, k)
  IN given

\* FIRST_SIBLING takes the ids of calls apart as if they were pairs; only a reward that
\* has a call below it gets that far.
SiblingsFail(calls) ==
  \E n \in Spans : Kind(n) = "reward" /\ ToSet(tree[n]) \cap ToSet(calls) # {}

Rewards(calls) ==
  IF policy = "first_occurrence"
  THEN LET order == ByTime IN FirstOccurrence(order, calls)[Len(order)]
  ELSE [c \in ToSet(calls) |-> None]

ToTrajectory ==
  /\ stage = "repaired"
  /\ LET calls == Calls
         rewards == Rewards(calls) IN
     IF policy = "first_sibling" /\ SiblingsFail(calls)
     THEN stage' = "failed" /\ UNCHANGED triplets
     ELSE /\ stage' = "done"
          /\ triplets' =
               [k \in DOMAIN calls |-> [call |-> calls[k], reward |-> rewards[calls[k]]]]
  /\ UNCHANGED <<trace, policy, exclude, tree>>

-----------------------------------------------------------------------------
(* LlmProxyTraceToTriplet                                                  *)

\* Of several calls with one response id the first counts.
ProxyCalls ==
  Those(Ids, {i \in Spans :
    /\ Kind(i) = "call"
    /\ trace[i].response = None \/
         \A j \in 1 .. i - 1 : Kind(j) = "call" => trace[j].response # trace[i].response})

\* The last call numbered before the reward that has none yet; the spans of one request
\* have one number.
ProxyReceiver(given, reward) ==
  LET free == Those(ProxyCalls,
                    {c \in DOMAIN given : given[c] = None /\ trace[c].seq < trace[reward].seq})
  IN IF free = <<>> THEN None ELSE Last(free)

BySequence ==
  LET given[i \in 0 .. Len(trace)] ==
        IF i = 0 THEN [c \in ToSet(ProxyCalls) |-> None]
        ELSE LET before == given[i - 1]
                 to == ProxyReceiver(before, i)
             IN IF Kind(i) # "reward" \/ to = None THEN before ELSE [before EXCEPT ![to] = i]
  IN given

AdaptBySequence ==
  /\ stage = "spans"
  /\ policy = "by_sequence"
  /\ LET rewards == BySequence[Len(trace)] IN
     triplets' = [k \in DOMAIN ProxyCalls |->
                    [call |-> ProxyCalls[k], reward |-> rewards[ProxyCalls[k]]]]
  /\ stage' = "done"
  /\ UNCHANGED <<trace, policy, exclude, tree>>

TraceNext == FromSpans \/ RepairHierarchy \/ ToTrajectory \/ AdaptBySequence

TraceSpec == TraceInit /\ [][TraceNext]_traceVars

-----------------------------------------------------------------------------
WellTimed ==
  \A i \in Spans : trace[i].parent \in Spans =>
    /\ trace[trace[i].parent].start <= trace[i].start
    /\ trace[i].end <= trace[trace[i].parent].end

\* Whatever spans share their times or lost their parents: the tree has every span of the
\* trace, and has it once.  It takes clocks that agree: a span that outlives its parent
\* can be moved below itself.
NothingIsLost == stage # "spans" /\ policy # "by_sequence" /\ WellTimed =>
  LET order == Traverse(tree, Top) IN IsInjective(order) /\ Spans \subseteq ToSet(order)

\* What a reward finds: it goes to one call, one that may have it, and to none only if each
\* call that it is due to has got one before.
OneCallEach(rewards, may, due) ==
  LET called == {triplets[k].call : k \in DOMAIN triplets}
      rewardOf(c) == triplets[CHOOSE k \in DOMAIN triplets : triplets[k].call = c].reward
  IN /\ \A c \in called :
          rewardOf(c) # None => rewardOf(c) \in rewards /\ <<c, rewardOf(c)>> \in may
     /\ \A c, d \in called : rewardOf(c) = rewardOf(d) => c = d \/ rewardOf(c) = None
     /\ \A r \in rewards : (\A c \in called : rewardOf(c) # r) =>
          \A c \in called : <<c, r>> \in due =>
            rewardOf(c) # None /\ <<r, rewardOf(c)>> \notin due

RewardSpans == {n \in Spans : Kind(n) = "reward"}
Pairs == Spans \X Spans

\* One span is over when another begins; and it began before it.
Over == {p \in Pairs : End(p[1]) <= Start(p[2])}
Due == {p \in Over : Start(p[1]) < Start(p[2])}
Numbered == {p \in Pairs : trace[p[1]].seq < trace[p[2]].seq}

\* Rewards find their calls: by time in a tree, by number for the proxy's spans, where no
\* response is paid twice either.
RewardsFindTheirCalls == stage = "done" =>
  /\ policy = "first_occurrence" =>
       OneCallEach(RewardSpans \cap ToSet(Traverse(tree, Top)), Over, Due)
  /\ policy = "by_sequence" =>
       /\ OneCallEach(RewardSpans, Numbered, Numbered)
       /\ \A j, k \in DOMAIN triplets :
            trace[triplets[j].call].response # None /\ j # k
            => trace[triplets[j].call].response # trace[triplets[k].call].response

\* "When True, deduplicates spans using the LLM response identifier."
ResponsesAreDistinct == stage = "done" =>
  \A j, k \in DOMAIN triplets :
    /\ j # k
    /\ trace[triplets[j].call].response # None
    => trace[triplets[j].call].response # trace[triplets[k].call].response
=============================================================================
