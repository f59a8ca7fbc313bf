------------------------------ MODULE MCStorage ------------------------------
(* Instances of SpanStore, StoreCalls and Collections for TLC: a behaviour is  *)
(* one of the spans of the store, of the calls that reach it, or of one of its *)
(* collections; the other parts rest.                                          *)
EXTENDS SpanStore, StoreCalls, Collections, TLC

CONSTANTS r1, r2, s1, s2, s3, c1, c2, c3

VARIABLE part

storageVars == <<part, svars, callVars, collVars>>

Older == <<r1, r2>>
Sizes == (s1 :> 1) @@ (s2 :> 2) @@ (s3 :> 3)

MCValues == {"a", "A"}
MCFold == [v \in MCValues |-> "a"]

Http(o) == <<o, "http">>
Direct(o) == <<o, "direct">>

\* Three that want sequence ids, one that enqueues what two want to claim, and a report
\* next to a wait.
MCPlans ==
  {(c1 :> Http("issue") @@ c2 :> Direct("issue") @@ c3 :> Direct("issue")),
   (c1 :> Http("enqueue") @@ c2 :> Direct("dequeue") @@ c3 :> Http("dequeue"))} \cup
  {(c1 :> Http("report") @@ c2 :> <<"wait", r>>) : r \in Routes}

CallsRest ==
  CallsInit /\ backend = "memory" /\ plan[c1] = Http("report") /\ plan[c2] = Http("wait")

StorageInit ==
  \/ part = "spans" /\ Init /\ CallsRest /\ CollInit /\ backing = "memory"
  \/ part = "calls" /\ Init /\ CallsInit /\ CollInit /\ backing = "memory"
  \/ part = "collection" /\ Init /\ CallsRest /\ CollInit

StorageNext ==
  \/ part = "spans" /\ Next /\ UNCHANGED <<part, callVars, collVars>>
  \/ part = "calls" /\ CallsNext /\ UNCHANGED <<part, svars, collVars>>
  \/ part = "collection" /\ CollNext /\ UNCHANGED <<part, svars, callVars>>

\* Calls that rest have nothing to do.
StorageSpec == StorageInit /\ [][StorageNext]_storageVars /\ CallsFairness

\* The calls alone, on a store that is not transactional.
CallsOnly ==
  /\ part = "calls" /\ Init /\ CallsInit /\ CollInit /\ backing = "memory"
  /\ [][StorageNext]_storageVars
=============================================================================
