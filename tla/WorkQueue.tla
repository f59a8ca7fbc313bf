----------------------------- MODULE WorkQueue -----------------------------
(***************************************************************************)
(* What the store promises to runners about the queue (store/base.py,      *)
(* dequeue_rollout): tasks are claimed one at a time, in the order of the  *)
(* line among the tasks that remain in it, and every claim opens a new     *)
(* attempt.  Stale entries are not part of the picture: a task that comes  *)
(* back may take its old place, which is why an arrival is not an append.  *)
(***************************************************************************)
EXTENDS Naturals

CONSTANT Tasks

VARIABLES waiting,  \* the tasks that may be claimed
          before,   \* the pairs <<t, u>> of them with t in line before u
          tries     \* [Tasks -> number of attempts opened]

vars == <<waiting, before, tries>>

Init ==
  /\ waiting = {}
  /\ before = {}
  /\ tries = [t \in Tasks |-> 0]

\* Of any two tasks of S one is before the other, and nothing goes in circles.
InLine(S, order) ==
  /\ order \subseteq S \X S
  /\ \A t, u \in S : t # u => (<<t, u>> \in order <=> <<u, t>> \notin order)
  /\ \A t \in S : <<t, t>> \notin order
  /\ \A t, u, v \in S : <<t, u>> \in order /\ <<u, v>> \in order => <<t, v>> \in order

\* What is left of an order among the tasks of S.
Among(S, order) == order \cap (S \X S)

\* The first in line is claimed; nothing else moves.
Claim ==
  \E t \in waiting :
    /\ \A u \in waiting : <<u, t>> \notin before
    /\ waiting' = waiting \ {t}
    /\ before' = Among(waiting \ {t}, before)
    /\ tries' = [tries EXCEPT ![t] = @ + 1]

\* Tasks come, at any place, without disturbing the order of the others.
Arrive ==
  /\ waiting \subseteq waiting'
  /\ waiting' \subseteq Tasks
  /\ InLine(waiting', before')
  /\ Among(waiting, before') = before
  /\ UNCHANGED tries

\* Tasks leave the line unclaimed.
Withdraw ==
  /\ waiting' \subseteq waiting
  /\ before' = Among(waiting', before)
  /\ UNCHANGED tries

\* A task that never waited is tried at once by the one who brings it.
Bypass ==
  /\ \E t \in Tasks \ waiting : tries[t] = 0 /\ tries' = [tries EXCEPT ![t] = 1]
  /\ UNCHANGED <<waiting, before>>

Next == Claim \/ Arrive \/ Withdraw \/ Bypass

Spec == Init /\ [][Next]_vars
=============================================================================
