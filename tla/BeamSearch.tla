------------------------------ MODULE BeamSearch ------------------------------
(***************************************************************************)
(* APO (algorithm/apo/apo.py): rounds of a beam search over prompts.  What a *)
(* prompt scores depends on the agent and on the models, so an evaluation    *)
(* may return any score; an edit may fail, and so may a call of a model.     *)
(***************************************************************************)
EXTENDS Integers, Sequences, SequencesExt, FiniteSets, FiniteSetsExt

CONSTANTS
  BeamWidth,
  BranchFactor,
  BeamRounds,
  Scores        \* what an evaluation may return

ASSUME BeamAssumption ==
  /\ BeamWidth \in Nat \ {0} /\ BranchFactor \in Nat \ {0} /\ BeamRounds \in Nat
  /\ Scores \subseteq Nat

VARIABLES
  step,         \* where run() is
  round,
  counter,      \* _version_counter; prompts are named by their version
  beam,         \* a sequence of versions
  parents,      \* the parents still to be edited: one entry for each branch
  candidates,   \* the beam and the new prompts, in this order
  score,        \* [version -> its score, or Lowest for none]
  best,         \* _history_best_version and _history_best_score
  scoredIn,     \* for the properties: the round of a version's score
  full          \* for the properties: the results on the whole validation set, in order

beamVars == <<step, round, counter, beam, parents, candidates, score, best, scoredIn, full>>

Versions == 0 .. BeamWidth * BranchFactor * BeamRounds

\* The score of what has none: -inf.
Lowest == -1

BeamInit ==
  /\ step = "start"
  /\ round = 0 /\ counter = 1
  /\ beam = <<0>> /\ parents = <<>> /\ candidates = <<>>
  /\ score = [v \in Versions |-> Lowest]
  /\ best = [version |-> 0, score |-> Lowest]
  /\ scoredIn = [v \in Versions |-> 0]
  /\ full = <<>>

\* evaluate_prompt_on_batch on the whole validation set.
OnTheWhole(v, s) == full' = Append(full, [version |-> v, score |-> s])

\* run_initial_validation, or not.
Baseline ==
  /\ step = "start"
  /\ step' = "sample"
  /\ \/ UNCHANGED <<best, full>>
     \/ \E s \in Scores : best' = [version |-> 0, score |-> s] /\ OnTheWhole(0, s)
  /\ UNCHANGED <<round, counter, beam, parents, candidates, score, scoredIn>>

\* _sample_parent_prompts: a full beam in any order, a smaller one repeated.
Samples ==
  IF Len(beam) < BeamWidth
  THEN {[k \in 1 .. BeamWidth |-> beam[((k - 1) % Len(beam)) + 1]]}
  ELSE {s \in [1 .. BeamWidth -> ToSet(beam)] : IsInjective(s)}

Sample ==
  /\ step = "sample"
  /\ IF round = BeamRounds
     THEN step' = "done" /\ UNCHANGED <<round, parents, candidates>>
     ELSE /\ step' = "edit"
          /\ round' = round + 1
          /\ \E s \in Samples :
               parents' = [k \in 1 .. BeamWidth * BranchFactor |->
                             s[((k - 1) \div BranchFactor) + 1]]
          /\ candidates' = beam
  /\ UNCHANGED <<counter, beam, score, best, scoredIn, full>>

\* One branch of _generate_candidate_prompts; the parent's score on the training samples
\* is not kept.
Edit ==
  /\ step = "edit"
  /\ parents # <<>>
  /\ parents' = Tail(parents)
  /\ \/ UNCHANGED <<counter, candidates>>
     \/ candidates' = Append(candidates, counter) /\ counter' = counter + 1
  /\ UNCHANGED <<step, round, beam, score, best, scoredIn, full>>

\* Only what has no score yet is evaluated.  (A plausible bug of ToJudge.)
MutantOnlyNew == SelectSeq(candidates, LAMBDA v : score[v] = Lowest)

\* What _evaluate_and_select_beam evaluates on the batch of its round.
ToJudge == candidates

Judge ==
  /\ step = "edit"
  /\ parents = <<>>
  /\ step' = "select"
  /\ \E got \in [ToSet(ToJudge) -> Scores] :
       score' = [v \in Versions |-> IF v \in DOMAIN got THEN got[v] ELSE score[v]]
  /\ scoredIn' = [v \in Versions |-> IF v \in ToSet(ToJudge) THEN round ELSE scoredIn[v]]
  /\ UNCHANGED <<round, counter, beam, parents, candidates, best, full>>

\* The order of the scores, best first; equal ones keep their places.
Before(j, k) ==
  LET s == score[candidates[j]]
      t == score[candidates[k]]
  IN s > t \/ (s = t /\ j < k)
Rank(k) == Cardinality({j \in DOMAIN candidates : Before(j, k)}) + 1
Ranked ==
  [r \in DOMAIN candidates |->
     candidates[CHOOSE k \in DOMAIN candidates : Rank(k) = r]]

Select ==
  /\ step = "select"
  /\ beam' = SubSeq(Ranked, 1, Min({BeamWidth, Len(Ranked)}))
  /\ step' = "lead"
  /\ UNCHANGED <<round, counter, parents, candidates, score, best, scoredIn, full>>

\* The leader's score on its batch counts.  (A plausible bug of Better.)
MutantScoreOnBatch(s) == score[beam[1]] > best.score

Better(s) == s > best.score

\* _update_best_prompt
Lead ==
  /\ step = "lead"
  /\ step' = "sample"
  /\ \E s \in Scores :
       /\ OnTheWhole(beam[1], s)
       /\ best' = IF Better(s) THEN [version |-> beam[1], score |-> s] ELSE best
  /\ UNCHANGED <<round, counter, beam, parents, candidates, score, scoredIn>>

\* A model or the store fails: run() raises, and what was best remains.
Raises ==
  /\ step \notin {"done", "failed"}
  /\ step' = "failed"
  /\ UNCHANGED <<round, counter, beam, parents, candidates, score, best, scoredIn, full>>

BeamNext == Baseline \/ Sample \/ Edit \/ Judge \/ Select \/ Lead \/ Raises

BeamSpec == BeamInit /\ [][BeamNext]_beamVars

-----------------------------------------------------------------------------
\* The scores that decide who stays in the beam are all of one batch, the round's; the
\* best stay, and prompts of earlier rounds compete with the new ones.
RankedOnOneBatch == step = "lead" =>
  /\ \A v \in ToSet(candidates) : scoredIn[v] = round
  /\ \A v \in ToSet(beam), w \in ToSet(candidates) \ ToSet(beam) : score[v] >= score[w]
  /\ Len(beam) = Min({BeamWidth, Len(candidates)})

\* The prompt that the search reports has the highest score of those that were evaluated
\* on the whole validation set, however much its batch liked another one, and a failure
\* in the middle of a round does not lose it.
BestOfTheWhole ==
  /\ \A k \in DOMAIN full : full[k].score <= best.score
  /\ full # <<>> => \E k \in DOMAIN full : full[k] = best
=============================================================================
