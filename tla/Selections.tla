------------------------------ MODULE Selections ------------------------------
(* What is taken out of a sequence, for the modules that are reasoned about.    *)
EXTENDS Sequences, SequencesExt

\* The elements of a sequence that are in a set, in their order.
Those(s, S) == FlattenSeq([n \in DOMAIN s |-> IF s[n] \in S THEN <<s[n]>> ELSE <<>>])
=============================================================================
