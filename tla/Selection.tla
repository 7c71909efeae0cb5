------------------------------- MODULE Selection -------------------------------
(***************************************************************************)
(* The elements of a sequence that are in a set, in their order: what the  *)
(* comprehensions and the filtering loops of the code compute.  As a fold  *)
(* over the sequence it can be reasoned about (SequenceLemmas).            *)
(***************************************************************************)
EXTENDS Sequences, SequencesExt

Selected(s, K) == FoldLeft(LAMBDA kept, e : IF e \in K THEN Append(kept, e) ELSE kept, <<>>, s)
=============================================================================
