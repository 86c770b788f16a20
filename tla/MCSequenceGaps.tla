-------------------------- MODULE MCSequenceGaps --------------------------
(* SequenceGaps on small instances. *)
EXTENDS SequenceGaps, TLC

TagSymmetry == Permutations(Tag)
=============================================================================
