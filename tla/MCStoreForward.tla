-------------------------- MODULE MCStoreForward --------------------------
(* StoreForward on small instances. *)
EXTENDS StoreForward, TLC

TagSymmetry == Permutations(Tag)
=============================================================================
