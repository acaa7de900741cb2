---------------------------- MODULE MCOmniCondition ----------------------------
(* Threads that are alike, for OmniCondition. *)
EXTENDS OmniCondition, TLC

Alike == Permutations(Threads)
=============================================================================
