-------------------------- MODULE MCAttentionStore --------------------------
(* A small instance of AttentionStore for TLC.  Calls are interchangeable, *)
(* and so are reviewers and items; the liveness run does without symmetry. *)
EXTENDS AttentionStore, TLC

Interchangeable ==
  Permutations(Calls) \cup Permutations(Reviewers) \cup Permutations(Items)
=============================================================================
