-------------------------- MODULE MCReceiptLifecycle --------------------------
(* The forks are interchangeable names of blocks, and the workers are alike. *)
EXTENDS ReceiptLifecycle, TLC

Alike == Permutations(Forks) \cup Permutations(Workers)
=============================================================================
