------------------------- MODULE MCServiceAuthority -------------------------
(* Requests, keys and bodies are interchangeable where no liveness is checked. *)
EXTENDS ServiceAuthority, TLC

Interchangeable == Permutations(Txs) \cup Permutations(Keys) \cup Permutations(Bodies)
=============================================================================
