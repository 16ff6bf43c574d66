--------------------------- MODULE MCCounterShell ---------------------------
(* Tabs, keys and guests are interchangeable where no liveness is checked. *)
EXTENDS CounterShell, TLC

Interchangeable == Permutations(Tabs) \cup Permutations(Keys) \cup Permutations(Guests)
=============================================================================
