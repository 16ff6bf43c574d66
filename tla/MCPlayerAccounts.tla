-------------------------- MODULE MCPlayerAccounts --------------------------
(* Two claims of one account, of one guest or of two, by a browser that loses answers. *)
EXTENDS PlayerAccounts, TLC

Alike == Permutations(Guests) \cup Permutations(Browsers) \cup Permutations(Claims)
=============================================================================
