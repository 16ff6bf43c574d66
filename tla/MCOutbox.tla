------------------------------ MODULE MCOutbox ------------------------------
(* Two events, and one token for each attempt of either.  The run checks a  *)
(* liveness property, so nothing is symmetric.                              *)
EXTENDS Outbox

ASSUME EnoughTokens == Cardinality(Tokens) >= MaxAttempts * Cardinality(Events)
=============================================================================
