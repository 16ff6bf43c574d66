------------------------- MODULE ReceiptObservation -------------------------
(***************************************************************************)
(* What one report about an operation makes of the durable attempt it is   *)
(* about: reduceOperationObservation of packages/receipt-lifecycle, with   *)
(* the transition table it asserts and the finality policy it evaluates.   *)
(*                                                                         *)
(* A block is its level and the fork it is on; the proof that comes with a *)
(* report of inclusion is the fork of every level from the inclusion to    *)
(* the head.  Operation, account, contract and manifest are one identity,  *)
(* which a report shares with the attempt or does not.                     *)
(***************************************************************************)
EXTENDS Integers, Sequences, FiniteSets

CONSTANTS
    Forks,      \* names that tell blocks of one level apart
    MaxLevel,   \* bound: highest level of a block
    MaxSeq,     \* bound: highest source sequence
    NoFork      \* the fork of no block

ASSUME ObservationAssumption ==
    /\ MaxLevel \in Nat \ {0}
    /\ MaxSeq \in Nat \ {0}
    /\ NoFork \notin Forks

Levels == 1 .. MaxLevel
Blocks == [level : Levels, fork : Forks]
NoBlock == [level |-> 0, fork |-> NoFork]

Threshold == 2   \* localnet-two-confirmation-rehearsal-v1
AttemptStates == {"SUBMITTED", "INCLUDED", "CONFIRMED", "FINALIZED",
                  "FAILED", "DROPPED", "REPLACED", "REORGED"}
Concluded == {"FINALIZED", "FAILED", "DROPPED", "REPLACED"}   \* nothing follows

Transitions ==
    [s \in AttemptStates |->
        CASE s = "SUBMITTED" -> {"INCLUDED", "FAILED", "DROPPED", "REPLACED"}
          [] s = "INCLUDED"  -> {"CONFIRMED", "FAILED", "REORGED"}
          [] s = "CONFIRMED" -> {"FINALIZED", "REORGED"}
          [] s = "REORGED"   -> {"INCLUDED", "DROPPED"}
          [] OTHER           -> {}]

(***************************************************************************)
(* Reports that normalizeOperationObservation lets through.  Every proof   *)
(* starts at the level of the inclusion and ends at the head; in a report  *)
(* of a reorganisation the chain has another block at that level.  Of an   *)
(* indexer's report only the head is ever read, for it is a hint.          *)
(***************************************************************************)
Proofs == (UNION {[i .. h -> Forks] : i \in Levels, h \in Levels}) \ {<<>>}

Report(source, seq, kind, head, incl, chain, genuine, same) ==
    [source |-> source, seq |-> seq, kind |-> kind, head |-> head, incl |-> incl,
     chain |-> chain, genuine |-> genuine, same |-> same]

Span(chain) == LET levels == DOMAIN chain IN
    [first |-> CHOOSE l \in levels : \A k \in levels : l <= k,
     last  |-> CHOOSE l \in levels : \A k \in levels : k <= l]

At(chain, l) == [level |-> l, fork |-> chain[l]]

Hints == {Report("indexer", seq, "PENDING", b, NoBlock, <<>>, TRUE, TRUE) :
             seq \in 1 .. MaxSeq, b \in Blocks}

HeadReports ==
    {Report("rpc", seq, kind, b, NoBlock, <<>>, TRUE, same) :
        seq \in 1 .. MaxSeq, kind \in {"PENDING", "FAILED", "DROPPED"}, b \in Blocks,
        same \in BOOLEAN}

InclusionReports ==
    {Report("rpc", seq, "INCLUDED", At(c, Span(c).last), At(c, Span(c).first), c, genuine, TRUE) :
        seq \in 1 .. MaxSeq, c \in Proofs, genuine \in BOOLEAN}

ReorgReports ==
    {r \in {Report("rpc", seq, "REORGED", At(c, Span(c).last),
                   [level |-> Span(c).first, fork |-> f], c, TRUE, TRUE) :
               seq \in 1 .. MaxSeq, c \in Proofs, f \in Forks} :
        r.chain[r.incl.level] # r.incl.fork}

Reports == Hints \cup HeadReports \cup InclusionReports \cup ReorgReports

-----------------------------------------------------------------------------
Confirmations(o) == o.head.level - o.incl.level + 1

\* The proof still has, at the level of the durable head, the durable head.
Continues(att, o) ==
    /\ att.head # NoBlock
    /\ att.head.level \in DOMAIN o.chain
    /\ o.chain[att.head.level] = att.head.fork

Settling(att, o) == o.kind = "INCLUDED" /\ att.state \in {"INCLUDED", "CONFIRMED", "FINALIZED"}

\* A report of inclusion that cannot be true together with the inclusion held.
Contradicts(att, o) ==
    \/ o.incl # att.canon
    \/ o.head.level >= att.head.level /\ ~Continues(att, o)
    \/ att.state = "FINALIZED" /\ o.head.level < att.head.level

Stale(att, o) == o.head.level < att.head.level
OtherHead(att, o) == att.head.level = o.head.level /\ att.head # o.head

InclusionPath(from, o) ==
    (IF from \in {"SUBMITTED", "REORGED"} THEN <<"INCLUDED">> ELSE <<>>) \o
    (IF Confirmations(o) < Threshold THEN <<>>
     ELSE IF from \in {"SUBMITTED", "REORGED", "INCLUDED"} THEN <<"CONFIRMED", "FINALIZED">>
     ELSE IF from = "CONFIRMED" THEN <<"FINALIZED">> ELSE <<>>)

Verdict(disposition, path) == [disposition |-> disposition, path |-> path]

(***************************************************************************)
(* reduceOperationObservation: the disposition, and the states the attempt *)
(* goes through when it is APPLY.  "throw" is an exception of the reducer. *)
(***************************************************************************)
Reduce(att, o) ==
    LET last == IF o.source = "rpc" THEN att.rpcSeq ELSE att.indexerSeq IN
    CASE ~o.same              -> Verdict("throw", <<>>)
      [] o.same /\ o.seq < last -> Verdict("STALE", <<>>)
      [] o.same /\ o.seq = last -> Verdict("throw", <<>>)
      [] OTHER ->
           IF o.source = "indexer" THEN Verdict("HINT", <<>>)
           ELSE IF att.state = "FINALIZED" /\ (o.kind # "INCLUDED" \/ Contradicts(att, o))
             THEN Verdict("FINALIZED_CONTRADICTION", <<>>)
           ELSE IF Settling(att, o) /\ Contradicts(att, o)
             THEN Verdict("ATTEMPT_CONTRADICTION", <<>>)
           ELSE IF Stale(att, o) THEN Verdict("STALE", <<>>)
           ELSE IF OtherHead(att, o) THEN Verdict("throw", <<>>)
           ELSE IF o.kind = "PENDING" THEN Verdict("APPLY", <<>>)
           ELSE IF o.kind = "INCLUDED"
             THEN IF att.state \in {"REPLACED", "FAILED", "DROPPED"}
                  THEN Verdict("ATTEMPT_CONTRADICTION", <<>>)
                  ELSE Verdict("APPLY", InclusionPath(att.state, o))
           ELSE IF o.kind = "REORGED" /\ (att.canon = NoBlock \/ o.incl # att.canon)
             THEN Verdict("ATTEMPT_CONTRADICTION", <<>>)
           ELSE IF o.kind \in Transitions[att.state] THEN Verdict("APPLY", <<o.kind>>)
           ELSE Verdict("throw", <<>>)
=============================================================================
