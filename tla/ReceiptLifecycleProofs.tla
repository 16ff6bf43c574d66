----------------------- MODULE ReceiptLifecycleProofs -----------------------
(***************************************************************************)
(* Proofs about ReceiptLifecycle, for every number of workers, attempts,   *)
(* forks, levels and sequences: at most one attempt of the intent can      *)
(* settle, attempt, receipt and intent agree, no attempt is forgotten,     *)
(* finality stands, and a lease protects its job.                          *)
(*                                                                         *)
(* The attempts are one line: each but the first follows the one before    *)
(* it, which is gone.  So a report that moves an attempt moves the last    *)
(* one, and whatever receipt there is, is of that attempt.  A claim is     *)
(* never younger than its job and held by one worker, so the lease of a    *)
(* job is of one worker.                                                   *)
(***************************************************************************)
EXTENDS ReceiptLifecycle, TLAPS, SequenceTheorems, FiniteSetTheorems

-----------------------------------------------------------------------------
(* Reports and what the reducer makes of them. *)

OnChain == {"INCLUDED", "CONFIRMED", "FINALIZED", "REORGED"}
Gone == {"FAILED", "DROPPED", "REPLACED"}
ReportKinds == {"PENDING", "FAILED", "DROPPED", "INCLUDED", "REORGED"}

\* What is read of a report.
ReportSound(o) ==
    /\ o.source \in {"rpc", "indexer"} /\ o.seq \in 1 .. MaxSeq
    /\ o.kind \in ReportKinds
    /\ o.head \in Blocks
    /\ o.kind \in {"INCLUDED", "REORGED"} => o.incl \in Blocks /\ o.incl.level <= o.head.level

\* A proof starts at the level of the inclusion and ends at that of the head.
LEMMA SpanSound ==
  ASSUME NEW c \in Proofs
  PROVE  /\ Span(c).first \in Levels /\ Span(c).last \in Levels
         /\ Span(c).first <= Span(c).last
         /\ At(c, Span(c).first) \in Blocks /\ At(c, Span(c).last) \in Blocks
<1>1. PICK i \in Levels, h \in Levels : c \in [i .. h -> Forks]
  <2>1. PICK S \in {[i .. h -> Forks] : i \in Levels, h \in Levels} : c \in S
    BY DEF Proofs
  <2>2. \E i \in Levels, h \in Levels : S = [i .. h -> Forks]
    OBVIOUS
  <2> QED
    BY <2>1, <2>2
<1>2. c # << >>
  BY DEF Proofs
<1>3. i <= h
  <2>1. SUFFICES ASSUME ~(i <= h) PROVE FALSE
    OBVIOUS
  <2>2. i .. h = {} /\ 1 .. 0 = {}
    BY <1>1, <2>1, ObservationAssumption DEF Levels
  <2>3. c \in [1 .. 0 -> Forks]
    BY <1>1, <2>2
  <2>4. c \in Seq(Forks)
    BY <2>3
  <2>5. Len(c) = 0
    BY <2>3
  <2>6. c = << >>
    BY <2>4, <2>5, EmptySeq
  <2> QED
    BY <1>2, <2>6
<1>4. DOMAIN c = i .. h /\ i .. h \subseteq Levels
  BY <1>1, ObservationAssumption DEF Levels
<1>5. i \in i .. h /\ h \in i .. h /\ \A k \in i .. h : i <= k /\ k <= h
  BY <1>1, <1>3, ObservationAssumption DEF Levels
<1>6. /\ Span(c).first \in i .. h /\ \A k \in i .. h : Span(c).first <= k
      /\ Span(c).last \in i .. h /\ \A k \in i .. h : k <= Span(c).last
  <2>1. Span(c).first = CHOOSE l \in i .. h : \A k \in i .. h : l <= k
    BY <1>4 DEF Span
  <2>2. Span(c).last = CHOOSE l \in i .. h : \A k \in i .. h : k <= l
    BY <1>4 DEF Span
  <2> QED
    BY <1>5, <2>1, <2>2
<1> QED
  BY <1>1, <1>4, <1>5, <1>6 DEF At, Blocks

\* Reports have the shape normalizeOperationObservation gives them.
LEMMA ReportsSound == \A o \in Reports : ReportSound(o)
<1>1. ASSUME NEW o \in Hints PROVE ReportSound(o)
  BY <1>1 DEF Hints, Report, ReportSound, ReportKinds
<1>2. ASSUME NEW o \in HeadReports PROVE ReportSound(o)
  BY <1>2 DEF HeadReports, Report, ReportSound, ReportKinds
<1>3. ASSUME NEW o \in InclusionReports PROVE ReportSound(o)
  <2>1. PICK seq \in 1 .. MaxSeq, c \in Proofs, genuine \in BOOLEAN :
            o = Report("rpc", seq, "INCLUDED", At(c, Span(c).last), At(c, Span(c).first), c, genuine, TRUE)
    BY <1>3 DEF InclusionReports, Report
  <2>2. At(c, Span(c).first).level <= At(c, Span(c).last).level
    BY SpanSound DEF At
  <2> QED
    BY <2>1, <2>2, SpanSound DEF Report, ReportSound, ReportKinds
<1>4. ASSUME NEW o \in ReorgReports PROVE ReportSound(o)
  <2>1. PICK seq \in 1 .. MaxSeq, c \in Proofs, f \in Forks :
            o = Report("rpc", seq, "REORGED", At(c, Span(c).last), [level |-> Span(c).first, fork |-> f],
                       c, TRUE, TRUE)
    BY <1>4 DEF ReorgReports, Report
  <2>2. Span(c).first <= At(c, Span(c).last).level /\ [level |-> Span(c).first, fork |-> f] \in Blocks
    BY SpanSound DEF At, Blocks
  <2> QED
    BY <2>1, <2>2, SpanSound DEF Report, ReportSound, ReportKinds
<1> QED
  BY <1>1, <1>2, <1>3, <1>4 DEF Reports

\* An inclusion never leads off the chain.
LEMMA InclusionPathSound ==
  ASSUME NEW o, NEW from \in AttemptStates \ Gone
  PROVE  LET path == InclusionPath(from, o) IN
         /\ path # << >> => from # "FINALIZED" /\ path[Len(path)] \in {"INCLUDED", "CONFIRMED", "FINALIZED"}
         /\ path # << >> => Len(path) \in Nat
<1>1. CASE Confirmations(o) < Threshold
  BY <1>1 DEF InclusionPath, AttemptStates, Gone
<1>2. CASE ~(Confirmations(o) < Threshold)
  BY <1>2 DEF InclusionPath, AttemptStates, Gone
<1> QED
  BY <1>1, <1>2

\* The transitions of the table that a report can ask for.
LEMMA TransitionsSound ==
  ASSUME NEW s \in AttemptStates, NEW kind \in {"FAILED", "DROPPED", "REORGED"}, kind \in Transitions[s]
  PROVE  s \notin Gone /\ s # "FINALIZED"
  BY DEF Transitions, AttemptStates, Gone

\* What an applied report may do: move an attempt that is neither gone nor final,
\* or, of a final one, confirm the block it was final in from a later head.
LEMMA ReduceSound ==
  ASSUME NEW att \in Attempt, NEW o, ReportSound(o), Reduce(att, o).disposition = "APPLY"
  PROVE  LET path == Reduce(att, o).path IN
         /\ path # << >> =>
                /\ att.state \notin Gone /\ att.state # "FINALIZED"
                /\ path[Len(path)] \in OnChain \cup {"FAILED", "DROPPED"}
                /\ path[Len(path)] \in {"INCLUDED", "CONFIRMED", "FINALIZED"} => o.kind = "INCLUDED"
                /\ Len(path) \in Nat
         /\ att.state = "FINALIZED" => o.kind = "INCLUDED" /\ ~Contradicts(att, o)
<1> DEFINE last == IF o.source = "rpc" THEN att.rpcSeq ELSE att.indexerSeq
           rest == IF o.source = "indexer" THEN Verdict("HINT", <<>>)
                   ELSE IF att.state = "FINALIZED" /\ (o.kind # "INCLUDED" \/ Contradicts(att, o))
                   THEN Verdict("FINALIZED_CONTRADICTION", <<>>)
                   ELSE IF Settling(att, o) /\ Contradicts(att, o)
                   THEN Verdict("ATTEMPT_CONTRADICTION", <<>>)
                   ELSE IF Stale(att, o) THEN Verdict("STALE", <<>>)
                   ELSE IF OtherHead(att, o) THEN Verdict("throw", <<>>)
                   ELSE IF o.kind = "PENDING" THEN Verdict("APPLY", <<>>)
                   ELSE IF o.kind = "INCLUDED"
                   THEN IF att.state \in {"REPLACED", "FAILED", "DROPPED"}
                        THEN Verdict("ATTEMPT_CONTRADICTION", <<>>)
                        ELSE Verdict("APPLY", InclusionPath(att.state, o))
                   ELSE IF o.kind = "REORGED" /\ (att.canon = NoBlock \/ o.incl # att.canon)
                   THEN Verdict("ATTEMPT_CONTRADICTION", <<>>)
                   ELSE IF o.kind \in Transitions[att.state] THEN Verdict("APPLY", <<o.kind>>)
                   ELSE Verdict("throw", <<>>)
<1>1. Reduce(att, o) = rest
  <2>1. /\ Verdict("throw", <<>>).disposition # "APPLY"
        /\ Verdict("STALE", <<>>).disposition # "APPLY"
    BY DEF Verdict
  <2> HIDE DEF rest
  <2>2. Reduce(att, o) = CASE ~o.same -> Verdict("throw", <<>>)
                           [] o.same /\ o.seq < last -> Verdict("STALE", <<>>)
                           [] o.same /\ o.seq = last -> Verdict("throw", <<>>)
                           [] OTHER -> rest
    BY DEF Reduce, rest
  <2> QED
    BY <2>1, <2>2
<1>2. att.state \in AttemptStates
  BY DEF Attempt
<1>3. rest.disposition = "APPLY" =>
          /\ att.state = "FINALIZED" => o.kind = "INCLUDED" /\ ~Contradicts(att, o)
          /\ \/ o.kind = "PENDING" /\ rest.path = << >>
             \/ o.kind = "INCLUDED" /\ att.state \notin Gone /\ rest.path = InclusionPath(att.state, o)
             \/ o.kind \notin {"PENDING", "INCLUDED"} /\ o.kind \in Transitions[att.state]
                    /\ rest.path = <<o.kind>>
  BY DEF Verdict, Gone
<1> HIDE DEF rest
<1>4. CASE o.kind = "PENDING"
  BY <1>1, <1>3, <1>4
<1>5. CASE o.kind = "INCLUDED"
  BY <1>1, <1>2, <1>3, <1>5, InclusionPathSound DEF OnChain
<1>6. CASE o.kind \notin {"PENDING", "INCLUDED"}
  <2>1. o.kind \in {"FAILED", "DROPPED", "REORGED"} /\ o.kind \in Transitions[att.state]
        /\ rest.path = <<o.kind>>
    BY <1>1, <1>3, <1>6 DEF ReportSound, ReportKinds
  <2>2. att.state \notin Gone /\ att.state # "FINALIZED"
    BY <1>2, <2>1, TransitionsSound
  <2>3. rest.path[Len(rest.path)] = o.kind /\ Len(rest.path) \in Nat
    BY <2>1
  <2> QED
    BY <1>1, <1>3, <2>1, <2>2, <2>3 DEF OnChain
<1> QED
  BY <1>4, <1>5, <1>6

-----------------------------------------------------------------------------
(* The inductive invariant. *)

\* Types, without the bounds on the counters of jobs and events.
JobRow == [state : {"pending", "processing", "complete", "dead-letter"},
           generation : Nat, live : BOOLEAN, failures : Nat]

Types ==
    /\ intent \in [state : IntentStates, revision : Nat] /\ events \in Nat
    /\ attempts \in Seq(Attempt)
    /\ jobs \in Seq(JobRow) /\ Len(jobs) = Len(attempts)
    /\ holding \in [Workers -> [attempt : Nat, generation : Nat]]

\* The CHECKs of the schema hold of every row.
Shaped == \A a \in DOMAIN attempts : ShapeAdmits(attempts[a])

\* An attempt that is followed by another was replaced or retried by it.
FollowedBy(att, next, a) ==
    /\ next.pred = a
    /\ \/ att.state \in {"FAILED", "DROPPED"} /\ next.lineage = "retry"
       \/ att.state = "REPLACED" /\ next.lineage = "replaces"

\* Attempts are one line: a root, and each other follows the one before it.
Line ==
    /\ attempts # << >> => /\ attempts[1].lineage = "root" /\ attempts[1].pred = 0
                           /\ intent.state # "NONE"
    /\ \A a \in DOMAIN attempts :
           a # Len(attempts) => FollowedBy(attempts[a], attempts[a + 1], a)

\* The receipt is of an attempt that is on chain or was orphaned.
ReceiptOnChain == receipt # NoReceipt => receipt.state \in OnChain

\* A claim is of a job and not younger than it, and no two workers hold one.
ClaimsSound ==
    /\ \A w \in Workers : holding[w] # NoClaim =>
           /\ holding[w].attempt \in DOMAIN jobs
           /\ holding[w].generation <= jobs[holding[w].attempt].generation
    /\ \A v, w \in Workers : holding[v] = holding[w] /\ holding[w] # NoClaim => v = w

IInv ==
    /\ Types /\ Shaped /\ Line /\ ProjectionsAgree /\ ReceiptOnChain
    /\ ClaimsSound /\ NoAttemptForgotten

-----------------------------------------------------------------------------
(* Rows. *)

\* The rows of attempts and jobs have the same numbers.
LEMMA RowNumbers ==
  ASSUME Types
  PROVE  /\ DOMAIN attempts = 1 .. Len(attempts) /\ Len(attempts) \in Nat
         /\ DOMAIN jobs = DOMAIN attempts
         /\ \A a \in DOMAIN attempts : attempts[a] \in Attempt
         /\ \A a \in DOMAIN jobs : jobs[a] \in JobRow
<1>1. ASSUME NEW a \in DOMAIN attempts PROVE attempts[a] \in Attempt
  BY ElementOfSeq DEF Types
<1>2. ASSUME NEW a \in DOMAIN jobs PROVE jobs[a] \in JobRow
  BY ElementOfSeq DEF Types
<1> QED
  BY <1>1, <1>2 DEF Types

\* Whatever is not gone is the last attempt.
LEMMA LiveIsLast ==
  ASSUME Types, Line, NEW a \in DOMAIN attempts, attempts[a].state \notin Gone
  PROVE  a = Len(attempts)
  BY DEF Line, FollowedBy, Gone

\* A row that changes in place: the attempts stay a line if it is the last one or keeps its state.
LEMMA LineKept ==
  ASSUME Types, Line, NEW a \in DOMAIN attempts, NEW row \in Attempt,
         attempts' = [attempts EXCEPT ![a] = row],
         row.lineage = attempts[a].lineage, row.pred = attempts[a].pred,
         row.state = attempts[a].state \/ a = Len(attempts),
         intent'.state # "NONE"
  PROVE  /\ Line' /\ attempts' \in Seq(Attempt) /\ Len(attempts') = Len(attempts)
         /\ DOMAIN attempts' = DOMAIN attempts
         /\ attempts'[a] = row
         /\ \A b \in DOMAIN attempts : b # a => attempts'[b] = attempts[b]
<1>1. DOMAIN attempts = 1 .. Len(attempts) /\ Len(attempts) \in Nat /\ attempts \in Seq(Attempt)
  BY RowNumbers DEF Types
<1>2. attempts' \in Seq(Attempt) /\ Len(attempts') = Len(attempts) /\ DOMAIN attempts' = DOMAIN attempts
  BY <1>1
<1>3. attempts'[a] = row /\ \A b \in DOMAIN attempts : b # a => attempts'[b] = attempts[b]
  BY <1>1
<1>4. attempts # << >>
  BY <1>1
<1>5. attempts'[1].lineage = "root" /\ attempts'[1].pred = 0
  <2>1. 1 \in DOMAIN attempts
    BY <1>1
  <2> QED
    BY <1>3, <1>4, <2>1 DEF Line
<1>6. ASSUME NEW b \in DOMAIN attempts, b # Len(attempts)
      PROVE  FollowedBy(attempts'[b], attempts'[b + 1], b)
  <2>1. b + 1 \in DOMAIN attempts /\ FollowedBy(attempts[b], attempts[b + 1], b)
    BY <1>1, <1>6 DEF Line
  <2>2. attempts'[b].state = attempts[b].state
    BY <1>3, <1>6
  <2>3. attempts'[b + 1].lineage = attempts[b + 1].lineage /\ attempts'[b + 1].pred = attempts[b + 1].pred
    BY <1>3, <2>1
  <2> QED
    BY <2>1, <2>2, <2>3 DEF FollowedBy
<1> QED
  BY <1>2, <1>3, <1>5, <1>6 DEF Line

\* One attempt can settle at most.
LEMMA LineIsOne ==
  ASSUME Types, Line
  PROVE  OneLiveAttempt
<1>1. ASSUME NEW a \in DOMAIN attempts, Live(a) PROVE a = Len(attempts)
  <2>1. attempts[a].state \notin Gone
    BY <1>1 DEF Live, Gone
  <2> QED
    BY <2>1, LiveIsLast
<1> QED
  BY <1>1 DEF OneLiveAttempt

\* An attempt that is on chain, its receipt and the intent say the same; no
\* receipt is left while the last attempt is not on chain.
LEMMA ReceiptOfLast ==
  ASSUME Types, Line, ProjectionsAgree, ReceiptOnChain
  PROVE  receipt # NoReceipt =>
             /\ receipt.attempt = Len(attempts) /\ receipt.attempt \in DOMAIN attempts
             /\ attempts[receipt.attempt].state \in OnChain
<1> SUFFICES ASSUME receipt # NoReceipt
             PROVE  /\ receipt.attempt = Len(attempts) /\ receipt.attempt \in DOMAIN attempts
                    /\ attempts[receipt.attempt].state \in OnChain
  OBVIOUS
<1>1. receipt.attempt \in DOMAIN attempts /\ attempts[receipt.attempt].state \in OnChain
  BY DEF ProjectionsAgree, ReceiptOnChain
<1>2. attempts[receipt.attempt].state \notin Gone
  BY <1>1 DEF OnChain, Gone
<1> QED
  BY <1>1, <1>2, LiveIsLast

-----------------------------------------------------------------------------
(* Steps.  Each keeps the invariant, leaves final attempts as they are, and    *)
(* touches no job under somebody else's lease.                                 *)

FinalStep ==
    \A a \in DOMAIN attempts :
        attempts[a].state = "FINALIZED" =>
            /\ attempts'[a].state = "FINALIZED"
            /\ attempts'[a].canon = attempts[a].canon
            /\ attempts'[a].confirmations >= attempts[a].confirmations
            /\ receipt' = receipt
            /\ intent'.state = "FINALIZED"

LeaseStep ==
    \A w \in Workers :
        HoldsLease(w) /\ holding'[w] = holding[w] =>
            LET a == holding[w].attempt IN
            jobs'[a] = [jobs[a] EXCEPT !.live = jobs'[a].live]

Sound == IInv' /\ FinalStep /\ LeaseStep

\* Rows and receipt stay, and the intent moves only while nothing is on chain.
LEMMA IntentMoves ==
  ASSUME Types, Shaped, Line, ProjectionsAgree, ReceiptOnChain,
         attempts' = attempts, receipt' = receipt,
         intent' \in [state : IntentStates, revision : Nat],
         events' = IF intent'.state = "NONE" THEN 0 ELSE intent'.revision + 1,
         intent'.state = intent.state \/ (intent'.state # "NONE" /\ intent.state \notin OnChain)
  PROVE  /\ events' \in Nat
         /\ Shaped' /\ Line' /\ ProjectionsAgree' /\ ReceiptOnChain' /\ FinalStep
<1>1. events' \in Nat
  OBVIOUS
<1>2. Shaped' /\ ReceiptOnChain'
  BY DEF Shaped, ReceiptOnChain
<1>3. Line'
  BY DEF Line
<1>4. ProjectionsAgree'
  <2>1. \A a \in DOMAIN attempts :
            attempts[a].state \in {"INCLUDED", "CONFIRMED", "FINALIZED", "REORGED"} =>
                intent'.state = intent.state
    BY DEF ProjectionsAgree, OnChain
  <2> QED
    BY <2>1 DEF ProjectionsAgree
<1>5. FinalStep
  <2> SUFFICES ASSUME NEW a \in DOMAIN attempts, attempts[a].state = "FINALIZED"
               PROVE  /\ attempts[a].confirmations >= attempts[a].confirmations
                      /\ intent'.state = "FINALIZED"
    BY DEF FinalStep
  <2>1. attempts[a].confirmations \in 0 .. MaxLevel
    BY RowNumbers DEF Attempt
  <2>2. intent.state = "FINALIZED"
    BY DEF ProjectionsAgree
  <2> QED
    BY <2>1, <2>2, ObservationAssumption DEF OnChain
<1> QED
  BY <1>1, <1>2, <1>3, <1>4, <1>5

\* Jobs and claims stay.
LEMMA JobsStay ==
  ASSUME Types, ClaimsSound, jobs' = jobs, holding' = holding
  PROVE  ClaimsSound' /\ LeaseStep
<1>1. ClaimsSound'
  BY DEF ClaimsSound
<1>2. ASSUME NEW a \in DOMAIN jobs PROVE jobs'[a] = [jobs[a] EXCEPT !.live = jobs'[a].live]
  <2>1. jobs[a] \in JobRow
    BY RowNumbers
  <2> QED
    BY <2>1 DEF JobRow
<1>3. ASSUME NEW w \in Workers, HoldsLease(w) PROVE holding[w].attempt \in DOMAIN jobs
  BY <1>3 DEF HoldsLease, ClaimsSound
<1> QED
  BY <1>1, <1>2, <1>3 DEF LeaseStep

\* Nothing but the intent and its events.
LEMMA IntentAlone ==
  ASSUME IInv, NEW state \in IntentStates \ {"NONE"}, NEW n \in Nat, Advance(state, n),
         intent.state # "NONE", state = intent.state \/ intent.state \notin OnChain,
         UNCHANGED <<attempts, receipt, jobs, incidents, holding>>
  PROVE  Sound
<1>1. Types /\ Shaped /\ Line /\ ProjectionsAgree /\ ReceiptOnChain /\ ClaimsSound /\ NoAttemptForgotten
  BY DEF IInv
<1>2. intent' = [state |-> state, revision |-> intent.revision + n] /\ events' = events + n
      /\ intent \in [state : IntentStates, revision : Nat] /\ events = intent.revision + 1
  BY <1>1 DEF Advance, WriteEvents, Types, ProjectionsAgree
<1>3. /\ intent' \in [state : IntentStates, revision : Nat]
      /\ events' = IF intent'.state = "NONE" THEN 0 ELSE intent'.revision + 1
      /\ intent'.state = intent.state \/ (intent'.state # "NONE" /\ intent.state \notin OnChain)
  BY <1>2
<1>4. /\ events' \in Nat
      /\ Shaped' /\ Line' /\ ProjectionsAgree' /\ ReceiptOnChain' /\ FinalStep
  BY <1>1, <1>3, IntentMoves
<1>5. ClaimsSound' /\ LeaseStep
  BY <1>1, JobsStay
<1>6. Types' /\ NoAttemptForgotten'
  BY <1>1, <1>3, <1>4 DEF Types, NoAttemptForgotten
<1> QED
  BY <1>4, <1>5, <1>6 DEF IInv, Sound

\* prepareSettledReceiptIntent
LEMMA PrepareSound ==
  ASSUME IInv, Prepare
  PROVE  Sound
<1>1. Types /\ Shaped /\ Line /\ ProjectionsAgree /\ ReceiptOnChain /\ ClaimsSound /\ NoAttemptForgotten
  BY DEF IInv
<1>2. /\ intent.state = "NONE" /\ intent' = [state |-> "REVIEWED", revision |-> 1] /\ events' = 2
      /\ UNCHANGED <<attempts, receipt, jobs, incidents, holding>>
  BY DEF Prepare
<1>3. intent' \in [state : IntentStates, revision : Nat] /\ intent.state \notin OnChain
  BY <1>2 DEF IntentStates, OnChain
<1>4. /\ events' \in Nat
      /\ Shaped' /\ Line' /\ ProjectionsAgree' /\ ReceiptOnChain' /\ FinalStep
  BY <1>1, <1>2, <1>3, IntentMoves
<1>5. ClaimsSound' /\ LeaseStep
  BY <1>1, <1>2, JobsStay
<1>6. Types' /\ NoAttemptForgotten'
  BY <1>1, <1>2, <1>3, <1>4 DEF Types, NoAttemptForgotten
<1> QED
  BY <1>4, <1>5, <1>6 DEF IInv, Sound

\* What an insertion leaves and adds.
LEMMA Inserted ==
  ASSUME Types, NEW rows \in Seq(Attempt), Len(rows) = Len(attempts),
         NEW lineage \in {"root", "replaces", "retry"}, NEW pred \in 0 .. MaxAttempts,
         Insert(rows, lineage, pred)
  PROVE  /\ attempts' \in Seq(Attempt) /\ Len(attempts') = Len(attempts) + 1
         /\ DOMAIN attempts' = DOMAIN attempts \cup {Len(attempts) + 1}
         /\ attempts'[Len(attempts) + 1] = NewAttempt(lineage, pred)
         /\ \A a \in DOMAIN attempts : attempts'[a] = rows[a]
         /\ jobs' \in Seq(JobRow) /\ Len(jobs') = Len(attempts) + 1
         /\ jobs'[Len(attempts) + 1] = NewJob
         /\ \A a \in DOMAIN attempts : jobs'[a] = jobs[a]
         /\ \A a \in DOMAIN attempts : rows[a] # attempts[a] => ShapeAdmits(rows[a])
         /\ \A a \in DOMAIN attempts : ~(rows[a].lineage = lineage /\ rows[a].pred = pred)
<1> DEFINE id == Len(attempts) + 1
           inserted == Append(rows, NewAttempt(lineage, pred))
<1>1. /\ DOMAIN attempts = 1 .. Len(attempts) /\ Len(attempts) \in Nat
      /\ jobs \in Seq(JobRow) /\ Len(jobs) = Len(attempts)
  BY RowNumbers DEF Types
<1>2. /\ Admits(inserted, {id} \cup {a \in DOMAIN attempts : rows[a] # attempts[a]})
      /\ attempts' = inserted /\ jobs' = Append(jobs, NewJob)
  BY DEF Insert
<1>3. NewAttempt(lineage, pred) \in Attempt
  <2>1. 0 \in 0 .. MaxLevel /\ 0 \in 0 .. MaxSeq
    BY ObservationAssumption
  <2> QED
    BY <2>1 DEF NewAttempt, Attempt, AttemptStates
<1>4. NewJob \in JobRow
  BY DEF NewJob, JobRow
<1>5. /\ inserted \in Seq(Attempt) /\ Len(inserted) = id
      /\ DOMAIN inserted = DOMAIN attempts \cup {id}
      /\ inserted[id] = NewAttempt(lineage, pred)
      /\ \A a \in DOMAIN attempts : inserted[a] = rows[a]
  <2> HIDE DEF NewAttempt
  <2> QED
    BY <1>1, <1>3
<1>6. /\ jobs' \in Seq(JobRow) /\ Len(jobs') = id /\ jobs'[id] = NewJob
      /\ \A a \in DOMAIN attempts : jobs'[a] = jobs[a]
  BY <1>1, <1>2, <1>4
<1> HIDE DEF inserted
<1>7. \A a \in DOMAIN attempts : rows[a] # attempts[a] => ShapeAdmits(rows[a])
  BY <1>2, <1>5 DEF Admits
<1>8. ASSUME NEW a \in DOMAIN attempts, rows[a].lineage = lineage, rows[a].pred = pred
      PROVE  FALSE
  <2>1. inserted[id].lineage = lineage /\ inserted[id].pred = pred
    BY <1>5 DEF NewAttempt
  <2>2. inserted[a].lineage = inserted[id].lineage /\ inserted[a].pred = inserted[id].pred
    BY <1>5, <1>8, <2>1
  <2>3. a = id
    BY <1>2, <1>5, <2>2 DEF Admits
  <2> QED
    BY <1>1, <2>3
<1> QED
  BY <1>2, <1>5, <1>6, <1>7, <1>8

\* An insertion adds a job and no claim.
LEMMA JobsAdded ==
  ASSUME Types, ClaimsSound, jobs' \in Seq(JobRow), Len(jobs') = Len(attempts) + 1,
         \A a \in DOMAIN attempts : jobs'[a] = jobs[a], holding' = holding
  PROVE  ClaimsSound' /\ LeaseStep
<1>1. DOMAIN jobs = DOMAIN attempts /\ DOMAIN attempts = 1 .. Len(attempts) /\ Len(attempts) \in Nat
  BY RowNumbers
<1>2. DOMAIN jobs \subseteq DOMAIN jobs'
  BY <1>1
<1>3. ClaimsSound'
  BY <1>1, <1>2 DEF ClaimsSound
<1>4. ASSUME NEW a \in DOMAIN jobs PROVE jobs'[a] = [jobs[a] EXCEPT !.live = jobs'[a].live]
  <2>1. jobs[a] \in JobRow /\ jobs'[a] = jobs[a]
    BY <1>1, RowNumbers
  <2> QED
    BY <2>1 DEF JobRow
<1>5. ASSUME NEW w \in Workers, HoldsLease(w) PROVE holding[w].attempt \in DOMAIN jobs
  BY <1>5 DEF HoldsLease, ClaimsSound
<1> QED
  BY <1>3, <1>4, <1>5 DEF LeaseStep

\* The attempt before one that is inserted: 0 before the root.
IsLast(a) == a = Len(attempts)

\* An attempt that follows a gone one, or is the first, when nothing is on chain.
LEMMA InsertSound ==
  ASSUME IInv, NEW rows \in Seq(Attempt), Len(rows) = Len(attempts),
         NEW lineage \in {"root", "replaces", "retry"}, NEW pred \in 0 .. MaxAttempts,
         Insert(rows, lineage, pred),
         IsLast(pred),
         IF attempts = << >> THEN lineage = "root"
         ELSE FollowedBy(rows[pred], NewAttempt(lineage, pred), pred),
         \A a \in DOMAIN attempts :
             /\ rows[a].lineage = attempts[a].lineage /\ rows[a].pred = attempts[a].pred
             /\ a # pred => rows[a] = attempts[a],
         receipt = NoReceipt, intent.state # "NONE",
         NEW state \in IntentStates \ {"NONE"}, Advance(state, 1),
         UNCHANGED <<receipt, incidents, holding>>
  PROVE  Sound
<1> DEFINE id == Len(attempts) + 1
<1>1. Types /\ Shaped /\ Line /\ ProjectionsAgree /\ ReceiptOnChain /\ ClaimsSound /\ NoAttemptForgotten
  BY DEF IInv
<1>2. /\ DOMAIN attempts = 1 .. Len(attempts) /\ Len(attempts) \in Nat /\ DOMAIN jobs = DOMAIN attempts
      /\ attempts \in Seq(Attempt)
  BY <1>1, RowNumbers DEF Types
<1>0. /\ Types /\ rows \in Seq(Attempt) /\ Len(rows) = Len(attempts)
      /\ lineage \in {"root", "replaces", "retry"} /\ pred \in 0 .. MaxAttempts
      /\ Insert(rows, lineage, pred)
  BY <1>1
<1>3. /\ attempts' \in Seq(Attempt) /\ Len(attempts') = id
      /\ DOMAIN attempts' = DOMAIN attempts \cup {id}
      /\ attempts'[id] = NewAttempt(lineage, pred)
      /\ \A a \in DOMAIN attempts : attempts'[a] = rows[a]
      /\ jobs' \in Seq(JobRow) /\ Len(jobs') = id
      /\ jobs'[id] = NewJob
      /\ \A a \in DOMAIN attempts : jobs'[a] = jobs[a]
      /\ \A a \in DOMAIN attempts : rows[a] # attempts[a] => ShapeAdmits(rows[a])
  BY ONLY <1>0, Inserted
<1>4. /\ intent' = [state |-> state, revision |-> intent.revision + 1] /\ events' = events + 1
      /\ intent \in [state : IntentStates, revision : Nat] /\ events = intent.revision + 1
  BY <1>1 DEF Advance, WriteEvents, Types, ProjectionsAgree
<1>5. intent' \in [state : IntentStates, revision : Nat] /\ events' \in Nat
      /\ events' = intent'.revision + 1 /\ intent'.state # "NONE"
  BY <1>4
<1>6. Types'
  BY <1>1, <1>3, <1>5 DEF Types
<1>7. Shaped'
  <2>1. ShapeAdmits(NewAttempt(lineage, pred))
    BY DEF ShapeAdmits, NewAttempt
  <2>2. \A a \in DOMAIN attempts : ShapeAdmits(rows[a])
    BY <1>1, <1>3 DEF Shaped
  <2> QED
    BY <1>3, <2>1, <2>2 DEF Shaped
<1>8. Line'
  <2>1. attempts'[1].lineage = "root" /\ attempts'[1].pred = 0
    <3>1. CASE attempts = << >>
      <4>1. Len(attempts) = 0 /\ pred = 0
        BY <3>1 DEF IsLast
      <4> QED
        BY <1>3, <3>1, <4>1 DEF NewAttempt
    <3>2. CASE attempts # << >>
      <4>1. 1 \in DOMAIN attempts
        BY <1>2, <3>2, EmptySeq
      <4> QED
        BY <1>1, <1>3, <3>2, <4>1 DEF Line
    <3> QED
      BY <3>1, <3>2
  <2>2. ASSUME NEW a \in DOMAIN attempts', a # id PROVE FollowedBy(attempts'[a], attempts'[a + 1], a)
    <3>1. a \in DOMAIN attempts /\ a \in 1 .. Len(attempts)
      BY <1>2, <1>3, <2>2
    <3>2. CASE a = pred
      <4>1. attempts # << >>
        BY <1>2, <3>1
      <4> QED
        BY <1>3, <3>1, <3>2, <4>1 DEF IsLast
    <3>3. CASE a # pred
      <4>1. a + 1 \in DOMAIN attempts /\ FollowedBy(attempts[a], attempts[a + 1], a)
        BY <1>1, <1>2, <3>1, <3>3 DEF Line, IsLast
      <4>2. attempts'[a] = attempts[a] /\ attempts'[a + 1].lineage = attempts[a + 1].lineage
            /\ attempts'[a + 1].pred = attempts[a + 1].pred
        BY <1>3, <3>1, <3>3, <4>1
      <4> QED
        BY <4>1, <4>2 DEF FollowedBy
    <3> QED
      BY <3>2, <3>3
  <2> QED
    BY <1>3, <1>5, <2>1, <2>2 DEF Line
<1>9. ASSUME NEW a \in DOMAIN attempts PROVE attempts[a].state \notin OnChain
  <2>1. ASSUME attempts[a].state \in OnChain PROVE FALSE
    <3>1. receipt.attempt = a
      BY <1>1, <2>1 DEF ProjectionsAgree, OnChain
    <3>2. NoReceipt.attempt = 0 /\ a # 0
      BY <1>2 DEF NoReceipt
    <3> QED
      BY <3>1, <3>2
  <2> QED
    BY <2>1
<1>10. ProjectionsAgree' /\ ReceiptOnChain'
  <2>1. ASSUME NEW a \in DOMAIN attempts' PROVE attempts'[a].state \notin OnChain
    <3>1. CASE a = id
      BY <1>3, <3>1 DEF NewAttempt, OnChain
    <3>2. CASE a = pred /\ a # id
      <4>1. a \in DOMAIN attempts /\ attempts # << >>
        BY <1>2, <1>3, <3>2
      <4>2. attempts'[a].state \in Gone
        BY <1>3, <3>2, <4>1 DEF FollowedBy, Gone
      <4> QED
        BY <4>2 DEF Gone, OnChain
    <3>3. CASE a # pred /\ a # id
      BY <1>3, <1>9, <3>3
    <3> QED
      BY <3>1, <3>2, <3>3
  <2>2. receipt' = NoReceipt
    OBVIOUS
  <2> QED
    BY <1>5, <2>1, <2>2 DEF ProjectionsAgree, ReceiptOnChain, OnChain
<1>11. ClaimsSound' /\ LeaseStep
  BY <1>1, <1>3, JobsAdded
<1>12. NoAttemptForgotten'
  <2>1. ASSUME NEW a \in DOMAIN attempts
        PROVE  /\ jobs'[a].state = "complete" => attempts'[a].state \in Concluded
               /\ jobs'[a].state = "dead-letter" => <<a, "RECONCILIATION_EXHAUSTED">> \in incidents'
    <3>1. /\ jobs[a].state = "complete" => attempts[a].state \in Concluded
          /\ jobs[a].state = "dead-letter" => <<a, "RECONCILIATION_EXHAUSTED">> \in incidents
      BY <1>1 DEF NoAttemptForgotten
    <3>2. attempts'[a] = attempts[a] \/ attempts'[a].state \in Concluded
      BY <1>3 DEF FollowedBy, Concluded
    <3> QED
      BY <1>3, <3>1, <3>2
  <2>2. jobs'[id].state = "pending"
    BY <1>3 DEF NewJob
  <2> QED
    BY <1>3, <2>1, <2>2 DEF NoAttemptForgotten
<1>13. FinalStep
  BY <1>9 DEF FinalStep, OnChain
<1> QED
  BY <1>6, <1>7, <1>8, <1>10, <1>11, <1>12, <1>13 DEF IInv, Sound

\* registerSubmittedAttempt
LEMMA RegisterSound ==
  ASSUME IInv, RegisterSubmittedAttempt
  PROVE  Sound
<1>1. Types /\ Line /\ ProjectionsAgree /\ ReceiptOnChain
  BY DEF IInv
<1>2. /\ intent.state = "AWAITING_SIGNATURE" /\ Insert(attempts, "root", 0)
      /\ Advance("SUBMITTED", 1) /\ UNCHANGED <<receipt, incidents, holding>>
  BY DEF RegisterSubmittedAttempt
<1>3. attempts \in Seq(Attempt) /\ 0 \in 0 .. MaxAttempts
  BY <1>1, LifecycleAssumption DEF Types
<1>4. \A a \in DOMAIN attempts : ~(attempts[a].lineage = "root" /\ attempts[a].pred = 0)
  BY <1>1, <1>2, <1>3, Inserted
<1>5. attempts = << >>
  <2>1. ASSUME attempts # << >> PROVE FALSE
    <3>1. 1 \in DOMAIN attempts
      BY <1>3, <2>1, EmptySeq
    <3> QED
      BY <1>1, <1>4, <2>1, <3>1 DEF Line
  <2> QED
    BY <2>1
<1>6. receipt = NoReceipt
  BY <1>1, <1>5 DEF ProjectionsAgree
<1>7. IsLast(0)
  BY <1>5 DEF IsLast
<1>8. "SUBMITTED" \in IntentStates \ {"NONE"}
  BY DEF IntentStates
<1>9. \A a \in DOMAIN attempts :
          /\ attempts[a].lineage = attempts[a].lineage /\ attempts[a].pred = attempts[a].pred
          /\ a # 0 => attempts[a] = attempts[a]
  OBVIOUS
<1>10. intent.state # "NONE"
  BY <1>2
<1>11. IF attempts = << >> THEN "root" = "root" ELSE FollowedBy(attempts[0], NewAttempt("root", 0), 0)
  BY <1>5
<1> QED
  BY <1>2, <1>3, <1>6, <1>7, <1>8, <1>9, <1>10, <1>11, InsertSound

\* replaceAttempt
LEMMA ReplaceSound ==
  ASSUME IInv, NEW p \in AttemptIds, ReplaceAttempt(p)
  PROVE  Sound
<1> DEFINE rows == [attempts EXCEPT ![p].state = "REPLACED"]
<1>1. Types /\ Line /\ ProjectionsAgree /\ ReceiptOnChain
  BY DEF IInv
<1>2. /\ p \in DOMAIN attempts /\ attempts[p].state = "SUBMITTED" /\ Insert(rows, "replaces", p)
      /\ Advance(intent.state, 1) /\ UNCHANGED <<receipt, incidents, holding>>
  BY DEF ReplaceAttempt
<1>3. DOMAIN attempts = 1 .. Len(attempts) /\ Len(attempts) \in Nat /\ attempts[p] \in Attempt
      /\ attempts \in Seq(Attempt)
  BY <1>1, <1>2, RowNumbers DEF Types
<1>4. p = Len(attempts)
  BY <1>1, <1>2, LiveIsLast DEF Gone
<1>5. [attempts[p] EXCEPT !.state = "REPLACED"] \in Attempt
  BY <1>3 DEF Attempt, AttemptStates
<1>6. rows \in Seq(Attempt) /\ Len(rows) = Len(attempts)
  BY <1>2, <1>3, <1>5
<1>7. /\ rows[p] = [attempts[p] EXCEPT !.state = "REPLACED"]
      /\ \A a \in DOMAIN attempts : a # p => rows[a] = attempts[a]
  BY <1>2, <1>3
<1>8. rows[p].state = "REPLACED" /\ rows[p].lineage = attempts[p].lineage /\ rows[p].pred = attempts[p].pred
  BY <1>3, <1>7 DEF Attempt
<1> HIDE DEF rows
<1>9. \A a \in DOMAIN attempts :
          /\ rows[a].lineage = attempts[a].lineage /\ rows[a].pred = attempts[a].pred
          /\ a # p => rows[a] = attempts[a]
  BY <1>7, <1>8
<1>10. receipt = NoReceipt
  <2>1. attempts[Len(attempts)].state \notin OnChain
    BY <1>2, <1>4 DEF OnChain
  <2> QED
    BY <1>1, <2>1, ReceiptOfLast
<1>11. p \in 0 .. MaxAttempts /\ IsLast(p)
  BY <1>4, LifecycleAssumption DEF AttemptIds, IsLast
<1>12. attempts # << >> /\ FollowedBy(rows[p], NewAttempt("replaces", p), p)
  BY <1>2, <1>8 DEF FollowedBy, NewAttempt
<1>13. intent.state \in IntentStates \ {"NONE"} /\ intent.state # "NONE"
  BY <1>1, <1>12 DEF Line, Types
<1>14. IF attempts = << >> THEN "replaces" = "root" ELSE FollowedBy(rows[p], NewAttempt("replaces", p), p)
  BY <1>12
<1> HIDE DEF IsLast
<1> QED
  BY <1>2, <1>6, <1>9, <1>10, <1>11, <1>13, <1>14, InsertSound

\* retryAttempt
LEMMA RetrySound ==
  ASSUME IInv, NEW p \in AttemptIds, RetryAttempt(p)
  PROVE  Sound
<1>1. Types /\ Line /\ ProjectionsAgree /\ ReceiptOnChain
  BY DEF IInv
<1>2. /\ p \in DOMAIN attempts /\ attempts[p].state \in {"FAILED", "DROPPED"}
      /\ Insert(attempts, "retry", p)
      /\ Advance("SUBMITTED", 1) /\ UNCHANGED <<receipt, incidents, holding>>
  BY DEF RetryAttempt
<1>3. DOMAIN attempts = 1 .. Len(attempts) /\ Len(attempts) \in Nat /\ attempts \in Seq(Attempt)
  BY <1>1, RowNumbers DEF Types
<1>4. p \in 0 .. MaxAttempts
  BY LifecycleAssumption DEF AttemptIds
<1>5. \A a \in DOMAIN attempts : ~(attempts[a].lineage = "retry" /\ attempts[a].pred = p)
  BY <1>1, <1>2, <1>3, <1>4, Inserted
<1>6. p = Len(attempts)
  <2>1. ASSUME p # Len(attempts) PROVE FALSE
    <3>1. p + 1 \in DOMAIN attempts
      BY <1>2, <1>3, <2>1
    <3>2. FollowedBy(attempts[p], attempts[p + 1], p)
      BY <1>1, <1>2, <2>1 DEF Line
    <3> QED
      BY <1>2, <1>5, <3>1, <3>2 DEF FollowedBy
  <2> QED
    BY <2>1
<1>7. receipt = NoReceipt
  <2>1. attempts[Len(attempts)].state \notin OnChain
    BY <1>2, <1>6 DEF OnChain
  <2> QED
    BY <1>1, <2>1, ReceiptOfLast
<1>8. IsLast(p)
  BY <1>6 DEF IsLast
<1>9. attempts # << >> /\ FollowedBy(attempts[p], NewAttempt("retry", p), p)
  BY <1>2 DEF FollowedBy, NewAttempt
<1>10. intent.state # "NONE" /\ "SUBMITTED" \in IntentStates \ {"NONE"}
  BY <1>1, <1>9 DEF Line, IntentStates
<1>11. IF attempts = << >> THEN "retry" = "root" ELSE FollowedBy(attempts[p], NewAttempt("retry", p), p)
  BY <1>9
<1>12. \A a \in DOMAIN attempts :
          /\ attempts[a].lineage = attempts[a].lineage /\ attempts[a].pred = attempts[a].pred
          /\ a # p => attempts[a] = attempts[a]
  OBVIOUS
<1> QED
  BY <1>2, <1>3, <1>4, <1>7, <1>8, <1>10, <1>11, <1>12, InsertSound

\* A job that changes in place.
LEMMA JobMoves ==
  ASSUME Types, NEW a \in DOMAIN jobs, NEW row \in JobRow, jobs' = [jobs EXCEPT ![a] = row]
  PROVE  /\ jobs' \in Seq(JobRow) /\ Len(jobs') = Len(jobs) /\ DOMAIN jobs' = DOMAIN jobs
         /\ jobs'[a] = row /\ \A b \in DOMAIN jobs : b # a => jobs'[b] = jobs[b]
<1>1. jobs \in Seq(JobRow) /\ DOMAIN jobs = 1 .. Len(jobs) /\ Len(jobs) \in Nat
  BY DEF Types
<1> QED
  BY <1>1

\* Attempts, receipt, intent and events stay.
LEMMA RowsStay ==
  ASSUME Types, Shaped, Line, ProjectionsAgree, ReceiptOnChain,
         UNCHANGED <<intent, attempts, receipt, events>>
  PROVE  Shaped' /\ Line' /\ ProjectionsAgree' /\ ReceiptOnChain' /\ FinalStep
<1>1. /\ intent' \in [state : IntentStates, revision : Nat]
      /\ events' = IF intent'.state = "NONE" THEN 0 ELSE intent'.revision + 1
  BY DEF Types, ProjectionsAgree
<1> QED
  BY <1>1, IntentMoves

\* A worker that holds the lease settles its job and lets go of the claim.
LEMMA Settled ==
  ASSUME Types, ClaimsSound, NEW w \in Workers, HoldsLease(w), NEW row \in JobRow,
         row.generation = jobs[holding[w].attempt].generation,
         jobs' = [jobs EXCEPT ![holding[w].attempt] = row],
         holding' = [holding EXCEPT ![w] = NoClaim]
  PROVE  /\ holding[w].attempt \in DOMAIN jobs
         /\ jobs' \in Seq(JobRow) /\ Len(jobs') = Len(jobs) /\ DOMAIN jobs' = DOMAIN jobs
         /\ jobs'[holding[w].attempt] = row
         /\ \A b \in DOMAIN jobs : b # holding[w].attempt => jobs'[b] = jobs[b]
         /\ holding' \in [Workers -> [attempt : Nat, generation : Nat]]
         /\ ClaimsSound' /\ LeaseStep
<1> DEFINE a == holding[w].attempt
<1>1. holding[w] # NoClaim /\ a \in DOMAIN jobs
  BY DEF HoldsLease, ClaimsSound
<1>2. /\ jobs' \in Seq(JobRow) /\ Len(jobs') = Len(jobs) /\ DOMAIN jobs' = DOMAIN jobs
      /\ jobs'[a] = row /\ \A b \in DOMAIN jobs : b # a => jobs'[b] = jobs[b]
  BY <1>1, JobMoves
<1>3. NoClaim \in [attempt : Nat, generation : Nat]
  BY DEF NoClaim
<1>4. /\ holding' \in [Workers -> [attempt : Nat, generation : Nat]]
      /\ holding'[w] = NoClaim /\ \A v \in Workers : v # w => holding'[v] = holding[v]
  BY <1>3 DEF Types
<1>5. \A b \in DOMAIN jobs : jobs'[b].generation = jobs[b].generation
  BY <1>2
<1>6. ClaimsSound'
  BY <1>2, <1>4, <1>5 DEF ClaimsSound
<1>7. LeaseStep
  <2> SUFFICES ASSUME NEW v \in Workers, HoldsLease(v), holding'[v] = holding[v]
               PROVE  LET b == holding[v].attempt IN jobs'[b] = [jobs[b] EXCEPT !.live = jobs'[b].live]
    BY DEF LeaseStep
  <2>1. holding[v] # NoClaim /\ v # w
    BY <1>4 DEF HoldsLease
  <2>2. holding[v].attempt # a
    <3>1. ASSUME holding[v].attempt = a PROVE FALSE
      <4>1. holding[v].generation = holding[w].generation
        BY <3>1 DEF HoldsLease
      <4>2. holding[v] = holding[w]
        <5>1. holding[v] \in [attempt : Nat, generation : Nat]
              /\ holding[w] \in [attempt : Nat, generation : Nat]
          BY DEF Types
        <5> QED
          BY <3>1, <4>1, <5>1
      <4> QED
        BY <1>1, <2>1, <4>2 DEF ClaimsSound
    <3> QED
      BY <3>1
  <2>3. holding[v].attempt \in DOMAIN jobs
    BY <2>1 DEF ClaimsSound
  <2>4. jobs'[holding[v].attempt] = jobs[holding[v].attempt] /\ jobs[holding[v].attempt] \in JobRow
    BY <1>2, <2>2, <2>3, RowNumbers
  <2> QED
    BY <2>4 DEF JobRow
<1> QED
  BY <1>1, <1>2, <1>4, <1>6, <1>7

\* claimReconciliation: a claim of nobody's lease, younger than every other.
LEMMA ClaimSound ==
  ASSUME IInv, NEW w \in Workers, NEW a \in AttemptIds, ClaimReconciliation(w, a)
  PROVE  Sound
<1> DEFINE claim == [attempt |-> a, generation |-> jobs[a].generation + 1]
<1>1. Types /\ Shaped /\ Line /\ ProjectionsAgree /\ ReceiptOnChain /\ ClaimsSound /\ NoAttemptForgotten
  BY DEF IInv
<1>2. /\ a \in DOMAIN jobs /\ holding[w] = NoClaim
      /\ jobs[a].state = "pending" \/ (jobs[a].state = "processing" /\ ~jobs[a].live)
      /\ holding' = [holding EXCEPT ![w] = claim]
      /\ UNCHANGED <<intent, attempts, receipt, incidents, events>>
  BY DEF ClaimReconciliation
<1>3. jobs[a] \in JobRow /\ a \in Nat /\ DOMAIN jobs = DOMAIN attempts
  <2>1. DOMAIN attempts = 1 .. Len(attempts) /\ DOMAIN jobs = DOMAIN attempts /\ jobs[a] \in JobRow
    BY <1>1, <1>2, RowNumbers
  <2> QED
    BY <1>2, <2>1
<1> PICK row : row = jobs'[a]
  OBVIOUS
<1>0. jobs' = [jobs EXCEPT ![a] = row]
  <2>1. jobs' = [jobs EXCEPT ![a] = jobs'[a]]
    BY <1>2 DEF ClaimReconciliation
  <2> QED
    BY <2>1
<1>4. row \in JobRow /\ row.generation = jobs[a].generation + 1 /\ row.state = "processing"
      /\ jobs[a].generation \in Nat
  <2>1. row.generation = jobs[a].generation + 1
    BY <1>2, <1>3 DEF ClaimReconciliation, JobRow
  <2>2. row.state = "processing"
    BY <1>2, <1>3 DEF ClaimReconciliation, JobRow
  <2>3. row.live = TRUE
    BY <1>2, <1>3 DEF ClaimReconciliation, JobRow
  <2>4. row.failures = jobs[a].failures
    BY <1>2, <1>3 DEF ClaimReconciliation, JobRow
  <2>5. row = [state |-> row.state, generation |-> row.generation, live |-> row.live,
               failures |-> row.failures]
    BY <1>2, <1>3 DEF ClaimReconciliation, JobRow
  <2>6. jobs[a].generation + 1 \in Nat /\ jobs[a].generation \in Nat /\ jobs[a].failures \in Nat
    BY <1>3 DEF JobRow
  <2> QED
    BY <2>1, <2>2, <2>3, <2>4, <2>5, <2>6 DEF JobRow
<1>5. /\ jobs' \in Seq(JobRow) /\ Len(jobs') = Len(jobs) /\ DOMAIN jobs' = DOMAIN jobs
      /\ jobs'[a] = row /\ \A b \in DOMAIN jobs : b # a => jobs'[b] = jobs[b]
  BY <1>1, <1>2, <1>4, <1>0, JobMoves
<1>6. claim \in [attempt : Nat, generation : Nat] /\ claim.attempt = a
      /\ claim.generation = jobs[a].generation + 1
  BY <1>3, <1>4
<1> HIDE DEF claim
<1>7. /\ holding' \in [Workers -> [attempt : Nat, generation : Nat]]
      /\ holding'[w] = claim /\ \A v \in Workers : v # w => holding'[v] = holding[v]
  BY <1>1, <1>2, <1>6 DEF Types
<1>8. \A v \in Workers : holding[v] # NoClaim =>
          /\ holding[v] # claim /\ holding[v].attempt \in DOMAIN jobs
          /\ holding[v].generation <= jobs'[holding[v].attempt].generation
  <2> SUFFICES ASSUME NEW v \in Workers, holding[v] # NoClaim
               PROVE  /\ holding[v] # claim /\ holding[v].attempt \in DOMAIN jobs
                      /\ holding[v].generation <= jobs'[holding[v].attempt].generation
    OBVIOUS
  <2>1. /\ holding[v].attempt \in DOMAIN jobs
        /\ holding[v].generation <= jobs[holding[v].attempt].generation
    BY <1>1 DEF ClaimsSound
  <2>2. holding[v].generation \in Nat
    BY <1>1 DEF Types
  <2>3. CASE holding[v].attempt = a
    BY <1>4, <1>5, <1>6, <2>1, <2>2, <2>3
  <2>4. CASE holding[v].attempt # a
    BY <1>5, <1>6, <2>1, <2>4
  <2> QED
    BY <2>3, <2>4
<1>9. ClaimsSound'
  <2>1. claim.attempt \in DOMAIN jobs' /\ claim.generation <= jobs'[claim.attempt].generation
    BY <1>2, <1>4, <1>5, <1>6
  <2>2. ASSUME NEW v \in Workers, NEW u \in Workers, holding'[v] = holding'[u], holding'[v] # NoClaim
        PROVE  v = u
    BY <1>1, <1>7, <1>8, <2>2 DEF ClaimsSound
  <2>3. ASSUME NEW v \in Workers, holding'[v] # NoClaim
        PROVE  /\ holding'[v].attempt \in DOMAIN jobs'
               /\ holding'[v].generation <= jobs'[holding'[v].attempt].generation
    <3>1. CASE v = w
      BY <1>7, <2>1, <3>1
    <3>2. CASE v # w
      BY <1>5, <1>7, <1>8, <2>3, <3>2
    <3> QED
      BY <3>1, <3>2
  <2> QED
    BY <2>2, <2>3 DEF ClaimsSound, NoClaim
<1>10. LeaseStep
  <2> SUFFICES ASSUME NEW v \in Workers, HoldsLease(v), holding'[v] = holding[v]
               PROVE  LET b == holding[v].attempt IN jobs'[b] = [jobs[b] EXCEPT !.live = jobs'[b].live]
    BY DEF LeaseStep
  <2>1. holding[v].attempt # a /\ holding[v].attempt \in DOMAIN jobs
    BY <1>1, <1>2 DEF HoldsLease, ClaimsSound
  <2>2. jobs'[holding[v].attempt] = jobs[holding[v].attempt] /\ jobs[holding[v].attempt] \in JobRow
    BY <1>1, <1>5, <2>1, RowNumbers
  <2> QED
    BY <2>2 DEF JobRow
<1>11. Shaped' /\ Line' /\ ProjectionsAgree' /\ ReceiptOnChain' /\ FinalStep
  BY <1>1, <1>2, RowsStay
<1>12. Types'
  BY <1>1, <1>2, <1>5, <1>7 DEF Types
<1>13. NoAttemptForgotten'
  BY <1>1, <1>2, <1>3, <1>4, <1>5 DEF NoAttemptForgotten
<1> QED
  BY <1>9, <1>10, <1>11, <1>12, <1>13 DEF IInv, Sound

\* One job and nothing else.
LEMMA JobAlone ==
  ASSUME IInv, NEW a \in DOMAIN jobs, NEW row \in JobRow, jobs' = [jobs EXCEPT ![a] = row],
         row.generation = jobs[a].generation,
         row.state \in {"pending", "processing"},
         jobs[a].state = "complete" \/ row = [jobs[a] EXCEPT !.live = row.live],
         UNCHANGED <<intent, attempts, receipt, incidents, events, holding>>
  PROVE  Sound
<1>1. Types /\ Shaped /\ Line /\ ProjectionsAgree /\ ReceiptOnChain /\ ClaimsSound /\ NoAttemptForgotten
  BY DEF IInv
<1>2. /\ jobs' \in Seq(JobRow) /\ Len(jobs') = Len(jobs) /\ DOMAIN jobs' = DOMAIN jobs
      /\ jobs'[a] = row /\ \A b \in DOMAIN jobs : b # a => jobs'[b] = jobs[b]
  BY <1>1, JobMoves
<1>3. Shaped' /\ Line' /\ ProjectionsAgree' /\ ReceiptOnChain' /\ FinalStep
  BY <1>1, RowsStay
<1>4. Types'
  BY <1>1, <1>2 DEF Types
<1>5. ClaimsSound'
  <2>1. \A b \in DOMAIN jobs : jobs'[b].generation = jobs[b].generation
    BY <1>2
  <2> QED
    BY <1>1, <1>2, <2>1 DEF ClaimsSound
<1>6. NoAttemptForgotten'
  <2>1. DOMAIN jobs = DOMAIN attempts
    BY <1>1, RowNumbers
  <2> QED
    BY <1>1, <1>2, <2>1 DEF NoAttemptForgotten
<1>7. LeaseStep
  <2> SUFFICES ASSUME NEW v \in Workers, HoldsLease(v)
               PROVE  LET b == holding[v].attempt IN jobs'[b] = [jobs[b] EXCEPT !.live = jobs'[b].live]
    BY DEF LeaseStep
  <2>1. holding[v].attempt \in DOMAIN jobs /\ jobs[holding[v].attempt].state = "processing"
    BY <1>1 DEF HoldsLease, ClaimsSound
  <2>2. CASE holding[v].attempt = a
    BY <1>2, <2>1, <2>2
  <2>3. CASE holding[v].attempt # a
    <3>1. jobs'[holding[v].attempt] = jobs[holding[v].attempt] /\ jobs[holding[v].attempt] \in JobRow
      BY <1>1, <1>2, <2>1, <2>3, RowNumbers
    <3> QED
      BY <3>1 DEF JobRow
  <2> QED
    BY <2>2, <2>3
<1> QED
  BY <1>3, <1>4, <1>5, <1>6, <1>7 DEF IInv, Sound

\* scheduleReconciliation
LEMMA ScheduleSound ==
  ASSUME IInv, NEW a \in AttemptIds, ScheduleReconciliation(a)
  PROVE  Sound
<1>1. /\ a \in DOMAIN jobs /\ jobs[a].state = "complete"
      /\ UNCHANGED <<intent, attempts, receipt, incidents, events, holding>>
  BY DEF ScheduleReconciliation
<1>2. jobs[a] \in JobRow
  BY <1>1, RowNumbers DEF IInv
<1> PICK row : row = [jobs[a] EXCEPT !.state = "pending"]
  OBVIOUS
<1>3. jobs' = [jobs EXCEPT ![a] = row]
  BY DEF ScheduleReconciliation
<1>4. row \in JobRow /\ row.generation = jobs[a].generation /\ row.state = "pending"
  BY <1>2 DEF JobRow
<1> QED
  BY <1>1, <1>3, <1>4, JobAlone

\* The end of a lease.
LEMMA LeaseEndsSound ==
  ASSUME IInv, NEW a \in AttemptIds, LeaseEnds(a)
  PROVE  Sound
<1>1. /\ a \in DOMAIN jobs /\ jobs[a].state = "processing"
      /\ UNCHANGED <<intent, attempts, receipt, incidents, events, holding>>
  BY DEF LeaseEnds
<1>2. jobs[a] \in JobRow
  BY <1>1, RowNumbers DEF IInv
<1> PICK row : row = [jobs[a] EXCEPT !.live = FALSE]
  OBVIOUS
<1>3. jobs' = [jobs EXCEPT ![a] = row]
  BY DEF LeaseEnds
<1>4. row \in JobRow /\ row.generation = jobs[a].generation /\ row.state = "processing"
  BY <1>1, <1>2 DEF JobRow
<1>5. row = [jobs[a] EXCEPT !.live = row.live]
  BY <1>2 DEF JobRow
<1> QED
  BY <1>1, <1>3, <1>4, <1>5, JobAlone

\* A worker that dies or has lost its claim.
LEMMA DropSound ==
  ASSUME IInv, NEW w \in Workers, DropClaim(w)
  PROVE  Sound
<1>1. Types /\ Shaped /\ Line /\ ProjectionsAgree /\ ReceiptOnChain /\ ClaimsSound /\ NoAttemptForgotten
  BY DEF IInv
<1>2. /\ holding' = [holding EXCEPT ![w] = NoClaim]
      /\ UNCHANGED <<intent, attempts, receipt, jobs, incidents, events>>
  BY DEF DropClaim
<1>3. Shaped' /\ Line' /\ ProjectionsAgree' /\ ReceiptOnChain' /\ FinalStep
  BY <1>1, <1>2, RowsStay
<1>4. NoClaim \in [attempt : Nat, generation : Nat]
  BY DEF NoClaim
<1>5. /\ holding' \in [Workers -> [attempt : Nat, generation : Nat]]
      /\ holding'[w] = NoClaim /\ \A v \in Workers : v # w => holding'[v] = holding[v]
  BY <1>1, <1>2, <1>4 DEF Types
<1>6. Types' /\ NoAttemptForgotten'
  BY <1>1, <1>2, <1>5 DEF Types, NoAttemptForgotten
<1>7. ClaimsSound'
  BY <1>1, <1>2, <1>5 DEF ClaimsSound
<1>8. LeaseStep
  <2>1. ASSUME NEW a \in DOMAIN jobs PROVE jobs'[a] = [jobs[a] EXCEPT !.live = jobs'[a].live]
    <3>1. jobs[a] \in JobRow /\ jobs' = jobs
      BY <1>1, <1>2, RowNumbers
    <3> QED
      BY <3>1 DEF JobRow
  <2>2. ASSUME NEW v \in Workers, HoldsLease(v) PROVE holding[v].attempt \in DOMAIN jobs
    BY <1>1, <2>2 DEF HoldsLease, ClaimsSound
  <2> QED
    BY <2>1, <2>2 DEF LeaseStep
<1> QED
  BY <1>3, <1>6, <1>7, <1>8 DEF IInv, Sound

\* The parts of a step that settles a job are sound, and so is the whole.
LEMMA SettleSound ==
  ASSUME IInv, NEW w \in Workers, HoldsLease(w), NEW row \in JobRow,
         row.generation = jobs[holding[w].attempt].generation,
         jobs' = [jobs EXCEPT ![holding[w].attempt] = row],
         holding' = [holding EXCEPT ![w] = NoClaim],
         attempts' \in Seq(Attempt), Len(attempts') = Len(attempts),
         \A b \in DOMAIN attempts : b # holding[w].attempt => attempts'[b] = attempts[b],
         intent' \in [state : IntentStates, revision : Nat], events' \in Nat,
         Shaped', Line', ProjectionsAgree', ReceiptOnChain', FinalStep,
         incidents \subseteq incidents',
         row.state = "complete" => attempts'[holding[w].attempt].state \in Concluded,
         row.state = "dead-letter" => <<holding[w].attempt, "RECONCILIATION_EXHAUSTED">> \in incidents'
  PROVE  Sound
<1>1. Types /\ ClaimsSound /\ NoAttemptForgotten
  BY DEF IInv
<1>2. /\ jobs' \in Seq(JobRow) /\ Len(jobs') = Len(jobs) /\ DOMAIN jobs' = DOMAIN jobs
      /\ jobs'[holding[w].attempt] = row
      /\ \A b \in DOMAIN jobs : b # holding[w].attempt => jobs'[b] = jobs[b]
      /\ holding' \in [Workers -> [attempt : Nat, generation : Nat]]
      /\ ClaimsSound' /\ LeaseStep
  BY <1>1, Settled
<1>3. Types'
  BY <1>1, <1>2 DEF Types
<1>4. DOMAIN jobs = DOMAIN attempts /\ DOMAIN attempts' = DOMAIN attempts
  <2>1. DOMAIN attempts' = 1 .. Len(attempts')
    OBVIOUS
  <2> QED
    BY <1>1, <2>1, RowNumbers
<1>5. NoAttemptForgotten'
  BY <1>1, <1>2, <1>4 DEF NoAttemptForgotten
<1> QED
  BY <1>2, <1>3, <1>5 DEF IInv, Sound

\* The intent's part of a step that leaves it, or opens an incident.
LEMMA IncidentOpened ==
  ASSUME Types, ProjectionsAgree, NEW a, NEW kind, intent.state # "NONE",
         \/ UNCHANGED <<intent, events, incidents>>
         \/ RecordIncident(a, kind)
  PROVE  /\ intent' \in [state : IntentStates, revision : Nat] /\ intent'.state = intent.state
         /\ events' = IF intent'.state = "NONE" THEN 0 ELSE intent'.revision + 1
         /\ events' \in Nat
         /\ incidents \subseteq incidents'
<1>1. CASE UNCHANGED <<intent, events, incidents>>
  BY <1>1 DEF Types, ProjectionsAgree
<1>2. CASE RecordIncident(a, kind)
  <2>1. /\ intent' = [state |-> intent.state, revision |-> intent.revision + 1]
        /\ events' = events + 1 /\ incidents \subseteq incidents'
    BY <1>2 DEF RecordIncident, Advance, WriteEvents
  <2>2. intent \in [state : IntentStates, revision : Nat] /\ events = intent.revision + 1
    BY DEF Types, ProjectionsAgree
  <2>3. intent' \in [state : IntentStates, revision : Nat] /\ intent'.state = intent.state
        /\ intent'.revision = intent.revision + 1
    BY <2>1, <2>2
  <2> QED
    BY <2>1, <2>2, <2>3
<1> QED
  BY <1>1, <1>2

\* Who holds a lease holds the job of an attempt.
LEMMA HolderSound ==
  ASSUME IInv, NEW w \in Workers, HoldsLease(w)
  PROVE  /\ holding[w].attempt \in DOMAIN attempts /\ holding[w].attempt \in DOMAIN jobs
         /\ jobs[holding[w].attempt] \in JobRow /\ attempts[holding[w].attempt] \in Attempt
         /\ intent.state # "NONE"
<1>1. holding[w].attempt \in DOMAIN jobs
  BY DEF IInv, HoldsLease, ClaimsSound
<1>2. holding[w].attempt \in DOMAIN attempts /\ jobs[holding[w].attempt] \in JobRow
      /\ attempts[holding[w].attempt] \in Attempt
  BY <1>1, RowNumbers DEF IInv
<1>3. attempts # << >>
  BY <1>2
<1> QED
  BY <1>1, <1>2, <1>3 DEF IInv, Line

\* recordReconciliationFailure
LEMMA FailureSound ==
  ASSUME IInv, NEW w \in Workers, RecordReconciliationFailure(w)
  PROVE  Sound
<1>1. Types /\ Shaped /\ Line /\ ProjectionsAgree /\ ReceiptOnChain /\ ClaimsSound /\ NoAttemptForgotten
  BY DEF IInv
<1> DEFINE at == holding[w].attempt
<1>2. HoldsLease(w) /\ UNCHANGED <<attempts, receipt>>
  BY DEF RecordReconciliationFailure
<1>3. /\ at \in DOMAIN attempts /\ at \in DOMAIN jobs /\ jobs[at] \in JobRow /\ intent.state # "NONE"
  BY <1>2, HolderSound
<1> PICK a : a = holding[w].attempt
  OBVIOUS
<1> PICK state : state = IF jobs[a].failures + 1 >= MaxFailures THEN "dead-letter" ELSE "pending"
  OBVIOUS
<1>4. /\ jobs' = [jobs EXCEPT ![a] =
                      [@ EXCEPT !.state = state, !.live = FALSE, !.failures = jobs[a].failures + 1]]
      /\ holding' = [holding EXCEPT ![w] = NoClaim]
      /\ IF state = "dead-letter" THEN RecordIncident(a, "RECONCILIATION_EXHAUSTED")
                                  ELSE UNCHANGED <<incidents, intent, events>>
  BY DEF RecordReconciliationFailure
<1> PICK row : row = jobs'[a]
  OBVIOUS
<1>5. jobs' = [jobs EXCEPT ![a] = row]
  <2>1. jobs' = [jobs EXCEPT ![a] = jobs'[a]]
    BY <1>3, <1>4
  <2> QED
    BY <2>1
<1>6. row.generation = jobs[a].generation
  BY <1>3, <1>4 DEF JobRow
<1>7. row.state = state /\ state \in {"dead-letter", "pending"}
  BY <1>3, <1>4 DEF JobRow
<1>8. row \in JobRow
  <2>1. jobs[a].failures + 1 \in Nat
    BY <1>3 DEF JobRow
  <2> QED
    BY <1>3, <1>4, <2>1 DEF JobRow
<1>9. /\ intent' \in [state : IntentStates, revision : Nat] /\ intent'.state = intent.state
      /\ events' = IF intent'.state = "NONE" THEN 0 ELSE intent'.revision + 1
      /\ events' \in Nat
      /\ incidents \subseteq incidents'
  BY <1>1, <1>3, <1>4, IncidentOpened
<1>10. Shaped' /\ Line' /\ ProjectionsAgree' /\ ReceiptOnChain' /\ FinalStep
  BY <1>1, <1>2, <1>9, IntentMoves
<1>11. row.state = "dead-letter" => <<a, "RECONCILIATION_EXHAUSTED">> \in incidents'
  BY <1>4, <1>7 DEF RecordIncident
<1>12. attempts' \in Seq(Attempt) /\ Len(attempts') = Len(attempts)
  BY <1>1, <1>2 DEF Types
<1>13. row.state # "complete"
  BY <1>7
<1>14. \A b \in DOMAIN attempts : b # holding[w].attempt => attempts'[b] = attempts[b]
  BY <1>2
<1>15. HoldsLease(w) /\ holding' = [holding EXCEPT ![w] = NoClaim]
  BY <1>2, <1>4
<1>16. /\ jobs' = [jobs EXCEPT ![holding[w].attempt] = row]
       /\ row.generation = jobs[holding[w].attempt].generation
       /\ row.state = "complete" => attempts'[holding[w].attempt].state \in Concluded
       /\ row.state = "dead-letter" =>
              <<holding[w].attempt, "RECONCILIATION_EXHAUSTED">> \in incidents'
  BY <1>5, <1>6, <1>11, <1>13
<1> QED
  BY <1>8, <1>9, <1>10, <1>12, <1>14, <1>15, <1>16, SettleSound

\* expireLockedIntent and markAwaitingSignature
LEMMA ReviewedSound ==
  ASSUME IInv, Expire \/ MarkAwaitingSignature
  PROVE  Sound
<1>1. CASE Expire
  BY <1>1, IntentAlone DEF Expire, IntentStates, OnChain
<1>2. CASE MarkAwaitingSignature
  BY <1>2, IntentAlone DEF MarkAwaitingSignature, IntentStates, OnChain
<1> QED
  BY <1>1, <1>2

\* A row that keeps its state and its block, and does not lose confirmations.
LEMMA RowQuiet ==
  ASSUME Types, Shaped, Line, ProjectionsAgree, ReceiptOnChain,
         NEW a \in DOMAIN attempts, NEW row \in Attempt, attempts' = [attempts EXCEPT ![a] = row],
         row.lineage = attempts[a].lineage, row.pred = attempts[a].pred,
         row.state = attempts[a].state, row.canon = attempts[a].canon, ShapeAdmits(row),
         row.state = "FINALIZED" => row.confirmations >= attempts[a].confirmations,
         receipt' = receipt,
         intent' \in [state : IntentStates, revision : Nat], intent'.state = intent.state,
         events' = IF intent'.state = "NONE" THEN 0 ELSE intent'.revision + 1
  PROVE  /\ Shaped' /\ Line' /\ ProjectionsAgree' /\ ReceiptOnChain' /\ FinalStep
         /\ attempts' \in Seq(Attempt) /\ Len(attempts') = Len(attempts)
         /\ \A b \in DOMAIN attempts : b # a => attempts'[b] = attempts[b]
         /\ attempts'[a] = row
<1>1. intent'.state # "NONE"
  <2>1. attempts # << >>
    OBVIOUS
  <2> QED
    BY <2>1 DEF Line
<1>2. /\ Line' /\ attempts' \in Seq(Attempt) /\ Len(attempts') = Len(attempts)
      /\ DOMAIN attempts' = DOMAIN attempts /\ attempts'[a] = row
      /\ \A b \in DOMAIN attempts : b # a => attempts'[b] = attempts[b]
  BY <1>1, LineKept
<1>3. \A b \in DOMAIN attempts : /\ attempts'[b].state = attempts[b].state
                                 /\ attempts'[b].canon = attempts[b].canon
  BY <1>2
<1>4. Shaped'
  BY <1>2 DEF Shaped
<1>5. ProjectionsAgree'
  <2>1. \A b \in DOMAIN attempts' : attempts'[b].state \in {"INCLUDED", "CONFIRMED", "FINALIZED", "REORGED"} =>
            /\ receipt' = [attempt |-> b, state |-> attempts'[b].state, canon |-> attempts'[b].canon]
            /\ intent'.state = attempts'[b].state
    BY <1>2, <1>3 DEF ProjectionsAgree
  <2>2. receipt' # NoReceipt => /\ receipt'.attempt \in DOMAIN attempts'
                                /\ receipt'.state = attempts'[receipt'.attempt].state
    BY <1>2, <1>3 DEF ProjectionsAgree
  <2> QED
    BY <2>1, <2>2 DEF ProjectionsAgree
<1>6. ReceiptOnChain'
  BY DEF ReceiptOnChain
<1>7. FinalStep
  <2> SUFFICES ASSUME NEW b \in DOMAIN attempts, attempts[b].state = "FINALIZED"
               PROVE  /\ attempts'[b].confirmations >= attempts[b].confirmations
                      /\ intent'.state = "FINALIZED"
    BY <1>3 DEF FinalStep
  <2>1. intent.state = "FINALIZED"
    BY DEF ProjectionsAgree
  <2>2. attempts[b].confirmations \in Nat
    <3>1. attempts[b].confirmations \in 0 .. MaxLevel
      BY RowNumbers DEF Attempt
    <3> QED
      BY <3>1, ObservationAssumption
  <2>3. CASE b = a
    BY <1>2, <2>1, <2>3
  <2>4. CASE b # a
    BY <1>2, <2>1, <2>2, <2>4
  <2> QED
    BY <2>3, <2>4
<1> QED
  BY <1>2, <1>4, <1>5, <1>6, <1>7

\* finishSuccessfulClaim settles the job under the same claim number.
LEMMA Finished ==
  ASSUME NEW w \in Workers, NEW complete \in BOOLEAN, FinishSuccessfulClaim(w, complete),
         holding[w].attempt \in DOMAIN jobs, jobs[holding[w].attempt] \in JobRow
  PROVE  \E row \in JobRow :
             /\ row.generation = jobs[holding[w].attempt].generation
             /\ jobs' = [jobs EXCEPT ![holding[w].attempt] = row]
             /\ row.state = IF complete THEN "complete" ELSE "pending"
             /\ holding' = [holding EXCEPT ![w] = NoClaim]
<1> PICK a : a = holding[w].attempt
  OBVIOUS
<1> PICK state \in {"complete", "pending"} : state = IF complete THEN "complete" ELSE "pending"
  OBVIOUS
<1>1. /\ jobs' = [jobs EXCEPT ![a] = [@ EXCEPT !.state = state, !.live = FALSE, !.failures = 0]]
      /\ holding' = [holding EXCEPT ![w] = NoClaim]
  BY DEF FinishSuccessfulClaim
<1> PICK row : row = jobs'[a]
  OBVIOUS
<1>2. jobs' = [jobs EXCEPT ![a] = row]
  <2>1. jobs' = [jobs EXCEPT ![a] = jobs'[a]]
    BY <1>1
  <2> QED
    BY <2>1
<1>3. row.generation = jobs[a].generation
  BY <1>1 DEF JobRow
<1>4. row.state = state
  BY <1>1 DEF JobRow
<1>5. row \in JobRow
  BY <1>1 DEF JobRow
<1> QED
  BY <1>1, <1>2, <1>3, <1>4, <1>5

\* A report settles its job: what is left to show is the attempt, the receipt and the intent.
LEMMA FinishSound ==
  ASSUME IInv, NEW w \in Workers, HoldsLease(w), NEW complete \in BOOLEAN,
         FinishSuccessfulClaim(w, complete),
         complete => attempts'[holding[w].attempt].state \in Concluded,
         attempts' \in Seq(Attempt), Len(attempts') = Len(attempts),
         \A b \in DOMAIN attempts : b # holding[w].attempt => attempts'[b] = attempts[b],
         intent' \in [state : IntentStates, revision : Nat], events' \in Nat,
         Shaped', Line', ProjectionsAgree', ReceiptOnChain', FinalStep,
         incidents \subseteq incidents'
  PROVE  Sound
<1>1. holding[w].attempt \in DOMAIN jobs /\ jobs[holding[w].attempt] \in JobRow
  BY HolderSound
<1>2. PICK row \in JobRow :
          /\ row.generation = jobs[holding[w].attempt].generation
          /\ jobs' = [jobs EXCEPT ![holding[w].attempt] = row]
          /\ row.state = IF complete THEN "complete" ELSE "pending"
          /\ holding' = [holding EXCEPT ![w] = NoClaim]
  BY <1>1, Finished
<1>3. /\ row.state = "complete" => attempts'[holding[w].attempt].state \in Concluded
      /\ row.state # "dead-letter"
  BY <1>2
<1> QED
  BY <1>2, <1>3, SettleSound

\* A report that changes neither attempt nor receipt.
LEMMA NothingSound ==
  ASSUME IInv, NEW w \in Workers, HoldsLease(w), NEW complete \in BOOLEAN,
         FinishSuccessfulClaim(w, complete),
         complete => attempts[holding[w].attempt].state = "FINALIZED",
         NEW row \in Attempt, NEW kind,
         row.lineage = attempts[holding[w].attempt].lineage,
         row.pred = attempts[holding[w].attempt].pred,
         row.state = attempts[holding[w].attempt].state,
         row.canon = attempts[holding[w].attempt].canon,
         row.head = attempts[holding[w].attempt].head,
         row.confirmations = attempts[holding[w].attempt].confirmations,
         attempts' = [attempts EXCEPT ![holding[w].attempt] = row], receipt' = receipt,
         \/ UNCHANGED <<intent, events, incidents>>
         \/ RecordIncident(holding[w].attempt, kind)
  PROVE  Sound
<1>1. Types /\ Shaped /\ Line /\ ProjectionsAgree /\ ReceiptOnChain
  BY DEF IInv
<1>2. holding[w].attempt \in DOMAIN attempts /\ intent.state # "NONE"
      /\ attempts[holding[w].attempt] \in Attempt
  BY HolderSound
<1> PICK a : a = holding[w].attempt
  OBVIOUS
<1>3. ShapeAdmits(row)
  <2>1. ShapeAdmits(attempts[a])
    BY <1>1, <1>2 DEF Shaped
  <2> QED
    BY <2>1 DEF ShapeAdmits
<1>4. row.confirmations >= attempts[a].confirmations
  <2>1. attempts[a].confirmations \in 0 .. MaxLevel
    BY <1>2 DEF Attempt
  <2> QED
    BY <2>1, ObservationAssumption
<1>5. /\ intent' \in [state : IntentStates, revision : Nat] /\ intent'.state = intent.state
      /\ events' = IF intent'.state = "NONE" THEN 0 ELSE intent'.revision + 1
      /\ events' \in Nat
      /\ incidents \subseteq incidents'
  BY <1>1, <1>2, IncidentOpened
<1>6. /\ Shaped' /\ Line' /\ ProjectionsAgree' /\ ReceiptOnChain' /\ FinalStep
      /\ attempts' \in Seq(Attempt) /\ Len(attempts') = Len(attempts)
      /\ \A b \in DOMAIN attempts : b # a => attempts'[b] = attempts[b]
      /\ attempts'[a] = row
  BY <1>1, <1>2, <1>3, <1>4, <1>5, RowQuiet
<1>7. complete => attempts'[a].state \in Concluded
  BY <1>6 DEF Concluded
<1> QED
  BY <1>5, <1>6, <1>7, FinishSound

\* Without a change of the row.
LEMMA UnchangedSound ==
  ASSUME IInv, NEW w \in Workers, HoldsLease(w), NEW complete \in BOOLEAN,
         FinishSuccessfulClaim(w, complete),
         complete => attempts[holding[w].attempt].state = "FINALIZED",
         NEW kind,
         UNCHANGED <<attempts, receipt>>,
         \/ UNCHANGED <<intent, events, incidents>>
         \/ RecordIncident(holding[w].attempt, kind)
  PROVE  Sound
<1>1. holding[w].attempt \in DOMAIN attempts /\ attempts[holding[w].attempt] \in Attempt
  BY HolderSound
<1>2. attempts' = [attempts EXCEPT ![holding[w].attempt] = attempts[holding[w].attempt]]
  <2>1. attempts \in Seq(Attempt)
    BY DEF IInv, Types
  <2> QED
    BY <1>1, <2>1
<1> QED
  BY <1>1, <1>2, NothingSound

\* A report that was recorded before.
LEMMA RedeliveredSound ==
  ASSUME IInv, NEW w \in Workers, HoldsLease(w), NEW o \in Reports, Redelivered(w, o)
  PROVE  Sound
<1>1. \E complete \in BOOLEAN :
          /\ FinishSuccessfulClaim(w, complete)
          /\ complete => attempts[holding[w].attempt].state = "FINALIZED"
  <2>1. FinishSuccessfulClaim(w, attempts[holding[w].attempt].state = "FINALIZED")
    BY DEF Redelivered
  <2>2. CASE attempts[holding[w].attempt].state = "FINALIZED"
    <3>1. FinishSuccessfulClaim(w, TRUE)
      BY <2>1, <2>2 DEF FinishSuccessfulClaim
    <3> QED
      BY <2>2, <3>1
  <2>3. CASE attempts[holding[w].attempt].state # "FINALIZED"
    <3>1. FinishSuccessfulClaim(w, FALSE)
      BY <2>1, <2>3 DEF FinishSuccessfulClaim
    <3> QED
      BY <3>1
  <2> QED
    BY <2>2, <2>3
<1>2. UNCHANGED <<attempts, receipt>>
  BY DEF Redelivered
<1>3. \/ UNCHANGED <<intent, events, incidents>>
      \/ RecordIncident(holding[w].attempt, "OBSERVATION_HISTORY_CONTRADICTION")
  BY DEF Redelivered
<1> QED
  BY <1>1, <1>2, <1>3, UnchangedSound

\* A report that is recorded and moves nothing.
LEMMA ApplyNothingSound ==
  ASSUME IInv, NEW w \in Workers, HoldsLease(w), NEW o \in Reports, NEW disposition,
         ApplyNothing(w, o, disposition)
  PROVE  Sound
<1> PICK a : a = holding[w].attempt
  OBVIOUS
<1>1. a \in DOMAIN attempts /\ attempts[a] \in Attempt
  BY HolderSound
<1>2. \E complete \in BOOLEAN :
          /\ FinishSuccessfulClaim(w, complete)
          /\ complete => attempts[holding[w].attempt].state = "FINALIZED"
  <2>1. FinishSuccessfulClaim(w, DoneAfter(a, o, disposition))
    BY DEF ApplyNothing
  <2>2. CASE DoneAfter(a, o, disposition)
    <3>1. FinishSuccessfulClaim(w, TRUE)
      BY <2>1, <2>2 DEF FinishSuccessfulClaim
    <3>2. attempts[a].state = "FINALIZED"
      BY <2>2 DEF DoneAfter
    <3> QED
      BY <3>1, <3>2
  <2>3. CASE ~DoneAfter(a, o, disposition)
    <3>1. FinishSuccessfulClaim(w, FALSE)
      BY <2>1, <2>3 DEF FinishSuccessfulClaim
    <3> QED
      BY <3>1
  <2> QED
    BY <2>2, <2>3
<1>3. PICK seq : seq = IF disposition = "HINT" THEN o.seq ELSE attempts[a].indexerSeq
  OBVIOUS
<1>4. seq \in 0 .. MaxSeq
  <2>1. o.seq \in 1 .. MaxSeq
    BY ReportsSound DEF ReportSound
  <2>2. attempts[a].indexerSeq \in 0 .. MaxSeq
    BY <1>1 DEF Attempt
  <2> QED
    BY <1>3, <2>1, <2>2
<1> PICK row : row = [attempts[a] EXCEPT !.indexerSeq = seq]
  OBVIOUS
<1>5. attempts' = [attempts EXCEPT ![a] = row]
  BY <1>3 DEF ApplyNothing
<1>6. /\ row \in Attempt
      /\ row.lineage = attempts[a].lineage /\ row.pred = attempts[a].pred
      /\ row.state = attempts[a].state /\ row.canon = attempts[a].canon
      /\ row.head = attempts[a].head /\ row.confirmations = attempts[a].confirmations
  BY <1>1, <1>4 DEF Attempt
<1>7. receipt' = receipt
  BY DEF ApplyNothing
<1>8. \E kind : \/ UNCHANGED <<intent, events, incidents>>
                \/ RecordIncident(holding[w].attempt, kind)
  BY DEF ApplyNothing, Opens
<1> QED
  BY <1>2, <1>5, <1>6, <1>7, <1>8, NothingSound

\* The confirmations that a report of inclusion counts.
LEMMA ConfirmationsSound ==
  ASSUME NEW o, ReportSound(o), o.kind = "INCLUDED"
  PROVE  Confirmations(o) \in 0 .. MaxLevel
<1>1. o.head \in Blocks /\ o.incl \in Blocks /\ o.incl.level <= o.head.level
  BY DEF ReportSound
<1>2. o.head.level \in 1 .. MaxLevel /\ o.incl.level \in 1 .. MaxLevel
  BY <1>1 DEF Blocks, Levels
<1> QED
  BY <1>1, <1>2, ObservationAssumption DEF Confirmations

\* A report of a later head.
LEMMA ApplyHeadSound ==
  ASSUME IInv, NEW w \in Workers, HoldsLease(w), NEW o \in Reports,
         Reduce(attempts[holding[w].attempt], o).disposition = "APPLY",
         ApplyHead(w, o)
  PROVE  Sound
<1> PICK a : a = holding[w].attempt
  OBVIOUS
<1> PICK att : att = attempts[a]
  OBVIOUS
<1>1. Types /\ Shaped /\ Line /\ ProjectionsAgree /\ ReceiptOnChain
  BY DEF IInv
<1>2. a \in DOMAIN attempts /\ att \in Attempt /\ intent.state # "NONE"
  BY HolderSound
<1>3. ReportSound(o)
  BY ReportsSound
<1>4. att.state = "FINALIZED" => o.kind = "INCLUDED" /\ ~Contradicts(att, o)
  BY <1>2, <1>3, ReduceSound
<1> PICK confirmations : confirmations = IF o.kind = "INCLUDED" THEN Confirmations(o) ELSE att.confirmations
  OBVIOUS
<1>5. confirmations \in 0 .. MaxLevel
  BY <1>2, <1>3, ConfirmationsSound DEF Attempt
<1> PICK row : row = [att EXCEPT !.rpcSeq = o.seq, !.head = o.head, !.confirmations = confirmations]
  OBVIOUS
<1>6. /\ row.lineage = att.lineage /\ row.pred = att.pred /\ row.state = att.state
      /\ row.canon = att.canon /\ row.confirmations = confirmations
  BY <1>2 DEF Attempt
<1>7. row \in Attempt
  <2>1. o.seq \in 0 .. MaxSeq /\ o.head \in Blocks \cup {NoBlock}
    BY <1>3 DEF ReportSound
  <2> QED
    BY <1>2, <1>5, <2>1 DEF Attempt
<1> DEFINE seen == [att EXCEPT !.rpcSeq = o.seq, !.head = o.head]
           written == IF o.kind = "INCLUDED" THEN [seen EXCEPT !.confirmations = Confirmations(o)] ELSE seen
<1>8. row = written
  <2>1. CASE o.kind = "INCLUDED"
    BY <1>2, <2>1 DEF Attempt
  <2>2. CASE o.kind # "INCLUDED"
    BY <1>2, <2>2 DEF Attempt
  <2> QED
    BY <2>1, <2>2
<1>9. /\ Admits([attempts EXCEPT ![a] = written], {a})
      /\ attempts' = [attempts EXCEPT ![a] = written]
      /\ UNCHANGED <<receipt, intent, events, incidents>>
      /\ FinishSuccessfulClaim(w, att.state \in Concluded)
  BY DEF ApplyHead
<1> HIDE DEF written, seen
<1>10. attempts' = [attempts EXCEPT ![a] = row]
  BY <1>8, <1>9
<1>11. ShapeAdmits(row)
  <2>1. ShapeAdmits([attempts EXCEPT ![a] = written][a])
    BY <1>9 DEF Admits
  <2>2. [attempts EXCEPT ![a] = written][a] = row
    BY <1>2, <1>8
  <2> QED
    BY <2>1, <2>2
<1>12. row.state = "FINALIZED" => row.confirmations >= att.confirmations
  <2> SUFFICES ASSUME att.state = "FINALIZED" PROVE confirmations >= att.confirmations
    BY <1>6
  <2>1. o.kind = "INCLUDED" /\ o.incl = att.canon /\ ~(o.head.level < att.head.level)
    BY <1>4 DEF Contradicts
  <2>2. att.confirmations = att.head.level - att.canon.level + 1
    BY <1>1, <1>2 DEF Shaped, ShapeAdmits
  <2>3. confirmations = o.head.level - o.incl.level + 1
    BY <2>1 DEF Confirmations
  <2>4. o.head.level \in Int /\ o.incl.level \in Int
    <3>1. o.head.level \in 1 .. MaxLevel /\ o.incl.level \in 1 .. MaxLevel
      BY <1>3, <2>1 DEF ReportSound, Blocks, Levels
    <3> QED
      BY <3>1, ObservationAssumption
  <2>5. att.head.level \in Int
    <3>1. att.head \in Blocks \cup {NoBlock}
      BY <1>2 DEF Attempt
    <3>2. att.head.level \in 1 .. MaxLevel \/ att.head.level = 0
      BY <3>1 DEF Blocks, Levels, NoBlock
    <3> QED
      BY <3>2, ObservationAssumption
  <2> QED
    BY <2>1, <2>2, <2>3, <2>4, <2>5
<1>13. \E complete \in BOOLEAN :
          FinishSuccessfulClaim(w, complete) /\ (complete => att.state \in Concluded)
  <2>1. CASE att.state \in Concluded
    <3>1. FinishSuccessfulClaim(w, TRUE)
      BY <1>9, <2>1 DEF FinishSuccessfulClaim
    <3> QED
      BY <2>1, <3>1
  <2>2. CASE att.state \notin Concluded
    <3>1. FinishSuccessfulClaim(w, FALSE)
      BY <1>9, <2>2 DEF FinishSuccessfulClaim
    <3> QED
      BY <3>1
  <2> QED
    BY <2>1, <2>2
<1>14. /\ intent' \in [state : IntentStates, revision : Nat] /\ intent'.state = intent.state
       /\ events' = IF intent'.state = "NONE" THEN 0 ELSE intent'.revision + 1
       /\ events' \in Nat /\ incidents \subseteq incidents' /\ receipt' = receipt
  BY <1>1, <1>9 DEF Types, ProjectionsAgree
<1>15. /\ Shaped' /\ Line' /\ ProjectionsAgree' /\ ReceiptOnChain' /\ FinalStep
       /\ attempts' \in Seq(Attempt) /\ Len(attempts') = Len(attempts)
       /\ \A b \in DOMAIN attempts : b # a => attempts'[b] = attempts[b]
       /\ attempts'[a] = row
  BY <1>1, <1>2, <1>6, <1>7, <1>10, <1>11, <1>12, <1>14, RowQuiet
<1> QED
  <2>1. PICK complete \in BOOLEAN :
            FinishSuccessfulClaim(w, complete) /\ (complete => att.state \in Concluded)
    BY <1>13
  <2>2. complete => attempts'[holding[w].attempt].state \in Concluded
    BY <1>6, <1>15, <2>1
  <2>3. \A b \in DOMAIN attempts : b # holding[w].attempt => attempts'[b] = attempts[b]
    BY <1>15
  <2>4. /\ IInv /\ HoldsLease(w) /\ incidents \subseteq incidents'
        /\ intent' \in [state : IntentStates, revision : Nat] /\ events' \in Nat
        /\ Shaped' /\ Line' /\ ProjectionsAgree' /\ ReceiptOnChain' /\ FinalStep
        /\ attempts' \in Seq(Attempt) /\ Len(attempts') = Len(attempts)
    BY <1>14, <1>15
  <2>5. w \in Workers /\ complete \in BOOLEAN /\ FinishSuccessfulClaim(w, complete)
    BY <2>1
  <2> QED
    BY ONLY <2>2, <2>3, <2>4, <2>5, FinishSound

\* What applyTransition writes.
LEMMA WrittenSound ==
  ASSUME NEW att \in Attempt, NEW o, ReportSound(o), NEW state \in OnChain \cup {"FAILED", "DROPPED"},
         state \in {"INCLUDED", "CONFIRMED", "FINALIZED"} => o.kind = "INCLUDED"
  PROVE  /\ Written(att, state, o) \in Attempt
         /\ Written(att, state, o).state = state
         /\ Written(att, state, o).lineage = att.lineage /\ Written(att, state, o).pred = att.pred
         /\ state \in OnChain =>
                Written(att, state, o).canon = IF state = "REORGED" THEN NoBlock ELSE o.incl
<1>1. /\ o.seq \in 0 .. MaxSeq /\ o.head \in Blocks \cup {NoBlock}
      /\ o.kind = "INCLUDED" => o.incl \in Blocks \cup {NoBlock}
  BY DEF ReportSound
<1>2. 1 \in 0 .. MaxLevel /\ 0 \in 0 .. MaxLevel
  BY ObservationAssumption
<1>3. state \in AttemptStates
  BY DEF OnChain, AttemptStates
<1> PICK canon, head, confirmations, seq :
        /\ canon = (IF state \in {"INCLUDED", "CONFIRMED", "FINALIZED"} THEN o.incl ELSE NoBlock)
        /\ head = (IF state = "INCLUDED" THEN o.incl ELSE o.head)
        /\ confirmations = (IF state = "INCLUDED" THEN 1
                            ELSE IF state \in {"CONFIRMED", "FINALIZED"} THEN Confirmations(o) ELSE 0)
        /\ seq = o.seq
  OBVIOUS
<1>4. /\ canon \in Blocks \cup {NoBlock} /\ head \in Blocks \cup {NoBlock}
      /\ confirmations \in 0 .. MaxLevel /\ seq \in 0 .. MaxSeq
  BY <1>1, <1>2, ConfirmationsSound
<1>5. Written(att, state, o) = [att EXCEPT !.state = state, !.canon = canon, !.head = head,
                                           !.confirmations = confirmations, !.rpcSeq = seq]
  <2>1. CASE state = "INCLUDED"
    BY <2>1 DEF Written
  <2>2. CASE state \in {"CONFIRMED", "FINALIZED"}
    BY <2>2 DEF Written
  <2>3. CASE state \notin {"INCLUDED", "CONFIRMED", "FINALIZED"}
    BY <2>3 DEF Written
  <2> QED
    BY <2>1, <2>2, <2>3
<1> PICK row : row = [att EXCEPT !.state = state, !.canon = canon, !.head = head,
                                 !.confirmations = confirmations, !.rpcSeq = seq]
  OBVIOUS
<1>6. row \in Attempt
  BY <1>3, <1>4 DEF Attempt
<1>7. row.state = state /\ row.lineage = att.lineage /\ row.pred = att.pred /\ row.canon = canon
  BY DEF Attempt
<1>8. state \in OnChain => canon = IF state = "REORGED" THEN NoBlock ELSE o.incl
  BY DEF OnChain
<1> QED
  BY <1>5, <1>6, <1>7, <1>8

\* A report that moves the attempt: it is the last one, and not final.
LEMMA ApplyPathSound ==
  ASSUME IInv, NEW w \in Workers, HoldsLease(w), NEW o \in Reports, NEW path,
         Reduce(attempts[holding[w].attempt], o).disposition = "APPLY",
         path = Reduce(attempts[holding[w].attempt], o).path, path # << >>,
         ApplyPath(w, o, path)
  PROVE  Sound
<1> PICK a : a = holding[w].attempt
  OBVIOUS
<1> PICK att : att = attempts[a]
  OBVIOUS
<1> PICK state : state = path[Len(path)]
  OBVIOUS
<1>1. Types /\ Shaped /\ Line /\ ProjectionsAgree /\ ReceiptOnChain
  BY DEF IInv
<1>2. a \in DOMAIN attempts /\ att \in Attempt /\ intent.state # "NONE"
  BY HolderSound
<1>3. ReportSound(o)
  BY ReportsSound
<1>4. /\ att.state \notin Gone /\ att.state # "FINALIZED"
      /\ state \in OnChain \cup {"FAILED", "DROPPED"}
      /\ state \in {"INCLUDED", "CONFIRMED", "FINALIZED"} => o.kind = "INCLUDED"
      /\ Len(path) \in Nat
  BY <1>2, <1>3, ReduceSound
<1>5. a = Len(attempts)
  BY <1>1, <1>2, <1>4, LiveIsLast
<1> PICK row : row = Written(att, state, o)
  OBVIOUS
<1>6. /\ row \in Attempt /\ row.state = state /\ row.lineage = att.lineage /\ row.pred = att.pred
      /\ state \in OnChain => row.canon = IF state = "REORGED" THEN NoBlock ELSE o.incl
  BY <1>2, <1>3, <1>4, WrittenSound
<1>7. /\ Admits([attempts EXCEPT ![a] = row], {a})
      /\ attempts' = [attempts EXCEPT ![a] = row]
      /\ receipt' = ReceiptAfter(a, state, o)
      /\ Advance(IF state \in {"FAILED", "DROPPED"} THEN "SUBMITTED" ELSE state, Len(path))
      /\ UNCHANGED incidents
      /\ FinishSuccessfulClaim(w, state \in Concluded)
  BY DEF ApplyPath
<1>8. /\ intent' \in [state : IntentStates, revision : Nat] /\ intent'.state # "NONE"
      /\ state \in OnChain => intent'.state = state
      /\ events' = intent'.revision + 1 /\ events' \in Nat
  <2>1. /\ intent' = [state |-> IF state \in {"FAILED", "DROPPED"} THEN "SUBMITTED" ELSE state,
                      revision |-> intent.revision + Len(path)]
        /\ events' = events + Len(path)
    BY <1>7 DEF Advance, WriteEvents
  <2>2. intent.revision \in Nat /\ events = intent.revision + 1
    BY <1>1, <1>2 DEF Types, ProjectionsAgree
  <2>3. (IF state \in {"FAILED", "DROPPED"} THEN "SUBMITTED" ELSE state) \in IntentStates \ {"NONE"}
    BY <1>4 DEF OnChain, IntentStates
  <2>4. state \in OnChain => (IF state \in {"FAILED", "DROPPED"} THEN "SUBMITTED" ELSE state) = state
    BY DEF OnChain
  <2> PICK next : next = IF state \in {"FAILED", "DROPPED"} THEN "SUBMITTED" ELSE state
    OBVIOUS
  <2>5. intent.revision + Len(path) \in Nat /\ events + Len(path) \in Nat
        /\ events + Len(path) = intent.revision + Len(path) + 1
    BY <1>4, <2>2
  <2>6. intent' = [state |-> next, revision |-> intent.revision + Len(path)]
        /\ next \in IntentStates /\ next # "NONE" /\ (state \in OnChain => next = state)
    BY <2>1, <2>3, <2>4
  <2>7. intent'.state = next /\ intent'.revision = intent.revision + Len(path)
    BY <2>6
  <2>8. intent' \in [state : IntentStates, revision : Nat]
    BY <2>5, <2>6
  <2> QED
    BY <2>1, <2>5, <2>6, <2>7, <2>8
<1>9. /\ Line' /\ attempts' \in Seq(Attempt) /\ Len(attempts') = Len(attempts)
      /\ DOMAIN attempts' = DOMAIN attempts /\ attempts'[a] = row
      /\ \A b \in DOMAIN attempts : b # a => attempts'[b] = attempts[b]
  BY <1>1, <1>2, <1>5, <1>6, <1>7, <1>8, LineKept
<1>10. Shaped'
  <2>1. [attempts EXCEPT ![a] = row][a] = row
    BY <1>2
  <2>2. ShapeAdmits(row)
    BY <1>7, <2>1 DEF Admits
  <2> QED
    BY <1>1, <1>9, <2>2 DEF Shaped
<1>11. \A b \in DOMAIN attempts : b # a => attempts[b].state \in Gone
  BY <1>1, <1>5, LiveIsLast
<1>12. a # 0
  BY <1>1, <1>2, RowNumbers
<1>13. ASSUME state \in OnChain PROVE ProjectionsAgree' /\ ReceiptOnChain'
  <2>1. receipt' = [attempt |-> a, state |-> state, canon |-> row.canon]
    BY <1>6, <1>7, <1>13 DEF ReceiptAfter, OnChain
  <2>2. \A b \in DOMAIN attempts' : attempts'[b].state \in OnChain =>
            /\ receipt' = [attempt |-> b, state |-> attempts'[b].state, canon |-> attempts'[b].canon]
            /\ intent'.state = attempts'[b].state
    BY <1>6, <1>8, <1>9, <1>11, <1>13, <2>1 DEF OnChain, Gone
  <2>3. receipt'.attempt \in DOMAIN attempts' /\ receipt'.state = attempts'[receipt'.attempt].state
    BY <1>2, <1>6, <1>9, <2>1
  <2>4. ProjectionsAgree'
    BY <1>8, <2>2, <2>3 DEF ProjectionsAgree, OnChain
  <2>5. ReceiptOnChain'
    BY <1>13, <2>1 DEF ReceiptOnChain
  <2> QED
    BY <2>4, <2>5
<1>14. ASSUME state \in {"FAILED", "DROPPED"} PROVE ProjectionsAgree' /\ ReceiptOnChain'
  <2>1. receipt' = NoReceipt
    <3>1. receipt' = IF receipt.attempt = a THEN NoReceipt ELSE receipt
      BY <1>7, <1>14 DEF ReceiptAfter
    <3>2. receipt # NoReceipt => receipt.attempt = a
      BY <1>1, <1>5, ReceiptOfLast
    <3> QED
      BY <3>1, <3>2
  <2>2. \A b \in DOMAIN attempts' : attempts'[b].state \notin OnChain
    BY <1>6, <1>9, <1>11, <1>14 DEF OnChain, Gone
  <2> QED
    BY <1>8, <2>1, <2>2 DEF ProjectionsAgree, ReceiptOnChain, OnChain
<1>15. ProjectionsAgree' /\ ReceiptOnChain'
  BY <1>4, <1>13, <1>14
<1>16. FinalStep
  BY <1>4, <1>11 DEF FinalStep, Gone
<1>17. \E complete \in BOOLEAN :
          FinishSuccessfulClaim(w, complete) /\ (complete => state \in Concluded)
  <2>1. CASE state \in Concluded
    <3>1. FinishSuccessfulClaim(w, TRUE)
      BY <1>7, <2>1 DEF FinishSuccessfulClaim
    <3> QED
      BY <2>1, <3>1
  <2>2. CASE state \notin Concluded
    <3>1. FinishSuccessfulClaim(w, FALSE)
      BY <1>7, <2>2 DEF FinishSuccessfulClaim
    <3> QED
      BY <3>1
  <2> QED
    BY <2>1, <2>2
<1>18. incidents \subseteq incidents'
  BY <1>7
<1> QED
  BY <1>6, <1>8, <1>9, <1>10, <1>15, <1>16, <1>17, <1>18, FinishSound

\* observeOperation
LEMMA ObserveSound ==
  ASSUME IInv, NEW w \in Workers, NEW o \in Reports, ObserveOperation(w, o)
  PROVE  Sound
<1>1. HoldsLease(w)
  BY DEF ObserveOperation
<1>2. CASE Redelivered(w, o)
  BY <1>1, <1>2, RedeliveredSound
<1>3. CASE ApplyFresh(w, o)
  <2> PICK a : a = holding[w].attempt
    OBVIOUS
  <2> PICK decision : decision = Reduce(attempts[a], o)
    OBVIOUS
  <2>1. CASE decision.disposition = "throw"
    <3>1. /\ \E kind \in ThrownKinds(a, o) : RecordIncident(a, kind)
          /\ FinishSuccessfulClaim(w, attempts[a].state = "FINALIZED")
          /\ UNCHANGED <<attempts, receipt>>
      BY <1>3, <2>1 DEF ApplyFresh
    <3>2. \E complete \in BOOLEAN :
              FinishSuccessfulClaim(w, complete) /\ (complete => attempts[a].state = "FINALIZED")
      <4>1. CASE attempts[a].state = "FINALIZED"
        <5>1. FinishSuccessfulClaim(w, TRUE)
          BY <3>1, <4>1 DEF FinishSuccessfulClaim
        <5> QED
          BY <4>1, <5>1
      <4>2. CASE attempts[a].state # "FINALIZED"
        <5>1. FinishSuccessfulClaim(w, FALSE)
          BY <3>1, <4>2 DEF FinishSuccessfulClaim
        <5> QED
          BY <5>1
      <4> QED
        BY <4>1, <4>2
    <3> QED
      BY <1>1, <3>1, <3>2, UnchangedSound
  <2>2. CASE decision.disposition # "throw"
    <3>1. \/ ApplyNothing(w, o, decision.disposition)
          \/ decision.disposition = "APPLY" /\ decision.path = << >> /\ ApplyHead(w, o)
          \/ decision.disposition = "APPLY" /\ decision.path # << >> /\ ApplyPath(w, o, decision.path)
      BY <1>3, <2>2 DEF ApplyFresh
    <3>2. CASE ApplyNothing(w, o, decision.disposition)
      BY <1>1, <3>2, ApplyNothingSound
    <3>3. CASE decision.disposition = "APPLY" /\ decision.path = << >> /\ ApplyHead(w, o)
      BY <1>1, <3>3, ApplyHeadSound
    <3>4. CASE decision.disposition = "APPLY" /\ decision.path # << >> /\ ApplyPath(w, o, decision.path)
      BY <1>1, <3>4, ApplyPathSound
    <3> QED
      BY <3>1, <3>2, <3>3, <3>4
  <2> QED
    BY <2>1, <2>2
<1> QED
  BY <1>2, <1>3 DEF ObserveOperation

-----------------------------------------------------------------------------
\* Before the first call there is no row.
LEMMA InitIInv == Init => IInv
<1> SUFFICES ASSUME Init PROVE IInv
  OBVIOUS
<1>1. /\ intent = [state |-> "NONE", revision |-> 0] /\ attempts = << >> /\ receipt = NoReceipt
      /\ jobs = << >> /\ events = 0 /\ holding = [w \in Workers |-> NoClaim]
  BY DEF Init
<1>2. Types
  <2>1. NoClaim \in [attempt : Nat, generation : Nat]
    BY DEF NoClaim
  <2>2. intent \in [state : IntentStates, revision : Nat] /\ events \in Nat
    BY <1>1 DEF IntentStates
  <2>3. attempts \in Seq(Attempt) /\ jobs \in Seq(JobRow) /\ Len(jobs) = Len(attempts)
    BY <1>1
  <2>4. holding \in [Workers -> [attempt : Nat, generation : Nat]]
    BY <1>1, <2>1
  <2> QED
    BY <2>2, <2>3, <2>4 DEF Types
<1>3. Shaped /\ Line /\ ReceiptOnChain
  BY <1>1 DEF Shaped, Line, ReceiptOnChain
<1>4. ProjectionsAgree
  BY <1>1 DEF ProjectionsAgree
<1>5. NoAttemptForgotten
  BY <1>1 DEF NoAttemptForgotten
<1>6. ClaimsSound
  BY <1>1 DEF ClaimsSound
<1> QED
  BY <1>2, <1>3, <1>4, <1>5, <1>6 DEF IInv

\* Every call of the authority, one by one.
LEMMA NextSound ==
  ASSUME IInv, Next
  PROVE  Sound
<1>1. CASE Prepare
  BY <1>1, PrepareSound
<1>2. CASE Expire \/ MarkAwaitingSignature
  BY <1>2, ReviewedSound
<1>3. CASE RegisterSubmittedAttempt
  BY <1>3, RegisterSound
<1>4. CASE PermitExpires
  <2>1. Shaped' /\ Line' /\ ProjectionsAgree' /\ ReceiptOnChain' /\ FinalStep
    BY <1>4, RowsStay DEF PermitExpires, IInv
  <2>2. ClaimsSound' /\ LeaseStep
    BY <1>4, JobsStay DEF PermitExpires, IInv
  <2>3. Types' /\ NoAttemptForgotten'
    BY <1>4 DEF PermitExpires, IInv, Types, NoAttemptForgotten
  <2> QED
    BY <2>1, <2>2, <2>3 DEF IInv, Sound
<1>5. ASSUME NEW a \in AttemptIds, ReplaceAttempt(a) PROVE Sound
  BY <1>5, ReplaceSound
<1>6. ASSUME NEW a \in AttemptIds, RetryAttempt(a) PROVE Sound
  BY <1>6, RetrySound
<1>7. ASSUME NEW a \in AttemptIds, ScheduleReconciliation(a) PROVE Sound
  BY <1>7, ScheduleSound
<1>8. ASSUME NEW a \in AttemptIds, LeaseEnds(a) PROVE Sound
  BY <1>8, LeaseEndsSound
<1>9. ASSUME NEW w \in Workers, NEW a \in AttemptIds, ClaimReconciliation(w, a) PROVE Sound
  BY <1>9, ClaimSound
<1>10. ASSUME NEW w \in Workers, DropClaim(w) PROVE Sound
  BY <1>10, DropSound
<1>11. ASSUME NEW w \in Workers, RecordReconciliationFailure(w) PROVE Sound
  BY <1>11, FailureSound
<1>12. ASSUME NEW w \in Workers, NEW o \in Reports, ObserveOperation(w, o) PROVE Sound
  BY <1>12, ObserveSound
<1> QED
  BY <1>1, <1>2, <1>3, <1>4, <1>5, <1>6, <1>7, <1>8, <1>9, <1>10, <1>11, <1>12 DEF Next

\* Nothing moves when nothing happens.
LEMMA StutterSound ==
  ASSUME IInv, UNCHANGED vars
  PROVE  Sound
<1>1. UNCHANGED <<intent, attempts, receipt, jobs, incidents, events, holding>>
  BY DEF vars
<1>2. Shaped' /\ Line' /\ ProjectionsAgree' /\ ReceiptOnChain' /\ FinalStep
  BY <1>1, RowsStay DEF IInv
<1>3. ClaimsSound' /\ LeaseStep
  BY <1>1, JobsStay DEF IInv
<1>4. Types' /\ NoAttemptForgotten'
  BY <1>1 DEF IInv, Types, NoAttemptForgotten
<1> QED
  BY <1>2, <1>3, <1>4 DEF IInv, Sound

\* The inductive invariant holds in every reachable state.
THEOREM AlwaysIInv == Spec => []IInv
<1>1. IInv /\ [Next]_vars => IInv'
  BY NextSound, StutterSound DEF Sound
<1> QED
  BY InitIInv, <1>1, PTL DEF Spec

\* Replacing and retrying never leave two attempts of one intent that can both
\* settle: retryAttempt follows only a failed or dropped one, replaceAttempt
\* marks the one it replaces, and only the last attempt ever moves.
THEOREM OneLiveAttemptAlways == Spec => []OneLiveAttempt
<1>1. IInv => OneLiveAttempt
  BY LineIsOne DEF IInv
<1> QED
  BY AlwaysIInv, <1>1, PTL

\* applyTransition writes attempt, receipt and intent together, and so they agree
\* after any reports in any order; the log of events is as long as the revision says.
THEOREM ProjectionsAlwaysAgree == Spec => []ProjectionsAgree
<1>1. IInv => ProjectionsAgree
  BY DEF IInv
<1> QED
  BY AlwaysIInv, <1>1, PTL

\* No job is complete while its attempt may still be included, and none is given
\* up without an incident.
THEOREM NoAttemptEverForgotten == Spec => []NoAttemptForgotten
<1>1. IInv => NoAttemptForgotten
  BY DEF IInv
<1> QED
  BY AlwaysIInv, <1>1, PTL

\* No call and no report, late, repeated or contradicting, moves a final attempt
\* off its block, lowers its confirmations, or changes the receipt or the intent.
THEOREM FinalityAlwaysStands == Spec => FinalityStands
<1>1. IInv /\ [Next]_vars => [FinalStep]_vars
  BY NextSound DEF Sound
<1>2. [FinalStep]_vars <=>
        [\A a \in DOMAIN attempts :
           attempts[a].state = "FINALIZED" =>
               /\ attempts'[a].state = "FINALIZED"
               /\ attempts'[a].canon = attempts[a].canon
               /\ attempts'[a].confirmations >= attempts[a].confirmations
               /\ receipt' = receipt
               /\ intent'.state = "FINALIZED"]_vars
  BY DEF FinalStep
<1> QED
  BY AlwaysIInv, <1>1, <1>2, PTL DEF Spec, FinalityStands

\* Until its lease ends, nobody but the worker that claimed a job last changes it.
THEOREM LeaseAlwaysProtects == Spec => LeaseProtects
<1>1. IInv /\ [Next]_vars => [LeaseStep]_vars
  BY NextSound DEF Sound
<1>2. [LeaseStep]_vars <=>
        [\A w \in Workers :
           HoldsLease(w) /\ holding'[w] = holding[w] =>
               LET a == holding[w].attempt IN
               jobs'[a] = [jobs[a] EXCEPT !.live = jobs'[a].live]]_vars
  BY DEF LeaseStep
<1> QED
  BY AlwaysIInv, <1>1, <1>2, PTL DEF Spec, LeaseProtects

-----------------------------------------------------------------------------
(* The columns keep their types and the counters their bounds. *)

JobsBound ==
    \A a \in DOMAIN jobs :
        /\ jobs[a].generation <= MaxClaims /\ jobs[a].failures <= MaxFailures
        /\ jobs[a].state # "dead-letter" => jobs[a].failures < MaxFailures

IntentBound == intent.revision <= MaxRevision
RowsBound == Len(attempts) <= MaxAttempts
ReceiptTyped == receipt \in [attempt : 0 .. MaxAttempts, state : IntentStates, canon : Blocks \cup {NoBlock}]
HistoryTyped == history \subseteq [attempt : AttemptIds, source : {"rpc", "indexer"},
                                   seq : 1 .. MaxSeq, head : Blocks]
IncidentsTyped == incidents \subseteq AttemptIds \X Kinds

Bounds ==
    /\ IntentBound /\ RowsBound /\ JobsBound
    /\ ReceiptTyped /\ HistoryTyped /\ IncidentsTyped /\ expired \in BOOLEAN

\* With the invariant they are all that TypeOK says.
LEMMA BoundsType ==
  ASSUME IInv, Bounds
  PROVE  TypeOK
<1>1. Types /\ ProjectionsAgree /\ ClaimsSound
  BY DEF IInv
<1>2. /\ DOMAIN attempts = 1 .. Len(attempts) /\ DOMAIN jobs = DOMAIN attempts
      /\ \A a \in DOMAIN attempts : attempts[a] \in Attempt
      /\ \A a \in DOMAIN jobs : jobs[a] \in JobRow
  BY <1>1, RowNumbers
<1>3. intent \in [state : IntentStates, revision : 0 .. MaxRevision]
  <2>1. /\ intent = [state |-> intent.state, revision |-> intent.revision]
        /\ intent.state \in IntentStates /\ intent.revision \in Nat /\ intent.revision <= MaxRevision
    BY <1>1 DEF Types, Bounds, IntentBound
  <2>2. intent.revision \in 0 .. MaxRevision
    BY <2>1, LifecycleAssumption
  <2> QED
    BY <2>1, <2>2
<1>4. events \in 0 .. MaxRevision + 1
  <2>1. intent.revision \in 0 .. MaxRevision
    BY <1>3
  <2>2. events = 0 \/ events = intent.revision + 1
    BY <1>1 DEF ProjectionsAgree
  <2> QED
    BY <2>1, <2>2, LifecycleAssumption
<1>5. ASSUME NEW a \in DOMAIN jobs PROVE jobs[a] \in Job
  <2>1. jobs[a] \in JobRow /\ jobs[a].generation <= MaxClaims /\ jobs[a].failures <= MaxFailures
    BY <1>2 DEF Bounds, JobsBound
  <2>2. jobs[a].generation \in 0 .. MaxClaims /\ jobs[a].failures \in 0 .. MaxFailures
    BY <2>1, LifecycleAssumption DEF JobRow
  <2> QED
    BY <2>1, <2>2 DEF JobRow, Job
<1>6. ASSUME NEW w \in Workers PROVE holding[w] \in [attempt : 0 .. MaxAttempts, generation : 0 .. MaxClaims]
  <2>1. holding[w] \in [attempt : Nat, generation : Nat]
    BY <1>1 DEF Types
  <2>2. CASE holding[w] = NoClaim
    BY <2>2, LifecycleAssumption DEF NoClaim
  <2>3. CASE holding[w] # NoClaim
    <3> PICK at : at = holding[w].attempt
      OBVIOUS
    <3>1. at \in DOMAIN jobs /\ holding[w].generation <= jobs[at].generation
      BY <1>1, <2>3 DEF ClaimsSound
    <3>2. jobs[at].generation \in 0 .. MaxClaims
      BY <1>5, <3>1 DEF Job
    <3>3. holding[w].generation \in 0 .. MaxClaims
      BY <2>1, <3>1, <3>2, LifecycleAssumption
    <3>4. at \in 0 .. MaxAttempts
      BY <1>1, <1>2, <3>1, LifecycleAssumption DEF Bounds, RowsBound, Types
    <3> QED
      BY <2>1, <3>3, <3>4
  <2> QED
    BY <2>2, <2>3
<1>7. holding \in [Workers -> [attempt : 0 .. MaxAttempts, generation : 0 .. MaxClaims]]
  BY <1>1, <1>6 DEF Types
<1> QED
  BY <1>2, <1>3, <1>4, <1>5, <1>7
     DEF TypeOK, Bounds, RowsBound, ReceiptTyped, HistoryTyped, IncidentsTyped

\* An event more never passes the bound.
LEMMA AdvanceBound ==
  ASSUME Types, NEW state, NEW n \in Nat, Advance(state, n)
  PROVE  IntentBound'
  BY DEF Advance, WriteEvents, IntentBound

\* The attempt that is inserted is a number of its own, its job is new.
LEMMA InsertBound ==
  ASSUME IInv, Bounds, NEW rows \in Seq(Attempt), Len(rows) = Len(attempts),
         NEW lineage, NEW pred, Insert(rows, lineage, pred)
  PROVE  RowsBound' /\ JobsBound'
<1>1. /\ Len(rows) + 1 \in AttemptIds
      /\ attempts' = Append(rows, NewAttempt(lineage, pred))
      /\ jobs' = Append(jobs, NewJob)
  BY DEF Insert
<1>2. Len(attempts') = Len(rows) + 1
  BY <1>1
<1>3. RowsBound'
  BY <1>1, <1>2, LifecycleAssumption DEF RowsBound, AttemptIds
<1>4. jobs \in Seq(JobRow) /\ NewJob \in JobRow
  BY DEF IInv, Types, NewJob, JobRow
<1>5. /\ DOMAIN jobs = 1 .. Len(jobs) /\ DOMAIN jobs' = 1 .. (Len(jobs) + 1) /\ Len(jobs) \in Nat
      /\ jobs'[Len(jobs) + 1] = NewJob
      /\ \A a \in DOMAIN jobs : jobs'[a] = jobs[a]
  BY <1>1, <1>4
<1>6. NewJob.generation <= MaxClaims /\ NewJob.failures < MaxFailures /\ NewJob.failures <= MaxFailures
  BY LifecycleAssumption DEF NewJob
<1>7. JobsBound'
  BY <1>5, <1>6 DEF Bounds, JobsBound
<1> QED
  BY <1>3, <1>7

\* A job that has taken every claim there is leaves none.
LEMMA ClaimsLeft ==
  ASSUME IInv, Bounds, NEW a \in DOMAIN jobs, ClaimsTaken < MaxClaims
  PROVE  jobs[a].generation < MaxClaims
<1> SUFFICES ASSUME ~(jobs[a].generation < MaxClaims) PROVE FALSE
  OBVIOUS
<1> DEFINE all == (DOMAIN jobs) \X (1 .. MaxClaims)
           taken == {c \in all : c[2] <= jobs[c[1]].generation}
           own == {a} \X (1 .. MaxClaims)
<1>1. MaxClaims \in Nat /\ jobs[a].generation \in Nat /\ DOMAIN jobs = 1 .. Len(jobs) /\ Len(jobs) \in Nat
  BY RowNumbers, LifecycleAssumption DEF IInv, JobRow
<1>2. /\ IsFiniteSet(1 .. MaxClaims) /\ Cardinality(1 .. MaxClaims) = MaxClaims
      /\ IsFiniteSet(DOMAIN jobs)
  <2>1. /\ IsFiniteSet(1 .. MaxClaims) /\ IsFiniteSet(1 .. Len(jobs))
        /\ Cardinality(1 .. MaxClaims) = IF 1 > MaxClaims THEN 0 ELSE MaxClaims - 1 + 1
    BY <1>1, FS_Interval
  <2> QED
    BY <1>1, <2>1
<1>3. IsFiniteSet(all)
  BY <1>2, FS_Product
<1>4. IsFiniteSet(taken)
  <2>1. taken \in SUBSET all
    OBVIOUS
  <2> QED
    BY <1>3, <2>1, FS_Subset
<1>5. Cardinality(own) = MaxClaims
  <2>1. IsFiniteSet({a}) /\ Cardinality({a}) = 1
    BY FS_Singleton
  <2>2. Cardinality(own) = Cardinality({a}) * Cardinality(1 .. MaxClaims)
    BY <1>2, <2>1, FS_Product
  <2> QED
    BY <1>1, <1>2, <2>1, <2>2
<1>6. own \in SUBSET taken
  <2> SUFFICES ASSUME NEW c \in own PROVE c \in taken
    OBVIOUS
  <2>1. c[1] = a /\ c[2] \in 1 .. MaxClaims /\ c \in all
    OBVIOUS
  <2>2. c[2] <= jobs[a].generation
    BY <1>1, <2>1
  <2> QED
    BY <2>1, <2>2
<1>7. Cardinality(own) <= Cardinality(taken)
  BY <1>4, <1>6, FS_Subset
<1>8. Cardinality(taken) \in Nat /\ Cardinality(taken) < MaxClaims
  BY <1>4, FS_CardinalityType DEF ClaimsTaken
<1> QED
  BY <1>1, <1>5, <1>7, <1>8

\* claimReconciliation
LEMMA ClaimBound ==
  ASSUME IInv, Bounds, NEW w \in Workers, NEW a \in AttemptIds, ClaimReconciliation(w, a)
  PROVE  JobsBound'
<1>1. /\ a \in DOMAIN jobs /\ ClaimsTaken < MaxClaims
      /\ jobs[a].state \in {"pending", "processing"}
      /\ jobs' = [jobs EXCEPT ![a].state = "processing", ![a].generation = @ + 1, ![a].live = TRUE]
  BY DEF ClaimReconciliation
<1>2. jobs[a] \in JobRow /\ jobs \in Seq(JobRow)
  BY <1>1, RowNumbers DEF IInv, Types
<1>3. jobs[a].generation < MaxClaims
  BY <1>1, ClaimsLeft
<1>4. DOMAIN jobs' = DOMAIN jobs /\ \A b \in DOMAIN jobs : b # a => jobs'[b] = jobs[b]
  BY <1>1, <1>2
<1>5. jobs'[a].generation = jobs[a].generation + 1
  BY <1>1, <1>2 DEF JobRow
<1>6. jobs'[a].failures = jobs[a].failures
  BY <1>1, <1>2 DEF JobRow
<1>7. jobs[a].generation \in Nat /\ jobs[a].failures < MaxFailures /\ jobs[a].failures <= MaxFailures
  BY <1>1, <1>2 DEF JobRow, Bounds, JobsBound
<1>8. jobs'[a].generation <= MaxClaims
  BY <1>3, <1>5, <1>7, LifecycleAssumption
<1> QED
  BY <1>4, <1>6, <1>7, <1>8 DEF Bounds, JobsBound

\* A job that moves otherwise keeps its claims.
LEMMA JobBound ==
  ASSUME IInv, Bounds, NEW a \in DOMAIN jobs, NEW row \in JobRow, jobs' = [jobs EXCEPT ![a] = row],
         row.generation = jobs[a].generation, row.failures <= MaxFailures,
         row.state # "dead-letter" => row.failures < MaxFailures
  PROVE  JobsBound'
<1>1. DOMAIN jobs' = DOMAIN jobs /\ jobs'[a] = row /\ \A b \in DOMAIN jobs : b # a => jobs'[b] = jobs[b]
  BY JobMoves DEF IInv
<1> QED
  BY <1>1 DEF Bounds, JobsBound

\* finishSuccessfulClaim forgets the failures.
LEMMA FinishBound ==
  ASSUME IInv, Bounds, NEW w \in Workers, HoldsLease(w), NEW complete, FinishSuccessfulClaim(w, complete)
  PROVE  JobsBound'
<1> PICK a : a = holding[w].attempt
  OBVIOUS
<1> PICK state : state = IF complete THEN "complete" ELSE "pending"
  OBVIOUS
<1>1. jobs' = [jobs EXCEPT ![a] = [@ EXCEPT !.state = state, !.live = FALSE, !.failures = 0]]
  BY DEF FinishSuccessfulClaim
<1>2. a \in DOMAIN jobs /\ jobs[a] \in JobRow /\ jobs \in Seq(JobRow)
  BY HolderSound DEF IInv, Types
<1>3. jobs'[a].generation = jobs[a].generation /\ jobs'[a].failures = 0
  BY <1>1, <1>2 DEF JobRow
<1>4. DOMAIN jobs' = DOMAIN jobs /\ \A b \in DOMAIN jobs : b # a => jobs'[b] = jobs[b]
  BY <1>1, <1>2
<1> QED
  BY <1>2, <1>3, <1>4, LifecycleAssumption DEF Bounds, JobsBound

\* recordReconciliationFailure gives a job up at the last failure it may have.
LEMMA FailureBound ==
  ASSUME IInv, Bounds, NEW w \in Workers, RecordReconciliationFailure(w)
  PROVE  JobsBound'
<1> PICK a : a = holding[w].attempt
  OBVIOUS
<1> PICK state : state = IF jobs[a].failures + 1 >= MaxFailures THEN "dead-letter" ELSE "pending"
  OBVIOUS
<1>1. /\ HoldsLease(w)
      /\ jobs' = [jobs EXCEPT ![a] =
                      [@ EXCEPT !.state = state, !.live = FALSE, !.failures = jobs[a].failures + 1]]
  BY DEF RecordReconciliationFailure
<1>2. a \in DOMAIN jobs /\ jobs[a] \in JobRow /\ jobs \in Seq(JobRow) /\ jobs[a].state = "processing"
  BY <1>1, HolderSound DEF IInv, Types, HoldsLease
<1>3. /\ jobs'[a].generation = jobs[a].generation /\ jobs'[a].failures = jobs[a].failures + 1
      /\ jobs'[a].state = state
  BY <1>1, <1>2 DEF JobRow
<1>4. DOMAIN jobs' = DOMAIN jobs /\ \A b \in DOMAIN jobs : b # a => jobs'[b] = jobs[b]
  BY <1>1, <1>2
<1>5. jobs[a].failures \in Nat /\ jobs[a].failures < MaxFailures /\ jobs[a].generation <= MaxClaims
  BY <1>2 DEF Bounds, JobsBound, JobRow
<1>6. jobs'[a].failures <= MaxFailures /\ (state # "dead-letter" => jobs'[a].failures < MaxFailures)
  BY <1>3, <1>5, LifecycleAssumption
<1> QED
  BY <1>3, <1>4, <1>5, <1>6 DEF Bounds, JobsBound

\* An incident is of an attempt and has one of the kinds.
LEMMA IncidentBound ==
  ASSUME IInv, Bounds, NEW a \in AttemptIds, NEW kind \in Kinds,
         \/ UNCHANGED <<intent, events, incidents>>
         \/ RecordIncident(a, kind)
  PROVE  IntentBound' /\ IncidentsTyped'
<1>1. CASE UNCHANGED <<intent, events, incidents>>
  BY <1>1 DEF Bounds, IntentBound, IncidentsTyped
<1>2. CASE RecordIncident(a, kind)
  <2>1. Advance(intent.state, 1) /\ incidents' = incidents \cup {<<a, kind>>}
    BY <1>2 DEF RecordIncident
  <2>2. IntentBound'
    BY <2>1, AdvanceBound DEF IInv
  <2> QED
    BY <2>1, <2>2 DEF Bounds, IncidentsTyped
<1> QED
  BY <1>1, <1>2

\* A claim is of an attempt.
LEMMA HolderNumber ==
  ASSUME IInv, Bounds, NEW w \in Workers, HoldsLease(w)
  PROVE  holding[w].attempt \in AttemptIds
<1>1. holding[w].attempt \in DOMAIN attempts
  BY HolderSound
<1> QED
  BY <1>1, RowNumbers, LifecycleAssumption DEF IInv, Bounds, RowsBound, AttemptIds

\* What a report leaves in history, receipt and incidents.
LEMMA ObserveBound ==
  ASSUME IInv, Bounds, NEW w \in Workers, NEW o \in Reports, ObserveOperation(w, o)
  PROVE  IntentBound' /\ JobsBound' /\ ReceiptTyped' /\ HistoryTyped' /\ IncidentsTyped'
<1> PICK a : a = holding[w].attempt
  OBVIOUS
<1>1. HoldsLease(w) /\ a \in AttemptIds /\ attempts[a] \in Attempt
  BY HolderNumber, HolderSound DEF ObserveOperation
<1>2. ReportSound(o)
  BY ReportsSound
<1>3. JobsBound'
  <2>1. \E complete : FinishSuccessfulClaim(w, complete)
    BY DEF ObserveOperation, Redelivered, ApplyFresh, ApplyNothing, ApplyHead, ApplyPath
  <2> QED
    BY <1>1, <2>1, FinishBound
<1>4. HistoryTyped'
  <2>1. history' = history \/ history' = history \cup {Row(a, o)}
    BY DEF ObserveOperation, Redelivered, ApplyFresh
  <2>2. Row(a, o) \in [attempt : AttemptIds, source : {"rpc", "indexer"}, seq : 1 .. MaxSeq, head : Blocks]
    BY <1>1, <1>2 DEF Row, ReportSound
  <2> QED
    BY <2>1, <2>2 DEF Bounds, HistoryTyped
<1>5. CASE \E path : /\ path = Reduce(attempts[a], o).path /\ path # << >>
                     /\ Reduce(attempts[a], o).disposition = "APPLY" /\ ApplyPath(w, o, path)
  <2>1. PICK path : /\ path = Reduce(attempts[a], o).path /\ path # << >>
                    /\ Reduce(attempts[a], o).disposition = "APPLY" /\ ApplyPath(w, o, path)
    BY <1>5
  <2> PICK state : state = path[Len(path)]
    OBVIOUS
  <2>2. /\ state \in OnChain \cup {"FAILED", "DROPPED"} /\ Len(path) \in Nat
        /\ state \in {"INCLUDED", "CONFIRMED", "FINALIZED"} => o.kind = "INCLUDED"
    BY <1>1, <1>2, <2>1, ReduceSound
  <2>3. /\ receipt' = ReceiptAfter(a, state, o) /\ UNCHANGED incidents
        /\ \E s : Advance(s, Len(path))
    BY <2>1 DEF ApplyPath
  <2>4. IntentBound'
    BY <2>2, <2>3, AdvanceBound DEF IInv
  <2>5. ReceiptTyped'
    <3>1. CASE state \in {"FAILED", "DROPPED"}
      <4>1. NoReceipt \in [attempt : 0 .. MaxAttempts, state : IntentStates, canon : Blocks \cup {NoBlock}]
        BY LifecycleAssumption DEF NoReceipt, IntentStates
      <4>2. receipt' = NoReceipt \/ receipt' = receipt
        BY <2>3, <3>1 DEF ReceiptAfter
      <4> QED
        BY <4>1, <4>2 DEF Bounds, ReceiptTyped
    <3>2. CASE state \in OnChain
      <4>1. receipt' = [attempt |-> a, state |-> state,
                        canon |-> IF state = "REORGED" THEN NoBlock ELSE o.incl]
        BY <2>3, <3>2 DEF ReceiptAfter, OnChain
      <4>2. state \in IntentStates /\ a \in 0 .. MaxAttempts
        BY <1>1, <3>2, LifecycleAssumption DEF OnChain, IntentStates, AttemptIds
      <4>3. state # "REORGED" => o.incl \in Blocks
        BY <1>2, <2>2, <3>2 DEF OnChain, ReportSound
      <4> QED
        BY <4>1, <4>2, <4>3 DEF ReceiptTyped
    <3> QED
      BY <2>2, <3>1, <3>2
  <2>6. IncidentsTyped'
    BY <2>3 DEF Bounds, IncidentsTyped
  <2> QED
    BY <1>3, <1>4, <2>4, <2>5, <2>6
<1>6. CASE /\ UNCHANGED receipt
           /\ \E kind \in Kinds : \/ UNCHANGED <<intent, events, incidents>>
                                  \/ RecordIncident(a, kind)
  <2>1. IntentBound' /\ IncidentsTyped'
    BY <1>1, <1>6, IncidentBound
  <2>2. ReceiptTyped'
    BY <1>6 DEF Bounds, ReceiptTyped
  <2> QED
    BY <1>3, <1>4, <2>1, <2>2
<1>7. CASE Redelivered(w, o)
  <2>1. "OBSERVATION_HISTORY_CONTRADICTION" \in Kinds
    BY DEF Kinds
  <2>2. UNCHANGED receipt /\ (UNCHANGED <<intent, events, incidents>>
                              \/ RecordIncident(a, "OBSERVATION_HISTORY_CONTRADICTION"))
    BY <1>7 DEF Redelivered
  <2> QED
    BY <1>6, <2>1, <2>2
<1>8. CASE ApplyFresh(w, o)
  <2> PICK decision : decision = Reduce(attempts[a], o)
    OBVIOUS
  <2>1. CASE decision.disposition = "throw"
    <3>1. UNCHANGED receipt /\ \E kind \in ThrownKinds(a, o) : RecordIncident(a, kind)
      BY <1>8, <2>1 DEF ApplyFresh
    <3>2. ThrownKinds(a, o) \subseteq Kinds
      BY DEF ThrownKinds, Kinds
    <3> QED
      BY <1>6, <3>1, <3>2
  <2>2. CASE decision.disposition # "throw"
    <3>1. \/ ApplyNothing(w, o, decision.disposition)
          \/ ApplyHead(w, o)
          \/ decision.disposition = "APPLY" /\ decision.path # << >> /\ ApplyPath(w, o, decision.path)
      BY <1>8, <2>2 DEF ApplyFresh
    <3>2. CASE ApplyNothing(w, o, decision.disposition)
      <4>1. PICK kind : kind = IncidentKind(a, o, decision.disposition)
        OBVIOUS
      <4>2. kind \in Kinds \cup {"NONE"}
        BY <4>1 DEF IncidentKind, Kinds
      <4>3. UNCHANGED receipt /\ Opens(a, kind)
        BY <3>2, <4>1 DEF ApplyNothing
      <4>4. "OBSERVATION_HISTORY_CONTRADICTION" \in Kinds
        BY DEF Kinds
      <4> QED
        BY <1>6, <4>2, <4>3, <4>4 DEF Opens
    <3>3. CASE ApplyHead(w, o)
      <4>1. UNCHANGED <<receipt, intent, events, incidents>>
        BY <3>3 DEF ApplyHead
      <4>2. "OBSERVATION_HISTORY_CONTRADICTION" \in Kinds
        BY DEF Kinds
      <4> QED
        BY <1>6, <4>1, <4>2
    <3>4. CASE decision.disposition = "APPLY" /\ decision.path # << >> /\ ApplyPath(w, o, decision.path)
      BY <1>5, <3>4
    <3> QED
      BY <3>1, <3>2, <3>3, <3>4
  <2> QED
    BY <2>1, <2>2
<1> QED
  BY <1>7, <1>8 DEF ObserveOperation

\* Jobs move under the same claim number and no nearer to being given up.
LEMMA AttemptJobsBound ==
  ASSUME IInv, Bounds, NEW a \in AttemptIds, ScheduleReconciliation(a) \/ LeaseEnds(a)
  PROVE  JobsBound'
<1>1. a \in DOMAIN jobs /\ jobs[a].state \in {"complete", "processing"}
  BY DEF ScheduleReconciliation, LeaseEnds
<1>2. jobs[a] \in JobRow /\ jobs \in Seq(JobRow)
  BY <1>1, RowNumbers DEF IInv, Types
<1>3. DOMAIN jobs' = DOMAIN jobs /\ \A b \in DOMAIN jobs : b # a => jobs'[b] = jobs[b]
  BY <1>1, <1>2 DEF ScheduleReconciliation, LeaseEnds
<1>4. jobs'[a].generation = jobs[a].generation /\ jobs'[a].failures = jobs[a].failures
  BY <1>1, <1>2 DEF ScheduleReconciliation, LeaseEnds, JobRow
<1> QED
  BY <1>1, <1>3, <1>4 DEF Bounds, JobsBound

\* Every call of the authority, one by one.
LEMMA BoundsKept ==
  ASSUME IInv, Bounds, Next
  PROVE  Bounds'
<1>0. Types /\ IntentBound /\ RowsBound /\ JobsBound /\ ReceiptTyped /\ HistoryTyped /\ IncidentsTyped
      /\ expired \in BOOLEAN
  BY DEF IInv, Bounds
<1>1. CASE Prepare
  <2>1. IntentBound'
    BY <1>1, LifecycleAssumption DEF Prepare, IntentBound
  <2> QED
    BY <1>0, <1>1, <2>1
       DEF Prepare, Bounds, RowsBound, JobsBound, ReceiptTyped, HistoryTyped, IncidentsTyped
<1>2. CASE Expire \/ MarkAwaitingSignature
  <2>1. IntentBound'
    BY <1>0, <1>2, AdvanceBound DEF Expire, MarkAwaitingSignature
  <2> QED
    BY <1>0, <1>2, <2>1
       DEF Expire, MarkAwaitingSignature, Bounds, RowsBound, JobsBound, ReceiptTyped, HistoryTyped, IncidentsTyped
<1>3. CASE RegisterSubmittedAttempt
  <2>1. attempts \in Seq(Attempt)
    BY <1>0 DEF Types
  <2>2. IntentBound' /\ RowsBound' /\ JobsBound'
    BY <1>0, <1>3, <2>1, AdvanceBound, InsertBound DEF RegisterSubmittedAttempt
  <2> QED
    BY <1>0, <1>3, <2>2 DEF RegisterSubmittedAttempt, Bounds, ReceiptTyped, HistoryTyped, IncidentsTyped
<1>4. CASE PermitExpires
  BY <1>0, <1>4
     DEF PermitExpires, Bounds, IntentBound, RowsBound, JobsBound, ReceiptTyped, HistoryTyped, IncidentsTyped
<1>5. ASSUME NEW a \in AttemptIds, ReplaceAttempt(a) PROVE Bounds'
  <2>1. a \in DOMAIN attempts /\ attempts \in Seq(Attempt) /\ attempts[a] \in Attempt
    BY <1>0, <1>5, RowNumbers DEF ReplaceAttempt, Types
  <2> PICK rows : rows = [attempts EXCEPT ![a].state = "REPLACED"]
    OBVIOUS
  <2>2. [attempts[a] EXCEPT !.state = "REPLACED"] \in Attempt
    BY <2>1 DEF Attempt, AttemptStates
  <2>3. rows \in Seq(Attempt) /\ Len(rows) = Len(attempts)
    <3>1. rows = [attempts EXCEPT ![a] = [attempts[a] EXCEPT !.state = "REPLACED"]]
      BY <2>1
    <3> QED
      BY <2>1, <2>2, <3>1
  <2>4. Insert(rows, "replaces", a)
    BY <1>5 DEF ReplaceAttempt
  <2>5. RowsBound' /\ JobsBound'
    BY <2>3, <2>4, InsertBound
  <2>6. IntentBound'
    BY <1>0, <1>5, AdvanceBound DEF ReplaceAttempt
  <2> QED
    BY <1>0, <1>5, <2>5, <2>6 DEF ReplaceAttempt, Bounds, ReceiptTyped, HistoryTyped, IncidentsTyped
<1>6. ASSUME NEW a \in AttemptIds, RetryAttempt(a) PROVE Bounds'
  <2>1. attempts \in Seq(Attempt)
    BY <1>0 DEF Types
  <2>2. IntentBound' /\ RowsBound' /\ JobsBound'
    BY <1>0, <1>6, <2>1, AdvanceBound, InsertBound DEF RetryAttempt
  <2> QED
    BY <1>0, <1>6, <2>2 DEF RetryAttempt, Bounds, ReceiptTyped, HistoryTyped, IncidentsTyped
<1>7. ASSUME NEW a \in AttemptIds, ScheduleReconciliation(a) \/ LeaseEnds(a) PROVE Bounds'
  <2>1. JobsBound'
    BY <1>7, AttemptJobsBound
  <2> QED
    BY <1>0, <1>7, <2>1 DEF ScheduleReconciliation, LeaseEnds, Bounds, IntentBound, RowsBound,
                            ReceiptTyped, HistoryTyped, IncidentsTyped
<1>8. ASSUME NEW w \in Workers, NEW a \in AttemptIds, ClaimReconciliation(w, a) PROVE Bounds'
  <2>1. JobsBound'
    BY <1>8, ClaimBound
  <2> QED
    BY <1>0, <1>8, <2>1 DEF ClaimReconciliation, Bounds, IntentBound, RowsBound,
                            ReceiptTyped, HistoryTyped, IncidentsTyped
<1>9. ASSUME NEW w \in Workers, DropClaim(w) PROVE Bounds'
  BY <1>0, <1>9 DEF DropClaim, Bounds, IntentBound, RowsBound, JobsBound,
                    ReceiptTyped, HistoryTyped, IncidentsTyped
<1>10. ASSUME NEW w \in Workers, RecordReconciliationFailure(w) PROVE Bounds'
  <2>1. JobsBound'
    BY <1>10, FailureBound
  <2>2. holding[w].attempt \in AttemptIds /\ "RECONCILIATION_EXHAUSTED" \in Kinds
    BY <1>10, HolderNumber DEF RecordReconciliationFailure, Kinds
  <2>3. \/ UNCHANGED <<intent, events, incidents>>
        \/ RecordIncident(holding[w].attempt, "RECONCILIATION_EXHAUSTED")
    BY <1>10 DEF RecordReconciliationFailure
  <2>4. IntentBound' /\ IncidentsTyped'
    BY <2>2, <2>3, IncidentBound
  <2>5. UNCHANGED <<expired, attempts, receipt, history>>
    BY <1>10 DEF RecordReconciliationFailure
  <2> QED
    BY <1>0, <2>1, <2>4, <2>5 DEF Bounds, RowsBound, ReceiptTyped, HistoryTyped
<1>11. ASSUME NEW w \in Workers, NEW o \in Reports, ObserveOperation(w, o) PROVE Bounds'
  <2>1. IntentBound' /\ JobsBound' /\ ReceiptTyped' /\ HistoryTyped' /\ IncidentsTyped'
    BY <1>11, ObserveBound
  <2>2. HoldsLease(w) /\ UNCHANGED expired
    BY <1>11 DEF ObserveOperation
  <2>3. Len(attempts') = Len(attempts)
    <3>1. attempts \in Seq(Attempt)
      BY <1>0 DEF Types
    <3>2. attempts' = attempts \/ \E a, row : attempts' = [attempts EXCEPT ![a] = row]
      <4>1. CASE Redelivered(w, o)
        BY <4>1 DEF Redelivered
      <4>2. CASE ApplyFresh(w, o)
        <5>1. \/ attempts' = attempts
              \/ \E d : ApplyNothing(w, o, d)
              \/ ApplyHead(w, o)
              \/ \E p : ApplyPath(w, o, p)
          BY <4>2 DEF ApplyFresh
        <5>2. ASSUME NEW d, ApplyNothing(w, o, d)
              PROVE  \E a, row : attempts' = [attempts EXCEPT ![a] = row]
          BY <5>2 DEF ApplyNothing
        <5>3. ASSUME ApplyHead(w, o)
              PROVE  \E a, row : attempts' = [attempts EXCEPT ![a] = row]
          BY <5>3 DEF ApplyHead
        <5>4. ASSUME NEW p, ApplyPath(w, o, p)
              PROVE  \E a, row : attempts' = [attempts EXCEPT ![a] = row]
          BY <5>4 DEF ApplyPath
        <5> QED
          BY <5>1, <5>2, <5>3, <5>4
      <4> QED
        BY <1>11, <4>1, <4>2 DEF ObserveOperation
    <3>3. ASSUME NEW a, NEW row, attempts' = [attempts EXCEPT ![a] = row]
          PROVE  Len(attempts') = Len(attempts)
      <4>1. DOMAIN attempts' = DOMAIN attempts /\ DOMAIN attempts = 1 .. Len(attempts)
        BY <3>1, <3>3
      <4> QED
        BY <3>1, <3>3, <4>1
    <3> QED
      BY <3>2, <3>3
  <2> QED
    BY <1>0, <2>1, <2>2, <2>3 DEF Bounds, RowsBound
<1> QED
  BY <1>1, <1>2, <1>3, <1>4, <1>5, <1>6, <1>7, <1>8, <1>9, <1>10, <1>11 DEF Next

\* Before the first call.
LEMMA InitBounds == Init => Bounds
<1> SUFFICES ASSUME Init PROVE Bounds
  OBVIOUS
<1>1. IntentBound /\ RowsBound /\ JobsBound
  BY LifecycleAssumption DEF Init, IntentBound, RowsBound, JobsBound
<1>2. ReceiptTyped
  BY LifecycleAssumption DEF Init, ReceiptTyped, NoReceipt, IntentStates
<1> QED
  BY <1>1, <1>2 DEF Init, Bounds, HistoryTyped, IncidentsTyped

\* Every column keeps its type, and no counter passes its bound: a job is given
\* up at the failure that MaxFailures allows last, a claim of a worker is never
\* younger than its job, and whatever is reported, receipt and incidents are of
\* attempts that exist.
THEOREM TypesAlwaysHold == Spec => []TypeOK
<1>1. IInv /\ Bounds /\ [Next]_vars => Bounds'
  <2>1. ASSUME IInv, Bounds, UNCHANGED vars PROVE Bounds'
    BY <2>1 DEF vars, Bounds, IntentBound, RowsBound, JobsBound, ReceiptTyped, HistoryTyped, IncidentsTyped
  <2> QED
    BY <2>1, BoundsKept
<1>2. IInv /\ Bounds => TypeOK
  BY BoundsType
<1> QED
  BY AlwaysIInv, InitBounds, <1>1, <1>2, PTL DEF Spec
=============================================================================
