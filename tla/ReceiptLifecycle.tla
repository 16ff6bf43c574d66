-------------------------- MODULE ReceiptLifecycle --------------------------
(***************************************************************************)
(* The life of one receipt intent: packages/persistence/src/               *)
(* receipt-lifecycle-authority.ts over the tables, CHECKs and triggers of  *)
(* migration 0006.  A subject prepares, reviews and submits; an operator   *)
(* replaces and retries attempts; workers lease the reconciliation job of  *)
(* each attempt and bring it reports of the chain, late, twice, out of     *)
(* order and from two sources; PostgreSQL time passes the permit's expiry  *)
(* and the ends of leases.                                                 *)
(*                                                                         *)
(* Every call is one transaction that locks the intent and its attempts,   *)
(* so each is one action.  A transaction the schema refuses changes        *)
(* nothing.  Counters of the account, operation indices and the backoff of *)
(* a job are not kept; a worker is a holder of one claim at a time.        *)
(***************************************************************************)
EXTENDS ReceiptObservation

CONSTANTS
    Workers,       \* concurrent callers of claimReconciliation
    MaxAttempts,   \* bound: attempts of the intent
    MaxClaims,     \* bound: claims of all the jobs together
    MaxHistory,    \* bound: recorded reports
    MaxFailures,   \* maximumConsecutiveFailures
    MaxRevision    \* bound: projection revision

ASSUME LifecycleAssumption ==
    /\ MaxAttempts \in Nat \ {0}
    /\ MaxClaims \in Nat \ {0}
    /\ MaxHistory \in Nat \ {0}
    /\ MaxFailures \in Nat \ {0}
    /\ MaxRevision \in Nat \ {0}   \* creation and review are events 0 and 1

VARIABLES
    intent,     \* receipt_intents: its state and projection_revision
    expired,    \* clock_timestamp() has reached expires_at
    attempts,   \* operation_attempts, in the order they were inserted
    receipt,    \* service_receipts: at most one row, for intent_id is unique
    jobs,       \* receipt_reconciliation_jobs, one for each attempt
    history,    \* receipt_chain_observations
    incidents,  \* receipt_incidents that are open, by attempt and kind
    events,     \* how many receipt_lifecycle_events were written
    holding     \* the claim each worker holds

vars == <<intent, expired, attempts, receipt, jobs, history, incidents, events, holding>>

AttemptIds == 1 .. MaxAttempts
IntentStates == {"NONE", "REVIEWED", "AWAITING_SIGNATURE", "EXPIRED", "SUBMITTED",
                 "INCLUDED", "CONFIRMED", "FINALIZED", "REORGED"}
Kinds == {"OBSERVATION_HISTORY_CONTRADICTION", "RPC_INDEXER_DIVERGENCE",
          "CHAIN_OR_MANIFEST_DRIFT", "FINALIZED_CHAIN_CONTRADICTION",
          "CANONICAL_ATTEMPT_CONFLICT", "RECEIPT_EVENT_IDENTITY_MISMATCH",
          "RECONCILIATION_EXHAUSTED"}
NoClaim == [attempt |-> 0, generation |-> 0]
NoReceipt == [attempt |-> 0, state |-> "NONE", canon |-> NoBlock]

Attempt == [state : AttemptStates, lineage : {"root", "replaces", "retry"},
            pred : 0 .. MaxAttempts, canon : Blocks \cup {NoBlock},
            head : Blocks \cup {NoBlock}, confirmations : 0 .. MaxLevel,
            rpcSeq : 0 .. MaxSeq, indexerSeq : 0 .. MaxSeq]

Job == [state : {"pending", "processing", "complete", "dead-letter"},
        generation : 0 .. MaxClaims, live : BOOLEAN, failures : 0 .. MaxFailures]

-----------------------------------------------------------------------------
(* CHECKs and the lineage trigger, which runs at commit for every attempt   *)
(* row that the transaction inserted or updated.                            *)

ShapeAdmits(att) ==
    /\ att.state = "SUBMITTED" => att.canon = NoBlock /\ att.confirmations = 0
    /\ att.state \in {"INCLUDED", "CONFIRMED", "FINALIZED"} =>
           /\ att.canon # NoBlock
           /\ att.confirmations = att.head.level - att.canon.level + 1
           /\ att.state = "INCLUDED" => att.confirmations = 1
           /\ att.state # "INCLUDED" => att.confirmations >= 2
    /\ att.state \notin {"INCLUDED", "CONFIRMED", "FINALIZED"} =>
           att.canon = NoBlock /\ att.confirmations = 0

\* assert_receipt_attempt_lineage
LineageAdmits(rows, a) ==
    /\ rows[a].lineage = "replaces" => rows[rows[a].pred].state = "REPLACED"
    /\ rows[a].lineage = "retry" =>
           /\ rows[rows[a].pred].state \in {"FAILED", "DROPPED"}
           /\ rows[a].state = "SUBMITTED"
    /\ rows[a].state = "REPLACED" =>
           Cardinality({b \in DOMAIN rows : rows[b].lineage = "replaces" /\ rows[b].pred = a}) = 1

Admits(rows, touched) ==
    /\ \A a \in touched : ShapeAdmits(rows[a]) /\ LineageAdmits(rows, a)
    \* replaces_attempt_id and retry_of_attempt_id are unique, and so is the root
    /\ \A a, b \in DOMAIN rows :
           rows[a].lineage = rows[b].lineage /\ rows[a].pred = rows[b].pred => a = b

-----------------------------------------------------------------------------
(* writeEvent: one more event, under the revision the intent now has. *)
WriteEvents(n) ==
    /\ intent.revision + n <= MaxRevision
    /\ events' = events + n

Advance(state, n) ==
    /\ WriteEvents(n)
    /\ intent' = [state |-> state, revision |-> intent.revision + n]

\* prepareSettledReceiptIntent, of a key that has no intent yet: the events of
\* creation and review are 0 and 1.  Of a key that has one it only answers.
Prepare ==
    /\ intent.state = "NONE"
    /\ ~expired
    /\ intent' = [state |-> "REVIEWED", revision |-> 1]
    /\ events' = 2
    /\ UNCHANGED <<expired, attempts, receipt, jobs, history, incidents, holding>>

\* expireLockedIntent, by markAwaitingSignature or registerSubmittedAttempt.
\* A restoration past expiry rolls the same write back when it refuses.
Expire ==
    /\ expired
    /\ intent.state \in {"REVIEWED", "AWAITING_SIGNATURE"}
    /\ Advance("EXPIRED", 1)
    /\ UNCHANGED <<expired, attempts, receipt, jobs, history, incidents, holding>>

MarkAwaitingSignature ==
    /\ intent.state = "REVIEWED"
    /\ ~expired
    /\ Advance("AWAITING_SIGNATURE", 1)
    /\ UNCHANGED <<expired, attempts, receipt, jobs, history, incidents, holding>>

NewAttempt(lineage, pred) ==
    [state |-> "SUBMITTED", lineage |-> lineage, pred |-> pred, canon |-> NoBlock,
     head |-> NoBlock, confirmations |-> 0, rpcSeq |-> 0, indexerSeq |-> 0]

NewJob == [state |-> "pending", generation |-> 0, live |-> FALSE, failures |-> 0]

\* The attempt and its job are inserted together.
Insert(rows, lineage, pred) ==
    LET id == Len(rows) + 1
        inserted == Append(rows, NewAttempt(lineage, pred)) IN
    /\ id \in AttemptIds
    /\ Admits(inserted, {id} \cup {a \in DOMAIN attempts : rows[a] # attempts[a]})
    /\ attempts' = inserted
    /\ jobs' = Append(jobs, NewJob)

RegisterSubmittedAttempt ==
    /\ intent.state = "AWAITING_SIGNATURE"
    /\ ~expired
    /\ Insert(attempts, "root", 0)
    /\ Advance("SUBMITTED", 1)
    /\ UNCHANGED <<expired, receipt, history, incidents, holding>>

ReplaceAttempt(p) ==
    /\ p \in DOMAIN attempts
    /\ attempts[p].state = "SUBMITTED"
    /\ Insert([attempts EXCEPT ![p].state = "REPLACED"], "replaces", p)
    /\ Advance(intent.state, 1)
    /\ UNCHANGED <<expired, receipt, history, incidents, holding>>

\* Mutant: whatever is not on its way may be tried again.
RetryAnything(p) ==
    /\ p \in DOMAIN attempts
    /\ attempts[p].state \in {"FAILED", "DROPPED", "REORGED", "FINALIZED"}
    /\ attempts' = Append(attempts, NewAttempt("retry", p))
    /\ jobs' = Append(jobs, NewJob)
    /\ Len(attempts) < MaxAttempts
    /\ Advance("SUBMITTED", 1)
    /\ UNCHANGED <<expired, receipt, history, incidents, holding>>

RetryAttempt(p) ==
    /\ p \in DOMAIN attempts
    /\ attempts[p].state \in {"FAILED", "DROPPED"}
    /\ Insert(attempts, "retry", p)
    /\ Advance("SUBMITTED", 1)
    /\ UNCHANGED <<expired, receipt, history, incidents, holding>>

-----------------------------------------------------------------------------
(* The reconciliation jobs. *)

\* The claims of a job are numbered from 1 to its generation.
ClaimsTaken ==
    Cardinality({c \in (DOMAIN jobs) \X (1 .. MaxClaims) : c[2] <= jobs[c[1]].generation})

\* Mutant: a lease need not have run out to be taken over.
ClaimLeased(w, a) ==
    /\ holding[w] = NoClaim
    /\ a \in DOMAIN jobs
    /\ ClaimsTaken < MaxClaims
    /\ jobs[a].state \in {"pending", "processing"}
    /\ jobs' = [jobs EXCEPT ![a].state = "processing", ![a].generation = @ + 1, ![a].live = TRUE]
    /\ holding' = [holding EXCEPT ![w] = [attempt |-> a, generation |-> jobs[a].generation + 1]]
    /\ UNCHANGED <<intent, expired, attempts, receipt, history, incidents, events>>

ClaimReconciliation(w, a) ==
    /\ holding[w] = NoClaim
    /\ a \in DOMAIN jobs
    /\ ClaimsTaken < MaxClaims
    /\ \/ jobs[a].state = "pending"
       \/ jobs[a].state = "processing" /\ ~jobs[a].live
    /\ jobs' = [jobs EXCEPT ![a].state = "processing", ![a].generation = @ + 1, ![a].live = TRUE]
    /\ holding' = [holding EXCEPT ![w] = [attempt |-> a, generation |-> jobs[a].generation + 1]]
    /\ UNCHANGED <<intent, expired, attempts, receipt, history, incidents, events>>

ScheduleReconciliation(a) ==
    /\ a \in DOMAIN jobs
    /\ jobs[a].state = "complete"   \* of a pending job only the time it is due at moves
    /\ jobs' = [jobs EXCEPT ![a].state = "pending"]
    /\ UNCHANGED <<intent, expired, attempts, receipt, history, incidents, events, holding>>

LeaseEnds(a) ==
    /\ a \in DOMAIN jobs
    /\ jobs[a].state = "processing"
    /\ jobs[a].live
    /\ jobs' = [jobs EXCEPT ![a].live = FALSE]
    /\ UNCHANGED <<intent, expired, attempts, receipt, history, incidents, events, holding>>

\* After the registration of an attempt nothing reads the expiry again.
PermitExpires ==
    /\ ~expired
    /\ attempts = <<>>
    /\ expired' = TRUE
    /\ UNCHANGED <<intent, attempts, receipt, jobs, history, incidents, events, holding>>

\* The row is processing under this very claim, and the lease has not ended.
HoldsLease(w) ==
    LET c == holding[w] IN
    /\ c # NoClaim
    /\ jobs[c.attempt].state = "processing"
    /\ jobs[c.attempt].generation = c.generation
    /\ jobs[c.attempt].live

\* ReceiptWorkerClaimLostError, or a worker that dies.
DropClaim(w) ==
    /\ holding[w] # NoClaim
    /\ holding' = [holding EXCEPT ![w] = NoClaim]
    /\ UNCHANGED <<intent, expired, attempts, receipt, jobs, history, incidents, events>>

\* Mutant: a hint settles the job of its attempt for good.
FinishAlways(w, complete) ==
    /\ jobs' = [jobs EXCEPT ![holding[w].attempt] =
                   [@ EXCEPT !.state = "complete", !.live = FALSE, !.failures = 0]]
    /\ holding' = [holding EXCEPT ![w] = NoClaim]

FinishSuccessfulClaim(w, complete) ==
    /\ jobs' = [jobs EXCEPT ![holding[w].attempt] =
                   [@ EXCEPT !.state = IF complete THEN "complete" ELSE "pending",
                             !.live = FALSE, !.failures = 0]]
    /\ holding' = [holding EXCEPT ![w] = NoClaim]

\* recordIncident: opened, or one more occurrence, and in either case an event.
RecordIncident(a, kind) ==
    /\ incidents' = incidents \cup {<<a, kind>>}
    /\ Advance(intent.state, 1)

\* Mutant: the last failure is one too late.
FailForever(w) ==
    /\ HoldsLease(w)
    /\ LET a == holding[w].attempt
           failures == jobs[a].failures + 1
           dead == failures > MaxFailures IN
       /\ jobs' = [jobs EXCEPT ![a] =
                      [@ EXCEPT !.state = IF dead THEN "dead-letter" ELSE "pending",
                                !.live = FALSE, !.failures = failures]]
       /\ holding' = [holding EXCEPT ![w] = NoClaim]
       /\ IF dead THEN RecordIncident(a, "RECONCILIATION_EXHAUSTED")
                  ELSE UNCHANGED <<incidents, intent, events>>
    /\ UNCHANGED <<expired, attempts, receipt, history>>

RecordReconciliationFailure(w) ==
    /\ HoldsLease(w)
    /\ LET a == holding[w].attempt
           failures == jobs[a].failures + 1
           dead == failures >= MaxFailures IN
       /\ jobs' = [jobs EXCEPT ![a] =
                      [@ EXCEPT !.state = IF dead THEN "dead-letter" ELSE "pending",
                                !.live = FALSE, !.failures = failures]]
       /\ holding' = [holding EXCEPT ![w] = NoClaim]
       /\ IF dead THEN RecordIncident(a, "RECONCILIATION_EXHAUSTED")
                  ELSE UNCHANGED <<incidents, intent, events>>
    /\ UNCHANGED <<expired, attempts, receipt, history>>

-----------------------------------------------------------------------------
(* applyObservation *)

Recorded(a, o) == {r \in history : r.attempt = a /\ r.source = o.source /\ r.seq = o.seq}
Row(a, o) == [attempt |-> a, source |-> o.source, seq |-> o.seq, head |-> o.head]

\* A report that was recorded before: the same, or another under its sequence.
Redelivered(w, o) ==
    LET a == holding[w].attempt IN
    /\ Recorded(a, o) # {}
    /\ \/ /\ \A r \in Recorded(a, o) : r.head = o.head
          /\ UNCHANGED <<intent, events, incidents>>
       \/ RecordIncident(a, "OBSERVATION_HISTORY_CONTRADICTION")
    /\ FinishSuccessfulClaim(w, attempts[a].state = "FINALIZED")
    /\ UNCHANGED <<attempts, receipt, history>>

\* The other source has told of another block at the level of this head.
Diverges(a, o) ==
    \E r \in history : /\ r.attempt = a
                       /\ r.source # o.source
                       /\ r.head.level = o.head.level
                       /\ r.head # o.head

\* What is opened when the reducer throws: which of the reports of another
\* block was the latest is not kept, so any of them may be.
ThrownKinds(a, o) ==
    LET others == {r \in history : /\ r.attempt = a
                                   /\ r.head.level = o.head.level
                                   /\ r.head # o.head} IN
    IF ~OtherHead(attempts[a], o) THEN {"CHAIN_OR_MANIFEST_DRIFT"}
    ELSE IF others = {} THEN {"OBSERVATION_HISTORY_CONTRADICTION"}
    ELSE {IF r.source # o.source THEN "RPC_INDEXER_DIVERGENCE"
          ELSE "OBSERVATION_HISTORY_CONTRADICTION" : r \in others}

\* The inclusion of an attempt while another one holds the receipt.
Conflicts(a, o) ==
    LET path == Reduce(attempts[a], o).path IN
    /\ receipt.attempt \notin {NoReceipt.attempt, a}
    /\ \E i \in DOMAIN path : path[i] = "INCLUDED"

\* The incident that a recorded report opens; "NONE" when it opens none.
IncidentKind(a, o, disposition) ==
    CASE Diverges(a, o) -> "RPC_INDEXER_DIVERGENCE"
      [] disposition = "FINALIZED_CONTRADICTION" /\ ~Diverges(a, o) ->
             "FINALIZED_CHAIN_CONTRADICTION"
      [] disposition = "ATTEMPT_CONTRADICTION" /\ ~Diverges(a, o) ->
             IF attempts[a].state = "REPLACED" /\ o.kind = "INCLUDED"
             THEN "CANONICAL_ATTEMPT_CONFLICT" ELSE "CHAIN_OR_MANIFEST_DRIFT"
      [] disposition = "APPLY" /\ ~Diverges(a, o) /\ ~o.genuine ->
             "RECEIPT_EVENT_IDENTITY_MISMATCH"
      [] disposition = "APPLY" /\ ~Diverges(a, o) /\ o.genuine /\ Conflicts(a, o) ->
             "CANONICAL_ATTEMPT_CONFLICT"
      [] OTHER -> "NONE"

\* Is the job done with after a report that changes no attempt?  A hint leaves
\* it to be done again, and so do, unless the sources diverge, a stale report and
\* one that is not of this intent or conflicts with its receipt.
DoneAfter(a, o, disposition) ==
    /\ attempts[a].state = "FINALIZED"
    /\ disposition # "HINT"
    /\ disposition \in {"STALE", "APPLY"} => Diverges(a, o)

\* applyTransition, for the last of the states the attempt goes through.
Written(att, state, o) ==
    CASE state = "INCLUDED" ->
           [att EXCEPT !.state = state, !.canon = o.incl, !.head = o.incl,
                       !.confirmations = 1, !.rpcSeq = o.seq]
      [] state \in {"CONFIRMED", "FINALIZED"} ->
           [att EXCEPT !.state = state, !.canon = o.incl, !.head = o.head,
                       !.confirmations = Confirmations(o), !.rpcSeq = o.seq]
      [] OTHER ->
           [att EXCEPT !.state = state, !.canon = NoBlock, !.head = o.head,
                       !.confirmations = 0, !.rpcSeq = o.seq]

\* Mutant: the receipt of an attempt that failed is left behind.
ReceiptKept(a, state, o) ==
    IF state \in {"FAILED", "DROPPED"} THEN receipt
    ELSE [attempt |-> a, state |-> state,
          canon |-> IF state = "REORGED" THEN NoBlock ELSE o.incl]

ReceiptAfter(a, state, o) ==
    IF state \in {"FAILED", "DROPPED"}
    THEN IF receipt.attempt = a THEN NoReceipt ELSE receipt
    ELSE [attempt |-> a, state |-> state,
          canon |-> IF state = "REORGED" THEN NoBlock ELSE o.incl]

\* A report that moves the attempt along a path of transitions.
ApplyPath(w, o, path) ==
    LET a == holding[w].attempt
        state == path[Len(path)]
        rows == [attempts EXCEPT ![a] = Written(@, state, o)] IN
    /\ Admits(rows, {a})
    /\ attempts' = rows
    /\ receipt' = ReceiptAfter(a, state, o)
    /\ Advance(IF state \in {"FAILED", "DROPPED"} THEN "SUBMITTED" ELSE state, Len(path))
    /\ UNCHANGED incidents
    /\ FinishSuccessfulClaim(w, state \in Concluded)

\* A report that only tells of a later head.
ApplyHead(w, o) ==
    LET a == holding[w].attempt
        seen == [attempts[a] EXCEPT !.rpcSeq = o.seq, !.head = o.head]
        rows == [attempts EXCEPT ![a] =
                    IF o.kind = "INCLUDED" THEN [seen EXCEPT !.confirmations = Confirmations(o)]
                    ELSE seen] IN
    /\ Admits(rows, {a})
    /\ attempts' = rows
    /\ UNCHANGED <<receipt, intent, events, incidents>>
    /\ FinishSuccessfulClaim(w, attempts[a].state \in Concluded)

Opens(a, kind) ==
    IF kind = "NONE" THEN UNCHANGED <<intent, events, incidents>> ELSE RecordIncident(a, kind)

\* A report that is recorded, and changes neither attempt nor receipt; a hint
\* is remembered by its sequence.
ApplyNothing(w, o, disposition) ==
    LET a == holding[w].attempt
        rows == [attempts EXCEPT ![a].indexerSeq = IF disposition = "HINT" THEN o.seq ELSE @] IN
    /\ disposition = "HINT" => Admits(rows, {a})
    /\ attempts' = rows
    /\ UNCHANGED receipt
    /\ Opens(a, IncidentKind(a, o, disposition))
    /\ FinishSuccessfulClaim(w, DoneAfter(a, o, disposition))

ApplyFresh(w, o) ==
    LET a == holding[w].attempt
        decision == Reduce(attempts[a], o) IN
    /\ Recorded(a, o) = {}
    /\ IF decision.disposition = "throw"
       THEN /\ \E kind \in ThrownKinds(a, o) : RecordIncident(a, kind)
            /\ FinishSuccessfulClaim(w, attempts[a].state = "FINALIZED")
            /\ UNCHANGED <<attempts, receipt, history>>
       ELSE /\ Cardinality(history) < MaxHistory
            /\ history' = history \cup {Row(a, o)}
            /\ IF decision.disposition # "APPLY" \/ IncidentKind(a, o, "APPLY") # "NONE"
               THEN ApplyNothing(w, o, decision.disposition)
               ELSE IF decision.path = <<>> THEN ApplyHead(w, o)
               ELSE ApplyPath(w, o, decision.path)

ObserveOperation(w, o) ==
    /\ HoldsLease(w)
    /\ Redelivered(w, o) \/ ApplyFresh(w, o)
    /\ UNCHANGED expired

-----------------------------------------------------------------------------
Init ==
    /\ intent = [state |-> "NONE", revision |-> 0]
    /\ expired = FALSE
    /\ attempts = <<>>
    /\ receipt = NoReceipt
    /\ jobs = <<>>
    /\ history = {}
    /\ incidents = {}
    /\ events = 0
    /\ holding = [w \in Workers |-> NoClaim]

Next ==
    \/ Prepare
    \/ Expire
    \/ MarkAwaitingSignature
    \/ RegisterSubmittedAttempt
    \/ PermitExpires
    \/ \E a \in AttemptIds : \/ ReplaceAttempt(a)
                             \/ RetryAttempt(a)
                             \/ ScheduleReconciliation(a)
                             \/ LeaseEnds(a)
    \/ \E w \in Workers : \/ \E a \in AttemptIds : ClaimReconciliation(w, a)
                          \/ DropClaim(w)
                          \/ RecordReconciliationFailure(w)
                          \/ \E o \in Reports : ObserveOperation(w, o)

Spec == Init /\ [][Next]_vars

-----------------------------------------------------------------------------
TypeOK ==
    /\ intent \in [state : IntentStates, revision : 0 .. MaxRevision]
    /\ expired \in BOOLEAN
    /\ DOMAIN attempts = 1 .. Len(attempts) /\ Len(attempts) <= MaxAttempts
    /\ \A a \in DOMAIN attempts : attempts[a] \in Attempt
    /\ receipt \in [attempt : 0 .. MaxAttempts, state : IntentStates,
                    canon : Blocks \cup {NoBlock}]
    /\ DOMAIN jobs = DOMAIN attempts
    /\ \A a \in DOMAIN jobs : jobs[a] \in Job
    /\ history \subseteq [attempt : AttemptIds, source : {"rpc", "indexer"},
                          seq : 1 .. MaxSeq, head : Blocks]
    /\ incidents \subseteq AttemptIds \X Kinds
    /\ events \in 0 .. MaxRevision + 1
    /\ holding \in [Workers -> [attempt : 0 .. MaxAttempts, generation : 0 .. MaxClaims]]

Live(a) == attempts[a].state \notin {"FAILED", "DROPPED", "REPLACED"}

\* Of all the attempts that replacing and retrying make, at most one can still
\* be, or is already, the one that settles: two would be two operations.
OneLiveAttempt ==
    \A a, b \in DOMAIN attempts : Live(a) /\ Live(b) => a = b

\* The three rows a reader may ask agree: the receipt exists exactly when an
\* attempt is on chain or was orphaned, tells its state and block, and the
\* intent tells the same; so no failed, dropped or replaced one shows a receipt.
\* The revision of the intent is the place of the last event in its log.
ProjectionsAgree ==
    /\ \A a \in DOMAIN attempts :
           attempts[a].state \in {"INCLUDED", "CONFIRMED", "FINALIZED", "REORGED"} =>
               /\ receipt = [attempt |-> a, state |-> attempts[a].state,
                             canon |-> attempts[a].canon]
               /\ intent.state = attempts[a].state
    /\ receipt # NoReceipt =>
           /\ receipt.attempt \in DOMAIN attempts
           /\ receipt.state = attempts[receipt.attempt].state
    /\ events = IF intent.state = "NONE" THEN 0 ELSE intent.revision + 1

\* An attempt that may still be included is looked after: its job is due or
\* leased, unless it was given up, and then an incident is open.
NoAttemptForgotten ==
    \A a \in DOMAIN attempts :
        /\ jobs[a].state = "complete" => attempts[a].state \in Concluded
        /\ jobs[a].state = "dead-letter" => <<a, "RECONCILIATION_EXHAUSTED">> \in incidents

\* Finality stands: whatever is reported late, by whatever source and through a
\* job that was scheduled again, the attempt stays in the block it was final in,
\* and so do the receipt and the intent.
FinalityStands ==
    [][\A a \in DOMAIN attempts :
           attempts[a].state = "FINALIZED" =>
               /\ attempts'[a].state = "FINALIZED"
               /\ attempts'[a].canon = attempts[a].canon
               /\ attempts'[a].confirmations >= attempts[a].confirmations
               /\ receipt' = receipt
               /\ intent'.state = "FINALIZED"]_vars

\* A worker whose lease runs is alone with the job: until the lease ends, no
\* one else claims it, settles it, fails it or schedules it.
LeaseProtects ==
    [][\A w \in Workers :
           HoldsLease(w) /\ holding'[w] = holding[w] =>
               LET a == holding[w].attempt IN
               jobs'[a] = [jobs[a] EXCEPT !.live = jobs'[a].live]]_vars

\* A submitted attempt, be it the first, a replacement or an independent retry,
\* can be recorded as included when the chain has included it.
SubmittedCanBeIncluded ==
    \A a \in DOMAIN attempts :
        attempts[a].state = "SUBMITTED" =>
            LineageAdmits([attempts EXCEPT ![a].state = "INCLUDED"], a)
=============================================================================
