------------------------------- MODULE Outbox -------------------------------
(***************************************************************************)
(* The outbox delivery service of packages/persistence/src/outbox.ts:      *)
(* workers claim batches of undelivered events under a lease, publish      *)
(* them, and report delivery or failure, while leases run out, workers     *)
(* die, calls are delayed or repeated, and subjects are deleted with their *)
(* events.                                                                 *)
(*                                                                         *)
(* Each call is one transaction that locks the rows it changes, so each is *)
(* one action.  A lease and a backoff are known by whether PostgreSQL time *)
(* has reached their end.  The workers are not in the repository: they are *)
(* taken to publish under a claim before they report it delivered, and to  *)
(* call at any time, any number of times, with any claim they were issued. *)
(***************************************************************************)
EXTENDS Integers, Sequences, FiniteSets

CONSTANTS
    Events,       \* event ids
    Tokens,       \* claim tokens, as many as there can be calls of claim
    None,         \* no token
    MaxAttempts,  \* OutboxDeliveryPolicy.maxAttempts
    Limit         \* most events one claim takes

ASSUME OutboxAssumption ==
    /\ MaxAttempts \in Nat \ {0}
    /\ Limit \in Nat \ {0}
    /\ None \notin Tokens

VARIABLES
    delivery,   \* the outbox_deliveries row of each event
    issued,     \* claims that were ever returned to a worker
    published   \* external: claims under which a worker published the event

vars == <<delivery, issued, published>>

States == {"absent", "pending", "processing", "delivered", "dead-letter", "deleted"}

(***************************************************************************)
(* claim_generation = attempt_count is a CHECK of the table: one counter   *)
(* stands for both.  "open" says that claim_expires_at (of a row that is   *)
(* processing) is still to come; "ready" that available_at (of one that is *)
(* pending) has come.                                                      *)
(***************************************************************************)
Row == [state      : States,
        attempts   : 0 .. MaxAttempts,
        claimToken : Tokens \cup {None},
        open       : BOOLEAN,
        ready      : BOOLEAN,
        failed     : BOOLEAN]   \* last_error_code is not null

Unclaimed(state, ready) ==
    [state |-> state, attempts |-> 0, claimToken |-> None,
     open |-> FALSE, ready |-> ready, failed |-> FALSE]

Claims == [event : Events, claimToken : Tokens, generation : 1 .. MaxAttempts]

-----------------------------------------------------------------------------
(* A command commits its event together with a pending delivery. *)
Enqueue(e) ==
    /\ delivery[e].state = "absent"
    /\ delivery' = [delivery EXCEPT ![e] = Unclaimed("pending", TRUE)]
    /\ UNCHANGED <<issued, published>>

\* ON DELETE CASCADE from the subject that owned the event.
Delete(e) ==
    /\ delivery[e].state \notin {"absent", "deleted"}
    /\ delivery' = [delivery EXCEPT ![e] = Unclaimed("deleted", FALSE)]
    /\ UNCHANGED <<issued, published>>

Abandoned(e) == delivery[e].state = "processing" /\ ~delivery[e].open

\* Mutant: exhausted leases are left where they are.
ExhaustedIgnored == {}

Exhausted == {e \in Events : Abandoned(e) /\ delivery[e].attempts >= MaxAttempts}

Candidates ==
    {e \in Events : \/ delivery[e].state = "pending" /\ delivery[e].ready
                    \/ Abandoned(e) /\ delivery[e].attempts < MaxAttempts}

(***************************************************************************)
(* claim: exhausted leases become dead letters, and a batch of candidates  *)
(* is leased under one fresh token.  Rows that others have locked are      *)
(* skipped, so the batch is any set of candidates within the limit.        *)
(***************************************************************************)
Claim(batch, token) ==
    /\ batch \subseteq Candidates
    /\ Cardinality(batch) <= Limit
    /\ Exhausted \cup batch # {}
    /\ batch # {} => token \notin {c.claimToken : c \in issued}   \* randomUUID
    /\ delivery' = [e \in Events |->
           IF e \in Exhausted
           THEN [delivery[e] EXCEPT !.state = "dead-letter", !.claimToken = None,
                                    !.open = FALSE, !.failed = TRUE]
           ELSE IF e \in batch
           THEN [state |-> "processing", attempts |-> delivery[e].attempts + 1,
                 claimToken |-> token, open |-> TRUE, ready |-> FALSE,
                 failed |-> delivery[e].failed]
           ELSE delivery[e]]
    /\ issued' = issued \cup
           {[event |-> e, claimToken |-> token, generation |-> delivery[e].attempts + 1] :
               e \in batch}
    /\ UNCHANGED published

\* External: a worker hands the event of one of its claims to its consumer.
Publish(c) ==
    /\ c \in issued \ published
    /\ published' = published \cup {c}
    /\ UNCHANGED <<delivery, issued>>

\* Mutant: the end of the lease is not looked at.
LiveClaimOvertime(c) ==
    /\ delivery[c.event].state = "processing"
    /\ delivery[c.event].claimToken = c.claimToken
    /\ delivery[c.event].attempts = c.generation

\* lockLiveClaim: the row is still leased under this very claim.
LiveClaim(c) ==
    LET row == delivery[c.event] IN
    /\ row.state = "processing"
    /\ row.claimToken = c.claimToken
    /\ row.attempts = c.generation
    /\ row.open

\* Mutant: a delivered row keeps its claim.
MarkDeliveredClaimed(c) ==
    /\ c \in published
    /\ LiveClaim(c)
    /\ delivery' = [delivery EXCEPT ![c.event] =
           [@ EXCEPT !.state = "delivered", !.failed = FALSE]]
    /\ UNCHANGED <<issued, published>>

\* A claim that is not live any more is answered OutboxClaimLostError.
MarkDelivered(c) ==
    /\ c \in published
    /\ LiveClaim(c)
    /\ delivery' = [delivery EXCEPT ![c.event] =
           [@ EXCEPT !.state = "delivered", !.claimToken = None, !.open = FALSE,
                     !.failed = FALSE]]
    /\ UNCHANGED <<issued, published>>

\* Mutant: the last attempt is retried.
RecordFailureAgain(c, permanent) ==
    /\ c \in issued
    /\ LiveClaim(c)
    /\ delivery' = [delivery EXCEPT ![c.event] =
           [@ EXCEPT !.state = IF permanent THEN "dead-letter" ELSE "pending",
                     !.claimToken = None, !.open = FALSE, !.failed = TRUE]]
    /\ UNCHANGED <<issued, published>>

RecordFailure(c, permanent) ==
    LET terminal == permanent \/ delivery[c.event].attempts >= MaxAttempts IN
    /\ c \in issued
    /\ LiveClaim(c)
    /\ delivery' = [delivery EXCEPT ![c.event] =
           [@ EXCEPT !.state = IF terminal THEN "dead-letter" ELSE "pending",
                     !.claimToken = None, !.open = FALSE, !.failed = TRUE]]
    /\ UNCHANGED <<issued, published>>

\* PostgreSQL time passes the end of a lease, or of a backoff.
LeaseEnds(e) ==
    /\ delivery[e].state = "processing" /\ delivery[e].open
    /\ delivery' = [delivery EXCEPT ![e].open = FALSE]
    /\ UNCHANGED <<issued, published>>

BackoffEnds(e) ==
    /\ delivery[e].state = "pending" /\ ~delivery[e].ready
    /\ delivery' = [delivery EXCEPT ![e].ready = TRUE]
    /\ UNCHANGED <<issued, published>>

-----------------------------------------------------------------------------
Init ==
    /\ delivery  = [e \in Events |-> Unclaimed("absent", FALSE)]
    /\ issued    = {}
    /\ published = {}

Next ==
    \/ \E e \in Events : Enqueue(e) \/ Delete(e) \/ LeaseEnds(e) \/ BackoffEnds(e)
    \/ \E batch \in SUBSET Candidates, token \in Tokens : Claim(batch, token)
    \/ \E c \in issued : Publish(c) \/ MarkDelivered(c)
    \/ \E c \in issued, permanent \in BOOLEAN : RecordFailure(c, permanent)

Spec == Init /\ [][Next]_vars

(***************************************************************************)
(* Time passes, and some worker keeps claiming.  ORDER BY available_at     *)
(* takes the oldest first, so an event that stays a candidate is claimed.  *)
(* No worker is taken to finish what it claimed.                           *)
(***************************************************************************)
ClaimOf(e) ==
    \E token \in Tokens :
        \/ \E batch \in SUBSET Candidates : e \in batch /\ Claim(batch, token)
        \/ e \in Exhausted /\ Claim({}, token)

Fairness ==
    \A e \in Events :
        WF_vars(LeaseEnds(e)) /\ WF_vars(BackoffEnds(e)) /\ WF_vars(ClaimOf(e))

FairSpec == Spec /\ Fairness

-----------------------------------------------------------------------------
(* Properties *)

\* The shape of the rows, with the CHECK constraints of the table.
TypeOK ==
    /\ delivery \in [Events -> Row]
    /\ issued \subseteq Claims
    /\ published \subseteq issued
    /\ \A e \in Events :
           LET row == delivery[e] IN
           /\ (row.state = "processing") <=> (row.claimToken # None)
           /\ row.open => row.state = "processing"
           /\ row.state \in {"absent", "deleted"} => row.attempts = 0
           /\ row.state \in {"processing", "delivered", "dead-letter"} => row.attempts > 0
           /\ row.state = "dead-letter" => row.failed
           /\ row.state = "delivered" => ~row.failed
           /\ row.state = "pending" => (row.failed <=> row.attempts > 0)

(***************************************************************************)
(* Every attempt is one claim: while the event exists its claims carry the *)
(* generations 1 to attempt_count, one each, so the fence lets through the *)
(* youngest claim only; and what waits for another has an attempt left.    *)
(***************************************************************************)
ClaimsOf(e) == {c \in issued : c.event = e}

AttemptsAccounted ==
    \A e \in Events :
        /\ delivery[e].state # "deleted"
               => {c.generation : c \in ClaimsOf(e)} = 1 .. delivery[e].attempts
        /\ delivery[e].state = "pending" => delivery[e].attempts < MaxAttempts
        /\ \A c, d \in ClaimsOf(e) : c.generation = d.generation => c = d
        /\ \A c, d \in ClaimsOf(e) : LiveClaim(c) /\ LiveClaim(d) => c = d

(***************************************************************************)
(* A delivered event was published under the claim of its last attempt; an *)
(* event is given up only by a worker that says so, or at the last         *)
(* attempt; and what is settled stays settled.                             *)
(***************************************************************************)
SettledOnce ==
    [][\A e \in Events :
           LET now == delivery[e]
               new == delivery'[e]
           IN
           /\ now.state \in {"delivered", "dead-letter"} /\ new # now
                  => new.state = "deleted"
           /\ now.state # "delivered" /\ new.state = "delivered" =>
                  \E c \in published :
                      c.event = e /\ c.generation = now.attempts /\ now.open
           /\ now.state # "dead-letter" /\ new.state = "dead-letter" =>
                  now.open \/ now.attempts = MaxAttempts]_vars

\* Whatever the workers do, an event is delivered, given up or deleted.
EventuallySettled ==
    \A e \in Events :
        delivery[e].state = "pending"
            ~> delivery[e].state \in {"delivered", "dead-letter", "deleted"}
=============================================================================
