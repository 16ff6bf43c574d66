---------------------------- MODULE OutboxProofs ----------------------------
(***************************************************************************)
(* Proofs about the outbox, for any events, any number of calls and any    *)
(* bound on attempts.                                                      *)
(*                                                                         *)
(* AttemptsAccounted needs TypeOK only; SettledOnce follows from the two.  *)
(***************************************************************************)
EXTENDS Outbox, TLAPS

IInv == TypeOK /\ AttemptsAccounted

\* A claim is of an event, and its generation at least one.
LEMMA ClaimFields ==
    ASSUME TypeOK, NEW c \in issued
    PROVE  c \in Claims /\ c.event \in Events /\ c.claimToken \in Tokens
           /\ c.generation \in 1 .. MaxAttempts /\ c.claimToken # None
BY OutboxAssumption DEF TypeOK, Claims

\* There are no rows and no claims at first.
LEMMA InitInvariant == Init => IInv
<1> SUFFICES ASSUME Init PROVE IInv
  OBVIOUS
<1>1. TypeOK
  BY OutboxAssumption DEF Init, TypeOK, Unclaimed, Row, States
<1>2. AttemptsAccounted
  <2>1. \A e \in Events : ClaimsOf(e) = {} /\ delivery[e].attempts = 0
    BY DEF Init, ClaimsOf, Unclaimed
  <2>2. 1 .. 0 = {}
    OBVIOUS
  <2> QED
    BY <2>1, <2>2, OutboxAssumption DEF AttemptsAccounted, Init, Unclaimed
<1> QED
  BY <1>1, <1>2 DEF IInv

(***************************************************************************)
(* Steps that change one row and issue no claim.                           *)
(***************************************************************************)
LEMMA RowStepKeepsAccount ==
    ASSUME IInv, NEW e \in Events, NEW row \in Row,
           delivery' = [delivery EXCEPT ![e] = row], issued' = issued,
           row.state = "deleted" \/ row.attempts = delivery[e].attempts,
           row.state # "deleted" => delivery[e].state # "deleted",
           row.state = "pending" => row.attempts < MaxAttempts
    PROVE  AttemptsAccounted'
<1>1. \A x \in Events : ClaimsOf(x)' = ClaimsOf(x)
  BY DEF ClaimsOf
<1>2. \A x \in Events : delivery'[x] = IF x = e THEN row ELSE delivery[x]
  BY DEF IInv, TypeOK
<1>3. ASSUME NEW x \in Events, delivery'[x].state # "deleted"
      PROVE  {c.generation : c \in ClaimsOf(x)'} = 1 .. delivery'[x].attempts
  BY <1>1, <1>2, <1>3 DEF IInv, AttemptsAccounted
<1>5. \A x \in Events : delivery'[x].state = "pending" => delivery'[x].attempts < MaxAttempts
  BY <1>2 DEF IInv, AttemptsAccounted
<1>4. ASSUME NEW x \in Events, NEW c \in ClaimsOf(x)', NEW d \in ClaimsOf(x)',
             c.generation = d.generation \/ (LiveClaim(c)' /\ LiveClaim(d)')
      PROVE  c = d
  <2>1. c.event = x /\ d.event = x /\ c \in ClaimsOf(x) /\ d \in ClaimsOf(x)
    BY <1>1 DEF ClaimsOf
  <2>2. c.generation = d.generation
    BY <1>4, <2>1 DEF LiveClaim
  <2> QED
    BY <2>1, <2>2 DEF IInv, AttemptsAccounted
<1> QED
  BY <1>3, <1>4, <1>5 DEF AttemptsAccounted

\* What TypeOK asks of a single row.
Sane(row) ==
    /\ row \in Row
    /\ (row.state = "processing") <=> (row.claimToken # None)
    /\ row.open => row.state = "processing"
    /\ row.state \in {"absent", "deleted"} => row.attempts = 0
    /\ row.state \in {"processing", "delivered", "dead-letter"} => row.attempts > 0
    /\ row.state = "dead-letter" => row.failed
    /\ row.state = "delivered" => ~row.failed
    /\ row.state = "pending" => (row.failed <=> row.attempts > 0)

LEMMA RowStepKeepsInvariant ==
    ASSUME IInv, NEW e \in Events, NEW row, Sane(row),
           delivery' = [delivery EXCEPT ![e] = row], issued' = issued, published' = published,
           row.state = "deleted" \/ row.attempts = delivery[e].attempts,
           row.state # "deleted" => delivery[e].state # "deleted",
           row.state = "pending" => row.attempts < MaxAttempts
    PROVE  IInv'
<1>1. TypeOK'
  <2>1. \A x \in Events : delivery'[x] = IF x = e THEN row ELSE delivery[x]
    BY DEF IInv, TypeOK
  <2>2. \A x \in Events : Sane(delivery'[x])
    BY <2>1 DEF IInv, TypeOK, Sane
  <2>3. delivery' \in [Events -> Row]
    BY DEF IInv, TypeOK, Sane
  <2> QED
    BY <2>2, <2>3 DEF IInv, TypeOK, Sane
<1>2. AttemptsAccounted'
  BY RowStepKeepsAccount DEF Sane
<1> QED
  BY <1>1, <1>2 DEF IInv

\* Enqueue, deletion and the clock change one row, and no attempt.
LEMMA EventStepKeepsInvariant ==
    ASSUME IInv, NEW e \in Events,
           Enqueue(e) \/ Delete(e) \/ LeaseEnds(e) \/ BackoffEnds(e)
    PROVE  IInv'
<1> DEFINE row == delivery[e]
<1>1. Sane(row)
  BY DEF IInv, TypeOK, Sane
<1>2. CASE Enqueue(e)
  <2> DEFINE new == Unclaimed("pending", TRUE)
  <2>1. Sane(new) /\ new.state = "pending" /\ new.attempts = 0 /\ 0 < MaxAttempts
    BY OutboxAssumption DEF Sane, Unclaimed, Row, States
  <2>2. row.attempts = 0 /\ row.state = "absent"
    BY <1>1, <1>2 DEF Enqueue, Sane
  <2> HIDE DEF new
  <2> QED
    BY <1>2, <2>1, <2>2, RowStepKeepsInvariant DEF Enqueue, new
<1>3. CASE Delete(e)
  <2> DEFINE new == Unclaimed("deleted", FALSE)
  <2>1. Sane(new) /\ new.state = "deleted"
    BY OutboxAssumption DEF Sane, Unclaimed, Row, States
  <2> HIDE DEF new
  <2> QED
    BY <1>3, <2>1, RowStepKeepsInvariant DEF Delete, new
<1>4. CASE LeaseEnds(e)
  <2> DEFINE new == [row EXCEPT !.open = FALSE]
  <2>1. Sane(new) /\ new.state = row.state /\ new.attempts = row.attempts
    BY <1>1 DEF Sane, Row
  <2>2. delivery' = [delivery EXCEPT ![e] = new] /\ row.state = "processing"
    BY <1>4 DEF LeaseEnds
  <2> HIDE DEF new
  <2> QED
    BY <1>4, <2>1, <2>2, RowStepKeepsInvariant DEF LeaseEnds
<1>5. CASE BackoffEnds(e)
  <2> DEFINE new == [row EXCEPT !.ready = TRUE]
  <2>1. Sane(new) /\ new.state = row.state /\ new.attempts = row.attempts
    BY <1>1 DEF Sane, Row
  <2>2. delivery' = [delivery EXCEPT ![e] = new] /\ row.state = "pending"
        /\ row.attempts < MaxAttempts
    BY <1>5 DEF BackoffEnds, IInv, AttemptsAccounted
  <2> HIDE DEF new
  <2> QED
    BY <1>5, <2>1, <2>2, RowStepKeepsInvariant DEF BackoffEnds
<1> QED
  BY <1>2, <1>3, <1>4, <1>5

\* A report under a live claim changes the row of that claim, and no attempt.
LEMMA ReportKeepsInvariant ==
    ASSUME IInv, NEW c \in issued,
           MarkDelivered(c) \/ \E permanent \in BOOLEAN : RecordFailure(c, permanent)
    PROVE  IInv'
<1> DEFINE row == delivery[c.event]
<1>1. c.event \in Events
  BY ClaimFields DEF IInv
<1>2. Sane(row)
  BY <1>1 DEF IInv, TypeOK, Sane
<1>3. row.state = "processing"
  BY DEF MarkDelivered, RecordFailure, LiveClaim
<1>4. CASE MarkDelivered(c)
  <2> DEFINE new == [row EXCEPT !.state = "delivered", !.claimToken = None,
                                !.open = FALSE, !.failed = FALSE]
  <2>1. Sane(new) /\ new.state = "delivered" /\ new.attempts = row.attempts
    BY <1>2, <1>3 DEF Sane, Row, States
  <2>2. delivery' = [delivery EXCEPT ![c.event] = new]
    BY <1>4 DEF MarkDelivered
  <2> HIDE DEF new
  <2> QED
    BY <1>1, <1>3, <1>4, <2>1, <2>2, RowStepKeepsInvariant DEF MarkDelivered
<1>5. ASSUME NEW state \in {"pending", "dead-letter"}, UNCHANGED <<issued, published>>,
             state = "pending" => row.attempts < MaxAttempts,
             delivery' = [delivery EXCEPT ![c.event] =
                 [@ EXCEPT !.state = state, !.claimToken = None, !.open = FALSE,
                           !.failed = TRUE]]
      PROVE  IInv'
  <2> DEFINE new == [row EXCEPT !.state = state, !.claimToken = None,
                                !.open = FALSE, !.failed = TRUE]
  <2>1. Sane(new) /\ new.state = state /\ new.attempts = row.attempts
    BY <1>2, <1>3 DEF Sane, Row, States
  <2>2. delivery' = [delivery EXCEPT ![c.event] = new]
    BY <1>5
  <2> HIDE DEF new
  <2> QED
    BY <1>1, <1>3, <1>5, <2>1, <2>2, RowStepKeepsInvariant
<1>6. row.attempts >= MaxAttempts \/ row.attempts < MaxAttempts
  BY <1>2, OutboxAssumption DEF Sane, Row
<1> QED
  BY <1>4, <1>5, <1>6 DEF RecordFailure

(***************************************************************************)
(* A claim gives each event of its batch its next generation; exhausted    *)
(* rows keep their count.                                                  *)
(***************************************************************************)
LEMMA ClaimKeepsInvariant ==
    ASSUME IInv, NEW batch \in SUBSET Candidates, NEW token \in Tokens, Claim(batch, token)
    PROVE  IInv'
<1> DEFINE Next1(e) == delivery[e].attempts + 1
           new(e) == [event |-> e, claimToken |-> token, generation |-> Next1(e)]
<1>1. /\ \A e \in batch : /\ e \in Events /\ e \notin Exhausted
                          /\ delivery[e].attempts < MaxAttempts
                          /\ delivery[e].state \in {"pending", "processing"}
      /\ \A e \in Exhausted : delivery[e].state = "processing"
  BY OutboxAssumption DEF Candidates, Exhausted, Abandoned, IInv, AttemptsAccounted, TypeOK, Row
<1>2. /\ batch \subseteq Events /\ batch # {} => token \notin {c.claimToken : c \in issued}
      /\ published' = published
      /\ issued' = issued \cup {new(e) : e \in batch}
      /\ \A e \in Events : delivery'[e] =
             IF e \in Exhausted
             THEN [delivery[e] EXCEPT !.state = "dead-letter", !.claimToken = None,
                                      !.open = FALSE, !.failed = TRUE]
             ELSE IF e \in batch
             THEN [state |-> "processing", attempts |-> delivery[e].attempts + 1,
                   claimToken |-> token, open |-> TRUE, ready |-> FALSE,
                   failed |-> delivery[e].failed]
             ELSE delivery[e]
  BY <1>1 DEF Claim
<1>3. \A e \in Events : Sane(delivery[e])
  BY DEF IInv, TypeOK, Sane
<1>4. ASSUME NEW e \in Events
      PROVE  /\ Sane(delivery'[e])
             /\ e \notin batch => delivery'[e].attempts = delivery[e].attempts
             /\ e \in batch => delivery'[e].attempts = Next1(e)
             /\ delivery'[e].state # "deleted" => delivery[e].state # "deleted"
             /\ delivery'[e].state = "pending" => delivery[e].state = "pending" /\ e \notin batch
  <2> DEFINE old == delivery[e]
  <2>1. Sane(old)
    BY <1>3
  <2>2. CASE e \in Exhausted
    <3> DEFINE row == [old EXCEPT !.state = "dead-letter", !.claimToken = None,
                                  !.open = FALSE, !.failed = TRUE]
    <3>1. old.state = "processing" /\ e \notin batch
      BY <1>1, <2>2
    <3>2. delivery'[e] = row
      BY <1>2, <2>2
    <3>3. Sane(row) /\ row.attempts = old.attempts /\ row.state = "dead-letter"
      BY <2>1, <3>1 DEF Sane, Row, States
    <3> HIDE DEF row
    <3> QED
      BY <3>1, <3>2, <3>3
  <2>3. CASE e \in batch
    <3>1. e \notin Exhausted /\ old.attempts < MaxAttempts /\ token # None
          /\ old.state \in {"pending", "processing"}
      BY <1>1, <2>3, OutboxAssumption
    <3>2. old.attempts + 1 \in 0 .. MaxAttempts /\ old.attempts + 1 > 0
      BY <2>1, <3>1, OutboxAssumption DEF Sane, Row
    <3> DEFINE row == [state |-> "processing", attempts |-> old.attempts + 1,
                       claimToken |-> token, open |-> TRUE, ready |-> FALSE,
                       failed |-> old.failed]
    <3>3. delivery'[e] = row
      BY <1>2, <2>3, <3>1
    <3>4. Sane(row) /\ row.attempts = Next1(e) /\ row.state = "processing"
      BY <2>1, <3>1, <3>2 DEF Sane, Row, States
    <3> HIDE DEF row
    <3> QED
      BY <2>3, <3>1, <3>3, <3>4
  <2>4. CASE e \notin Exhausted /\ e \notin batch
    BY <1>2, <2>1, <2>4
  <2> QED
    BY <2>2, <2>3, <2>4
<1>5. \A e \in batch : new(e) \in Claims
  BY <1>1, <1>3, OutboxAssumption DEF Claims, Sane, Row
<1>6. TypeOK'
  <2>1. delivery' \in [Events -> Row]
    BY <1>4 DEF Claim, Sane
  <2>2. issued' \subseteq Claims /\ published' \subseteq issued'
    BY <1>2, <1>5 DEF IInv, TypeOK
  <2> QED
    BY <1>4, <2>1, <2>2 DEF TypeOK, Sane
<1>7. ASSUME NEW e \in Events
      PROVE  ClaimsOf(e)' = ClaimsOf(e) \cup (IF e \in batch THEN {new(e)} ELSE {})
  <2>1. ClaimsOf(e)' = {c \in issued \cup {new(x) : x \in batch} : c.event = e}
    BY <1>2 DEF ClaimsOf
  <2>2. \A x \in batch : new(x).event = x
    OBVIOUS
  <2> HIDE DEF new
  <2> QED
    BY <2>1, <2>2 DEF ClaimsOf
<1>8. ASSUME NEW e \in Events, e \in batch
      PROVE  /\ {c.generation : c \in ClaimsOf(e)} = 1 .. delivery[e].attempts
             /\ \A c \in ClaimsOf(e) : c.generation # Next1(e)
  <2>1. {c.generation : c \in ClaimsOf(e)} = 1 .. delivery[e].attempts
    BY <1>1, <1>8 DEF IInv, AttemptsAccounted
  <2>2. Next1(e) \notin 1 .. delivery[e].attempts
    BY <1>3 DEF Sane, Row
  <2> QED
    BY <2>1, <2>2
<1>9. ASSUME NEW e \in Events, delivery'[e].state # "deleted"
      PROVE  {c.generation : c \in ClaimsOf(e)'} = 1 .. delivery'[e].attempts
  <2>1. CASE e \in batch
    <3>1. {c.generation : c \in ClaimsOf(e)'} = {c.generation : c \in ClaimsOf(e)} \cup {Next1(e)}
      <4>1. new(e).generation = Next1(e)
        OBVIOUS
      <4> HIDE DEF new, Next1
      <4> QED
        BY <1>7, <2>1, <4>1
    <3>2. 1 .. Next1(e) = (1 .. delivery[e].attempts) \cup {Next1(e)}
      BY <1>3 DEF Sane, Row
    <3> QED
      BY <1>4, <1>8, <2>1, <3>1, <3>2
  <2>2. CASE e \notin batch
    BY <1>4, <1>7, <1>9, <2>2 DEF IInv, AttemptsAccounted
  <2> QED
    BY <2>1, <2>2
<1>10. ASSUME NEW e \in Events, NEW c \in ClaimsOf(e)', NEW d \in ClaimsOf(e)',
              c.generation = d.generation
       PROVE  c = d
  <2>1. CASE e \in batch
    <3>1. new(e).generation = Next1(e)
      OBVIOUS
    <3> HIDE DEF new, Next1
    <3> QED
      BY <1>7, <1>8, <1>10, <2>1, <3>1 DEF IInv, AttemptsAccounted
  <2>2. CASE e \notin batch
    BY <1>7, <1>10, <2>2 DEF IInv, AttemptsAccounted
  <2> QED
    BY <2>1, <2>2
<1>11. \A e \in Events : \A c, d \in ClaimsOf(e)' : LiveClaim(c)' /\ LiveClaim(d)' => c = d
  <2> SUFFICES ASSUME NEW e \in Events, NEW c \in ClaimsOf(e)', NEW d \in ClaimsOf(e)',
                      LiveClaim(c)', LiveClaim(d)'
               PROVE  c.generation = d.generation
    BY <1>10
  <2>1. c.event = e /\ d.event = e
    BY DEF ClaimsOf
  <2> QED
    BY <2>1 DEF LiveClaim
<1>12. \A e \in Events : delivery'[e].state = "pending" => delivery'[e].attempts < MaxAttempts
  BY <1>4 DEF IInv, AttemptsAccounted
<1> QED
  BY <1>6, <1>9, <1>10, <1>11, <1>12 DEF IInv, AttemptsAccounted

\* Publishing touches no row and no claim.
LEMMA StepKeepsInvariant == IInv /\ [Next]_vars => IInv'
<1> SUFFICES ASSUME IInv, [Next]_vars PROVE IInv'
  OBVIOUS
<1>1. ASSUME UNCHANGED <<delivery, issued>>, published' \subseteq issued
      PROVE  IInv'
  BY <1>1 DEF IInv, TypeOK, AttemptsAccounted, ClaimsOf, LiveClaim
<1>2. CASE UNCHANGED vars
  BY <1>1, <1>2 DEF vars, IInv, TypeOK
<1>3. ASSUME NEW c \in issued, Publish(c)
      PROVE  IInv'
  BY <1>1, <1>3 DEF Publish, IInv, TypeOK
<1> QED
  BY <1>2, <1>3, EventStepKeepsInvariant, ReportKeepsInvariant, ClaimKeepsInvariant DEF Next

(***************************************************************************)
(* The rows keep the table's constraints, and claims and attempts stay     *)
(* accounted for, in every reachable state.                                *)
(***************************************************************************)
THEOREM Invariance == Spec => []IInv
BY InitInvariant, StepKeepsInvariant, PTL DEF Spec

\* outbox_deliveries keeps its CHECK constraints.
THEOREM TypeCorrectness == Spec => []TypeOK
<1>1. IInv => TypeOK
  BY DEF IInv
<1> QED
  BY <1>1, Invariance, PTL

(***************************************************************************)
(* The generations of claim fence off every claim but the youngest, for    *)
(* any number of workers and calls.                                        *)
(***************************************************************************)
THEOREM AttemptsAlwaysAccounted == Spec => []AttemptsAccounted
<1>1. IInv => AttemptsAccounted
  BY DEF IInv
<1> QED
  BY <1>1, Invariance, PTL

\* What one step may do to one event.
SettledStep(e) ==
    LET now == delivery[e]
        new == delivery'[e]
    IN
    /\ now.state \in {"delivered", "dead-letter"} /\ new # now => new.state = "deleted"
    /\ now.state # "delivered" /\ new.state = "delivered" =>
           \E c \in published : c.event = e /\ c.generation = now.attempts /\ now.open
    /\ now.state # "dead-letter" /\ new.state = "dead-letter" =>
           now.open \/ now.attempts = MaxAttempts

\* Each action leaves a settled event alone, or settles it with reason.
LEMMA StepSettlesOnce ==
    ASSUME IInv, [Next]_vars, NEW e \in Events
    PROVE  SettledStep(e)
<1> DEFINE now == delivery[e]
<1>1. Sane(now) /\ delivery \in [Events -> Row]
  BY DEF IInv, TypeOK, Sane
<1>2. CASE delivery' = delivery
  BY <1>2 DEF SettledStep
<1>3. ASSUME NEW x \in Events, Enqueue(x) \/ Delete(x) \/ LeaseEnds(x) \/ BackoffEnds(x)
      PROVE  SettledStep(e)
  BY <1>1, <1>3 DEF SettledStep, Enqueue, Delete, LeaseEnds, BackoffEnds, Unclaimed, Sane, Row
<1>4. ASSUME NEW batch \in SUBSET Candidates, NEW token \in Tokens, Claim(batch, token)
      PROVE  SettledStep(e)
  <2>1. \A x \in batch : x \in Events /\ delivery[x].state \in {"pending", "processing"}
    BY DEF Candidates, Abandoned
  <2>2. e \in Exhausted => now.state = "processing" /\ now.attempts = MaxAttempts
    BY <1>1, OutboxAssumption DEF Exhausted, Abandoned, Sane, Row
  <2>3. CASE e \in Exhausted
    <3>1. delivery'[e].state = "dead-letter"
      BY <1>1, <1>4, <2>3 DEF Claim, Row
    <3> QED
      BY <2>2, <2>3, <3>1 DEF SettledStep
  <2>4. CASE e \notin Exhausted /\ e \in batch
    <3>1. delivery'[e].state = "processing"
      BY <1>4, <2>4 DEF Claim
    <3> QED
      BY <2>1, <2>4, <3>1 DEF SettledStep
  <2>5. CASE e \notin Exhausted /\ e \notin batch
    BY <1>4, <2>5 DEF Claim, SettledStep
  <2> QED
    BY <2>3, <2>4, <2>5
<1>5. ASSUME NEW c \in issued, MarkDelivered(c)
      PROVE  SettledStep(e)
  BY <1>1, <1>5 DEF MarkDelivered, LiveClaim, SettledStep, Row
<1>6. ASSUME NEW c \in issued, NEW permanent \in BOOLEAN, RecordFailure(c, permanent)
      PROVE  SettledStep(e)
  BY <1>1, <1>6 DEF RecordFailure, LiveClaim, SettledStep, Row
<1> QED
  BY <1>2, <1>3, <1>4, <1>5, <1>6 DEF Next, Publish, vars

(***************************************************************************)
(* A delivery is final, rests on a publication under its last claim, and   *)
(* no attempt is written off early without a worker saying so.             *)
(***************************************************************************)
THEOREM DeliveriesSettleOnce == Spec => SettledOnce
<1>1. IInv /\ [Next]_vars => \A e \in Events : SettledStep(e)
  BY StepSettlesOnce
<1>2. (\A e \in Events : SettledStep(e)) =>
          [\A e \in Events :
               LET now == delivery[e]
                   new == delivery'[e]
               IN
               /\ now.state \in {"delivered", "dead-letter"} /\ new # now
                      => new.state = "deleted"
               /\ now.state # "delivered" /\ new.state = "delivered" =>
                      \E c \in published :
                          c.event = e /\ c.generation = now.attempts /\ now.open
               /\ now.state # "dead-letter" /\ new.state = "dead-letter" =>
                      now.open \/ now.attempts = MaxAttempts]_vars
  BY DEF SettledStep
<1> QED
  BY <1>1, <1>2, Invariance, PTL DEF Spec, SettledOnce
=============================================================================
