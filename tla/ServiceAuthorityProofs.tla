----------------------- MODULE ServiceAuthorityProofs -----------------------
(***************************************************************************)
(* Proofs about the command authority, for any number of guests, players,  *)
(* requests, keys and rotations.                                           *)
(*                                                                         *)
(* LedgerExact is not inductive: that a commit extends the ledger exactly  *)
(* needs the decision to be true of the rows still (DecisionStands), which *)
(* needs every change of a subject's rows to find its lock free            *)
(* (LockDiscipline).  Prepared and CredentialStands carry what a           *)
(* transaction has established on its way to the commit.                   *)
(***************************************************************************)
EXTENDS ServiceAuthority, SequenceTheorems, TLAPS

\* What a transaction's stage says of its request and of its buffered write.
Prepared ==
    \A t \in Txs :
        LET request == tx[t].request
            w == tx[t].write
        IN
        /\ tx[t].stage \notin {"idle", "answer"} /\ request.kind = "execute"
               => request.expected < MaxRevision
        /\ tx[t].stage = "lock" => tx[t].slot # None
        /\ tx[t].stage = "decide" =>
               /\ request.kind = "execute"
               /\ ReceiptOf(tx[t].subject, request.key) = {}
        /\ tx[t].stage = "commit" =>
               /\ w \in Receipt
               /\ w.expected < MaxRevision
               /\ w.committed = IF w.advanced THEN w.expected + 1 ELSE w.expected

\* A guest has no delivery to acknowledge and no logout.
GuestStanding ==
    \A g \in Guests : session[g].standing \in {"absent", "active", "removed"}

\* Under the lock the secret stays the subject's.
CredentialStands ==
    \A t \in Txs :
        LET s == tx[t].subject IN
        tx[t].stage \in Holding =>
            /\ session[s].standing = "active"
            /\ Slot(s, tx[t].request.secret) # None
            /\ s \in Guests => Slot(s, tx[t].request.secret) = tx[t].slot

IInv == /\ TypeOK
        /\ GuestStanding
        /\ Prepared
        /\ LockDiscipline
        /\ CredentialStands
        /\ DecisionStands
        /\ LedgerExact

-----------------------------------------------------------------------------
\* A transaction that is not idle has all its fields.
LEMMA InFlight ==
    ASSUME TypeOK, NEW t \in Txs, tx[t].stage # "idle"
    PROVE  tx[t] \in Transaction
BY DEF TypeOK, Idle

\* The initial rows and transactions satisfy the invariant.
LEMMA InitInvariant == Init => IInv
<1> SUFFICES ASSUME Init PROVE IInv
  OBVIOUS
<1> USE ConstantsAssumption DEF Init
<1>1. TypeOK
  BY DEF TypeOK, NoSession, Session, Standings, Idle
<1>12. GuestStanding
  BY DEF GuestStanding, NoSession, Subjects
<1>2. Prepared
  BY DEF Prepared, Idle
<1>3. LockDiscipline
  BY DEF LockDiscipline, Idle, Holding
<1>4. CredentialStands
  BY DEF CredentialStands, Idle, Holding
<1>5. DecisionStands
  BY DEF DecisionStands, Idle
<1>6. LedgerExact
  <2>1. \A s \in Subjects : progress[s] = 0 /\ receipts[s] = {}
                            /\ events[s] = {} /\ outbox[s] = {}
    OBVIOUS
  <2>2. 1 .. 0 = {}
    OBVIOUS
  <2> QED
    BY <2>1, <2>2 DEF LedgerExact
<1> QED
  BY <1>1, <1>12, <1>2, <1>3, <1>4, <1>5, <1>6 DEF IInv

(***************************************************************************)
(* Steps that end a transaction: whatever its answer, the rows are as they *)
(* were and its lock, if it had one, is free.                              *)
(***************************************************************************)
LEMMA EndKeepsInvariant ==
    ASSUME IInv, NEW t \in Txs, NEW a \in Answers,
           tx[t].stage \notin {"idle", "answer"},
           Ends(t, a), UNCHANGED database,
           replied' \in [Subjects -> SUBSET Reply]
    PROVE  IInv'
<1> USE DEF IInv
<1>1. tx[t] \in Transaction
  BY InFlight
<1>2. /\ tx' = [tx EXCEPT ![t] = [tx[t] EXCEPT !.stage = "answer", !.answer = a]]
      /\ \A s \in Subjects : holder'[s] = IF holder[s] = t THEN None ELSE holder[s]
  BY DEF Ends
<1>3. TypeOK'
  <2>1. [tx[t] EXCEPT !.stage = "answer", !.answer = a] \in Transaction
    BY <1>1 DEF Transaction, Stages
  <2>2. tx' \in [Txs -> Transaction \cup {Idle}]
    BY <1>2, <2>1 DEF TypeOK
  <2>3. holder' \in [Subjects -> Txs \cup {None}]
    BY DEF TypeOK, Ends
  <2> QED
    BY <2>2, <2>3 DEF TypeOK, database
<1>4. \A u \in Txs : u # t => tx'[u] = tx[u]
  BY <1>2 DEF TypeOK
<1>5. tx'[t].stage = "answer"
  BY <1>1, <1>2 DEF TypeOK, Transaction
<1>11. GuestStanding'
  BY DEF GuestStanding, database
<1>6. Prepared'
  BY <1>4, <1>5 DEF Prepared, ReceiptOf, database
<1>7. LockDiscipline'
  <2>1. ASSUME NEW u \in Txs, tx'[u].stage \in Holding
        PROVE  holder'[tx'[u].subject] = u
    <3>1. u # t /\ tx'[u] = tx[u]
      BY <2>1, <1>4, <1>5 DEF Holding
    <3>2. tx[u].subject \in Subjects
      BY <2>1, <3>1, InFlight DEF Holding, Transaction
    <3> QED
      BY <2>1, <3>1, <3>2, <1>2 DEF LockDiscipline
  <2>2. ASSUME NEW s \in Subjects, holder'[s] # None
        PROVE  tx'[holder'[s]].stage \in Holding /\ tx'[holder'[s]].subject = s
    <3>1. holder'[s] = holder[s] /\ holder[s] # t /\ holder[s] # None
      BY <2>2, <1>2
    <3>2. holder[s] \in Txs
      BY <3>1 DEF TypeOK
    <3> QED
      BY <3>1, <3>2, <1>4 DEF LockDiscipline
  <2> QED
    BY <2>1, <2>2 DEF LockDiscipline
<1>8. CredentialStands'
  BY <1>4, <1>5 DEF CredentialStands, Holding, Slot, database
<1>9. DecisionStands'
  BY <1>4, <1>5 DEF DecisionStands, ReceiptOf, database
<1>10. LedgerExact'
  BY DEF LedgerExact, database
<1> QED
  BY <1>3, <1>6, <1>7, <1>8, <1>9, <1>10, <1>11

(***************************************************************************)
(* Steps that only move one transaction to a later stage under its lock,   *)
(* or into the wait for it: nothing but tx changes.                        *)
(***************************************************************************)
LEMMA BeginKeepsInvariant ==
    ASSUME IInv, NEW t \in Txs, NEW s \in Subjects, NEW request \in Requests,
           Begin(t, s, request)
    PROVE  IInv'
<1> USE DEF IInv
<1> DEFINE new == [stage   |-> IF request.kind = "execute" /\ request.expected = MaxRevision
                               THEN "answer" ELSE "match",
                   subject |-> s,
                   request |-> request,
                   slot    |-> None,
                   answer  |-> "conflict",
                   write   |-> None]
<1>1. tx' = [tx EXCEPT ![t] = new] /\ tx[t] = Idle /\ UNCHANGED <<database, holder, replied>>
  BY DEF Begin
<1>2. new \in Transaction
  BY DEF Transaction, Stages, Answers
<1>3. TypeOK'
  BY <1>1, <1>2 DEF TypeOK, database
<1>4. \A u \in Txs : u # t => tx'[u] = tx[u]
  BY <1>1 DEF TypeOK
<1>5. tx'[t] = new
  BY <1>1 DEF TypeOK
<1>6. Prepared'
  <2>1. new.stage \notin {"idle", "answer"} /\ request.kind = "execute"
            => request.expected < MaxRevision
    BY ConstantsAssumption DEF Requests, Queries, Commands
  <2>2. new.stage \notin {"lock", "decide", "commit"}
    OBVIOUS
  <2> HIDE DEF new
  <2>3. new.request = request
    BY DEF new
  <2> QED
    BY <1>1, <1>4, <1>5, <2>1, <2>2, <2>3 DEF Prepared, ReceiptOf, database
<1>7. new.stage \notin Holding /\ Idle.stage \notin Holding /\ new.stage # "commit"
  BY DEF Holding, Idle
<1> HIDE DEF new
<1>8. LockDiscipline'
  BY <1>1, <1>4, <1>5, <1>7 DEF LockDiscipline, TypeOK
<1>9. CredentialStands'
  BY <1>1, <1>4, <1>5, <1>7 DEF CredentialStands, Slot, database
<1>10. DecisionStands'
  BY <1>1, <1>4, <1>5, <1>7 DEF DecisionStands, ReceiptOf, database
<1>11. LedgerExact'
  BY <1>1 DEF LedgerExact, database
<1>12. GuestStanding'
  BY <1>1 DEF GuestStanding, database
<1> QED
  BY <1>3, <1>6, <1>8, <1>9, <1>10, <1>11, <1>12

\* An unlocked match ends the request or leaves it waiting for the lock.
LEMMA MatchKeepsInvariant ==
    ASSUME IInv, NEW t \in Txs, Match(t)
    PROVE  IInv'
<1> USE DEF IInv
<1> DEFINE slot == Slot(tx[t].subject, tx[t].request.secret)
<1>1. tx[t] \in Transaction /\ tx[t].stage = "match" /\ UNCHANGED <<database, replied>>
  BY InFlight DEF Match
<1>2. CASE slot = None
  BY <1>1, <1>2, EndKeepsInvariant DEF Match, Answers, TypeOK
<1>3. CASE slot # None
  <2> DEFINE new == [tx[t] EXCEPT !.stage = "lock", !.slot = slot]
  <2>1. tx' = [tx EXCEPT ![t] = new] /\ UNCHANGED holder
    BY <1>3 DEF Match
  <2>2. new \in Transaction
    BY <1>1 DEF Transaction, Stages, Slot
  <2>11. GuestStanding'
    BY <1>1 DEF GuestStanding, database
  <2>3. new.stage = "lock" /\ new.request = tx[t].request /\ new.slot # None
    BY <1>1, <1>3 DEF Transaction
  <2> HIDE DEF new
  <2>4. TypeOK'
    BY <1>1, <2>1, <2>2 DEF TypeOK, database
  <2>5. tx'[t] = new /\ \A u \in Txs : u # t => tx'[u] = tx[u]
    BY <2>1 DEF TypeOK
  <2>6. Prepared'
    BY <1>1, <2>3, <2>5 DEF Prepared, ReceiptOf, database
  <2>7. LockDiscipline'
    BY <1>1, <2>1, <2>3, <2>5 DEF LockDiscipline, Holding, TypeOK
  <2>8. CredentialStands'
    BY <1>1, <2>3, <2>5 DEF CredentialStands, Holding, Slot, database
  <2>9. DecisionStands'
    BY <1>1, <2>3, <2>5 DEF DecisionStands, ReceiptOf, database
  <2>10. LedgerExact'
    BY <1>1 DEF LedgerExact, database
  <2> QED
    BY <2>4, <2>6, <2>7, <2>8, <2>9, <2>10, <2>11
<1> QED
  BY <1>2, <1>3

\* A refusal is an end.
LEMMA RefuseKeepsInvariant ==
    ASSUME IInv, NEW t \in Txs, tx[t].stage \notin {"idle", "answer"}, Refuse(t)
    PROVE  IInv'
<1>1. \E a \in Answers : Ends(t, a)
  BY DEF Refuse, Answers
<1> QED
  BY <1>1, EndKeepsInvariant DEF Refuse, IInv, TypeOK

\* The parent lock is taken by a transaction whose secret has just been validated.
LEMMA LockKeepsInvariant ==
    ASSUME IInv, NEW t \in Txs, Lock(t)
    PROVE  IInv'
<1> USE DEF IInv
<1>1. tx[t] \in Transaction /\ tx[t].stage = "lock" /\ tx[t].subject \in Subjects
  BY InFlight DEF Lock, Transaction
<1>2. CASE Refuse(t)
  BY <1>1, <1>2, RefuseKeepsInvariant
<1>3. CASE ~Refuse(t)
  <2> DEFINE new == [tx[t] EXCEPT !.stage = "receipt"]
             own == tx[t].subject
  <2>11. GuestStanding'
    BY <1>3 DEF GuestStanding, Lock, database
  <2>1. /\ Valid(t)
        /\ tx' = [tx EXCEPT ![t] = new]
        /\ holder' = [holder EXCEPT ![own] = t]
        /\ holder[own] = None
        /\ UNCHANGED <<database, replied>>
    BY <1>3 DEF Lock
  <2>2. new \in Transaction
    BY <1>1 DEF Transaction, Stages
  <2>3. new.stage = "receipt" /\ new.request = tx[t].request /\ new.subject = own
        /\ new.slot = tx[t].slot
    BY <1>1 DEF Transaction
  <2> HIDE DEF new
  <2>4. TypeOK'
    BY <1>1, <2>1, <2>2 DEF TypeOK, database
  <2>5. tx'[t] = new /\ \A u \in Txs : u # t => tx'[u] = tx[u]
    BY <2>1 DEF TypeOK
  <2>6. Prepared'
    BY <1>1, <2>1, <2>3, <2>5 DEF Prepared, ReceiptOf, database
  <2>7. LockDiscipline'
    <3>1. ASSUME NEW u \in Txs, tx'[u].stage \in Holding
          PROVE  holder'[tx'[u].subject] = u
      <4>1. CASE u = t
        BY <4>1, <1>1, <2>1, <2>3, <2>5 DEF TypeOK
      <4>2. CASE u # t
        <5>1. tx'[u] = tx[u] /\ tx[u].subject \in Subjects /\ holder[tx[u].subject] = u
          BY <3>1, <4>2, <2>5, InFlight DEF LockDiscipline, Holding, Transaction
        <5>2. u # None
          BY ConstantsAssumption
        <5> QED
          BY <5>1, <5>2, <2>1 DEF TypeOK
      <4> QED
        BY <4>1, <4>2
    <3>2. ASSUME NEW s \in Subjects, holder'[s] # None
          PROVE  tx'[holder'[s]].stage \in Holding /\ tx'[holder'[s]].subject = s
      <4>1. CASE s = own
        BY <4>1, <1>1, <2>1, <2>3, <2>5 DEF TypeOK, Holding
      <4>2. CASE s # own
        <5>1. holder'[s] = holder[s] /\ holder[s] \in Txs
          BY <3>2, <4>2, <2>1 DEF TypeOK
        <5>2. holder[s] # t
          BY <3>2, <5>1, <1>1 DEF LockDiscipline, Holding
        <5> QED
          BY <3>2, <5>1, <5>2, <2>5 DEF LockDiscipline
      <4> QED
        BY <4>1, <4>2
    <3> QED
      BY <3>1, <3>2 DEF LockDiscipline
  <2>8. CredentialStands'
    <3>1. /\ session[own].standing = "active"
          /\ Slot(own, tx[t].request.secret) # None
          /\ own \in Guests => Slot(own, tx[t].request.secret) = tx[t].slot
      <4>1. CASE own \in Guests
        <5>1. Slot(own, tx[t].request.secret) = tx[t].slot
          BY <2>1, <4>1 DEF Valid, Authentic, GuestAuthentic
        <5>2. tx[t].slot # None
          BY <1>1 DEF Prepared
        <5>3. session[own].standing \in {"active", "pending-delivery"}
          BY <5>1, <5>2 DEF Slot
        <5> QED
          BY <4>1, <5>1, <5>2, <5>3 DEF GuestStanding
      <4>2. CASE own \notin Guests
        BY <2>1, <4>2 DEF Valid, Authentic, PlayerAuthentic
      <4> QED
        BY <4>1, <4>2
    <3> QED
      BY <3>1, <2>1, <2>3, <2>5 DEF CredentialStands, Holding, Slot, database
  <2>9. DecisionStands'
    BY <1>1, <2>1, <2>3, <2>5 DEF DecisionStands, ReceiptOf, database
  <2>10. LedgerExact'
    BY <2>1 DEF LedgerExact, database
  <2> QED
    BY <2>4, <2>6, <2>7, <2>8, <2>9, <2>10, <2>11
<1> QED
  BY <1>2, <1>3

\* A query ends with what it read.
LEMMA QueryKeepsInvariant ==
    ASSUME IInv, NEW t \in Txs, Query(t)
    PROVE  IInv'
<1>1. tx[t].stage \notin {"idle", "answer"}
  BY DEF Query
<1>2. CASE Refuse(t)
  BY <1>1, <1>2, RefuseKeepsInvariant
<1>3. CASE Ends(t, "queried") /\ UNCHANGED <<database, replied>>
  BY <1>1, <1>3, EndKeepsInvariant DEF Answers, IInv, TypeOK
<1> QED
  BY <1>2, <1>3 DEF Query

(***************************************************************************)
(* A transaction that holds its lock moves on with it: "decide" when there *)
(* is no receipt, "commit" when the decision is to be written.             *)
(***************************************************************************)
LEMMA AdvanceKeepsInvariant ==
    ASSUME IInv, NEW t \in Txs, tx[t].stage \in {"receipt", "decide"},
           NEW stage \in {"decide", "commit"}, NEW w \in Receipt \cup {None},
           tx' = [tx EXCEPT ![t] = [tx[t] EXCEPT !.stage = stage, !.write = w]],
           UNCHANGED <<database, holder, replied>>,
           tx[t].request.kind = "execute",
           ReceiptOf(tx[t].subject, tx[t].request.key) = {},
           stage = "commit" =>
               /\ w \in Receipt
               /\ w.key = tx[t].request.key
               /\ w.expected = progress[tx[t].subject]
               /\ w.expected < MaxRevision
               /\ w.committed = IF w.advanced THEN w.expected + 1 ELSE w.expected
    PROVE  IInv'
<1> USE DEF IInv
<1> DEFINE new == [tx[t] EXCEPT !.stage = stage, !.write = w]
<1>1. tx[t] \in Transaction
  BY InFlight
<1>2. new \in Transaction
  BY <1>1 DEF Transaction, Stages
<1>3. /\ new.stage = stage /\ new.write = w /\ new.request = tx[t].request
      /\ new.subject = tx[t].subject /\ new.slot = tx[t].slot
  BY <1>1 DEF Transaction
<1>4. tx'[t] = new /\ \A u \in Txs : u # t => tx'[u] = tx[u]
  BY DEF TypeOK
<1>5. TypeOK'
  BY <1>2 DEF TypeOK, database
<1>6. GuestStanding'
  BY DEF GuestStanding, database
<1> HIDE DEF new
<1>7. Prepared'
  BY <1>3, <1>4 DEF Prepared, ReceiptOf, database
<1>8. LockDiscipline'
  <2>1. holder[tx[t].subject] = t
    BY DEF LockDiscipline, Holding
  <2>2. \A u \in Txs : tx'[u].stage \in Holding => holder'[tx'[u].subject] = u
    BY <2>1, <1>3, <1>4 DEF LockDiscipline
  <2>3. ASSUME NEW s \in Subjects, holder'[s] # None
        PROVE  tx'[holder'[s]].stage \in Holding /\ tx'[holder'[s]].subject = s
    BY <2>3, <1>3, <1>4 DEF LockDiscipline, Holding, TypeOK
  <2> QED
    BY <2>2, <2>3 DEF LockDiscipline
<1>9. CredentialStands'
  BY <1>3, <1>4 DEF CredentialStands, Holding, Slot, database
<1>10. DecisionStands'
  BY <1>3, <1>4 DEF DecisionStands, ReceiptOf, database
<1>11. LedgerExact'
  BY DEF LedgerExact, database
<1> QED
  BY <1>5, <1>6, <1>7, <1>8, <1>9, <1>10, <1>11

\* A receipt is replayed or refused; without one the command is decided.
LEMMA ReplayKeepsInvariant ==
    ASSUME IInv, NEW t \in Txs, Replay(t)
    PROVE  IInv'
<1> USE DEF IInv
<1> DEFINE s == tx[t].subject
           request == tx[t].request
<1>1. /\ tx[t].stage = "receipt" /\ tx[t] \in Transaction /\ s \in Subjects
      /\ request.kind = "execute"
  BY InFlight DEF Replay, Transaction
<1>2. CASE Refuse(t)
  BY <1>1, <1>2, RefuseKeepsInvariant
<1>3. ASSUME NEW r \in ReceiptOf(s, request.key), NEW a \in Answers, Ends(t, a),
             UNCHANGED database,
             replied' = replied \/ replied' = [replied EXCEPT ![s] = @ \cup {Told(r)}]
      PROVE  IInv'
  <2>1. r \in Receipt
    BY <1>1 DEF ReceiptOf, TypeOK
  <2>2. Told(r) \in Reply
    BY <2>1 DEF Told, Receipt, Reply
  <2>3. replied' \in [Subjects -> SUBSET Reply]
    BY <1>1, <1>3, <2>2 DEF TypeOK
  <2> QED
    BY <1>1, <1>3, <2>3, EndKeepsInvariant
<1>4. CASE /\ ReceiptOf(s, request.key) = {}
           /\ tx' = [tx EXCEPT ![t].stage = "decide"]
           /\ UNCHANGED <<database, holder, replied>>
  <2>1. [tx[t] EXCEPT !.stage = "decide"] = [tx[t] EXCEPT !.stage = "decide", !.write = tx[t].write]
    BY <1>1 DEF Transaction
  <2>2. tx[t].write \in Receipt \cup {None}
    BY <1>1 DEF Transaction
  <2> QED
    BY <1>1, <1>4, <2>1, <2>2, AdvanceKeepsInvariant
<1> QED
  BY <1>2, <1>3, <1>4 DEF Replay, Answers

\* A conflict, a throw and a refusal end the transaction; a decision goes on.
LEMMA DecideKeepsInvariant ==
    ASSUME IInv, NEW t \in Txs, Decide(t)
    PROVE  IInv'
<1> USE DEF IInv
<1> DEFINE s == tx[t].subject
           request == tx[t].request
<1>1. /\ tx[t].stage = "decide" /\ tx[t] \in Transaction
      /\ UNCHANGED <<database, replied>>
  BY InFlight DEF Decide
<1>2. CASE \E a \in Answers : Ends(t, a)
  BY <1>1, <1>2, EndKeepsInvariant DEF TypeOK
<1>3. ASSUME progress[s] = request.expected, UNCHANGED holder, NEW advanced \in BOOLEAN,
             tx' = [tx EXCEPT ![t].stage = "commit",
                     ![t].write = [key       |-> request.key,
                                   body      |-> request.body,
                                   expected  |-> request.expected,
                                   committed |-> IF advanced THEN request.expected + 1
                                                             ELSE request.expected,
                                   advanced  |-> advanced,
                                   expired   |-> FALSE]]
      PROVE  IInv'
  <2> DEFINE w == [key       |-> request.key,
                   body      |-> request.body,
                   expected  |-> request.expected,
                   committed |-> IF advanced THEN request.expected + 1
                                             ELSE request.expected,
                   advanced  |-> advanced,
                   expired   |-> FALSE]
  <2>1. /\ request.kind = "execute" /\ ReceiptOf(s, request.key) = {}
        /\ request.expected < MaxRevision
    BY <1>1 DEF Prepared
  <2>2. request \in Commands
    BY <1>1, <2>1 DEF Transaction, Requests, Queries
  <2>3. w \in Receipt
    BY <2>1, <2>2, ConstantsAssumption DEF Commands, Receipt
  <2>4. w.key = request.key /\ w.expected = progress[s] /\ w.expected < MaxRevision
        /\ w.committed = IF w.advanced THEN w.expected + 1 ELSE w.expected
    BY <1>3, <2>1
  <2>5. tx' = [tx EXCEPT ![t] = [tx[t] EXCEPT !.stage = "commit", !.write = w]]
    BY <1>3
  <2> HIDE DEF w
  <2> QED
    BY <1>1, <1>3, <2>1, <2>3, <2>4, <2>5, AdvanceKeepsInvariant
<1> QED
  BY <1>2, <1>3 DEF Decide, Answers

(***************************************************************************)
(* The commit extends the ledger of its subject by exactly one receipt     *)
(* and, if the command was accepted, one event of the next revision.       *)
(***************************************************************************)
LEMMA CommitExtendsLedger ==
    ASSUME IInv, NEW t \in Txs, Commit(t)
    PROVE  LedgerExact'
<1> USE DEF IInv
<1> DEFINE own == tx[t].subject
           w == tx[t].write
           e == [key |-> w.key, committed |-> w.committed]
<1>1. /\ tx[t].stage = "commit" /\ own \in Subjects /\ w \in Receipt
      /\ w.committed = IF w.advanced THEN w.expected + 1 ELSE w.expected
      /\ w.expected = progress[own] /\ ReceiptOf(own, w.key) = {}
  BY InFlight DEF Commit, Prepared, DecisionStands, Transaction
<1>2. /\ receipts' = [receipts EXCEPT ![own] = @ \cup {w}]
      /\ w.advanced => /\ progress' = [progress EXCEPT ![own] = w.committed]
                       /\ events' = [events EXCEPT ![own] = @ \cup {e}]
                       /\ outbox' = [outbox EXCEPT ![own] = @ \cup {w.key}]
      /\ ~w.advanced => UNCHANGED <<progress, events, outbox>>
  BY <1>1 DEF Commit
<1>3. \A s \in Subjects : s # own =>
          /\ receipts'[s] = receipts[s] /\ progress'[s] = progress[s]
          /\ events'[s] = events[s] /\ outbox'[s] = outbox[s]
  BY <1>2, <1>1 DEF TypeOK, Receipt
<1>4. /\ receipts'[own] = receipts[own] \cup {w}
      /\ w.advanced => /\ progress'[own] = progress[own] + 1
                       /\ events'[own] = events[own] \cup {e}
                       /\ outbox'[own] = outbox[own] \cup {w.key}
      /\ ~w.advanced => /\ progress'[own] = progress[own]
                        /\ events'[own] = events[own]
                        /\ outbox'[own] = outbox[own]
  BY <1>1, <1>2 DEF TypeOK
<1>5. progress[own] \in Nat /\ events[own] \subseteq Event /\ receipts[own] \subseteq Receipt
  BY <1>1, ConstantsAssumption DEF TypeOK
<1>6. /\ {x.committed : x \in events[own]} = 1 .. progress[own]
      /\ \A x, y \in events[own] : x.committed = y.committed \/ x.key = y.key => x = y
      /\ outbox[own] = {x.key : x \in events[own]}
      /\ events[own] = {[key |-> r.key, committed |-> r.committed] :
                            r \in {x \in receipts[own] : x.advanced}}
      /\ \A x, y \in receipts[own] : x.key = y.key => x = y
      /\ \A r \in receipts[own] :
             r.committed = IF r.advanced THEN r.expected + 1 ELSE r.expected
  BY <1>1 DEF LedgerExact
<1>7. \A r \in receipts[own] : r.key # w.key
  BY <1>1 DEF ReceiptOf
<1>8. \A x \in events[own] : x.key # w.key
  BY <1>6, <1>7
<1>9. \A x \in events[own] : x.committed # progress[own] + 1
  <2>1. \A x \in events[own] : x.committed \in 1 .. progress[own]
    BY <1>6
  <2> QED
    BY <2>1, <1>5
<1>10. w.advanced => e.key = w.key /\ e.committed = progress[own] + 1
  BY <1>1
<1> HIDE DEF e, w
<1>11. {x.committed : x \in events'[own]} = 1 .. progress'[own]
  <2>1. CASE w.advanced
    <3>1. {x.committed : x \in events'[own]} = {x.committed : x \in events[own]} \cup {progress[own] + 1}
      BY <2>1, <1>4, <1>10
    <3>2. 1 .. progress[own] + 1 = (1 .. progress[own]) \cup {progress[own] + 1}
      BY <1>5
    <3>3. progress'[own] = progress[own] + 1
      BY <2>1, <1>4
    <3> QED
      BY <3>1, <3>2, <3>3, <1>6
  <2> QED
    BY <2>1, <1>1, <1>4, <1>6 DEF Receipt
<1>12. \A x, y \in events'[own] : x.committed = y.committed \/ x.key = y.key => x = y
  BY <1>1, <1>4, <1>6, <1>8, <1>9, <1>10 DEF Receipt
<1>13. outbox'[own] = {x.key : x \in events'[own]}
  <2>1. CASE w.advanced
    <3>1. {x.key : x \in events'[own]} = {x.key : x \in events[own]} \cup {w.key}
      BY <2>1, <1>4, <1>10
    <3> QED
      BY <2>1, <3>1, <1>4, <1>6
  <2> QED
    BY <2>1, <1>1, <1>4, <1>6 DEF Receipt
<1>14. events'[own] = {[key |-> r.key, committed |-> r.committed] :
                          r \in {x \in receipts'[own] : x.advanced}}
  <2>1. CASE w.advanced
    <3>1. {x \in receipts'[own] : x.advanced} = {x \in receipts[own] : x.advanced} \cup {w}
      BY <2>1, <1>4
    <3>2. e = [key |-> w.key, committed |-> w.committed]
      BY DEF e
    <3> QED
      BY <2>1, <3>1, <3>2, <1>4, <1>6
  <2>2. CASE ~w.advanced
    <3>1. {x \in receipts'[own] : x.advanced} = {x \in receipts[own] : x.advanced}
      BY <2>2, <1>4
    <3> QED
      BY <2>2, <3>1, <1>4, <1>6
  <2> QED
    BY <2>1, <2>2
<1>15. \A x, y \in receipts'[own] : x.key = y.key => x = y
  BY <1>4, <1>6, <1>7
<1>16. \A r \in receipts'[own] :
           r.committed = IF r.advanced THEN r.expected + 1 ELSE r.expected
  BY <1>1, <1>4, <1>6
<1> QED
  BY <1>3, <1>11, <1>12, <1>13, <1>14, <1>15, <1>16 DEF LedgerExact

\* The commit leaves everyone else's transactions, and their locks, as they were.
LEMMA CommitKeepsInvariant ==
    ASSUME IInv, NEW t \in Txs, Commit(t)
    PROVE  IInv'
<1> USE DEF IInv
<1> DEFINE own == tx[t].subject
           w == tx[t].write
           new == [tx[t] EXCEPT !.stage = "answer", !.answer = "committed"]
<1>1. /\ tx[t].stage = "commit" /\ tx[t] \in Transaction /\ own \in Subjects /\ w \in Receipt
      /\ holder[own] = t /\ UNCHANGED session
  BY InFlight DEF Commit, Prepared, Transaction, LockDiscipline, Holding
<1>2. /\ tx' = [tx EXCEPT ![t] = new]
      /\ \A s \in Subjects : holder'[s] = IF holder[s] = t THEN None ELSE holder[s]
      /\ holder' \in [Subjects -> Txs \cup {None}]
  BY DEF Commit, Ends, TypeOK
<1>3. new \in Transaction /\ new.stage = "answer"
  BY <1>1 DEF Transaction, Stages, Answers
<1>4. Told(w) \in Reply /\ w.key \in Keys /\ w.committed \in 0 .. MaxRevision
  BY <1>1 DEF Told, Receipt, Reply
<1>4a. w.advanced => [key |-> w.key, committed |-> w.committed] \in Event
  <2>1. w.committed = IF w.advanced THEN w.expected + 1 ELSE w.expected
    BY <1>1 DEF Prepared
  <2> QED
    BY <2>1, <1>1, <1>4 DEF Receipt, Event
<1> HIDE DEF new
<1>5. TypeOK'
  <2>1. tx' \in [Txs -> Transaction \cup {Idle}] /\ session' \in [Subjects -> Session]
    BY <1>1, <1>2, <1>3 DEF TypeOK
  <2>2. receipts' \in [Subjects -> SUBSET Receipt] /\ replied' \in [Subjects -> SUBSET Reply]
    BY <1>1, <1>4 DEF TypeOK, Commit
  <2>3. /\ progress' \in [Subjects -> 0 .. MaxRevision]
        /\ events' \in [Subjects -> SUBSET Event]
        /\ outbox' \in [Subjects -> SUBSET Keys]
    BY <1>1, <1>4, <1>4a DEF TypeOK, Commit
  <2> QED
    BY <1>2, <2>1, <2>2, <2>3 DEF TypeOK
<1>6. GuestStanding'
  BY <1>1 DEF GuestStanding
<1>7. tx'[t].stage = "answer" /\ \A u \in Txs : u # t => tx'[u] = tx[u]
  BY <1>2, <1>3 DEF TypeOK
<1>8. \A u \in Txs : u # t /\ tx[u].stage \in Holding =>
          /\ tx[u].subject # own
          /\ tx[u].subject \in Subjects
          /\ progress'[tx[u].subject] = progress[tx[u].subject]
          /\ receipts'[tx[u].subject] = receipts[tx[u].subject]
  <2> SUFFICES ASSUME NEW u \in Txs, u # t, tx[u].stage \in Holding
               PROVE  /\ tx[u].subject # own
                      /\ tx[u].subject \in Subjects
                      /\ progress'[tx[u].subject] = progress[tx[u].subject]
                      /\ receipts'[tx[u].subject] = receipts[tx[u].subject]
    OBVIOUS
  <2>1. tx[u].subject \in Subjects /\ holder[tx[u].subject] = u
    BY InFlight DEF LockDiscipline, Holding, Transaction
  <2> QED
    BY <2>1, <1>1 DEF Commit, TypeOK
<1>9. Prepared'
  BY <1>7, <1>8 DEF Prepared, ReceiptOf, Holding
<1>10. LockDiscipline'
  <2>1. ASSUME NEW u \in Txs, tx'[u].stage \in Holding
        PROVE  holder'[tx'[u].subject] = u
    BY <2>1, <1>2, <1>7, <1>8 DEF LockDiscipline, Holding
  <2>2. ASSUME NEW s \in Subjects, holder'[s] # None
        PROVE  tx'[holder'[s]].stage \in Holding /\ tx'[holder'[s]].subject = s
    <3>1. holder'[s] = holder[s] /\ holder[s] # t /\ holder[s] # None
      BY <2>2, <1>2
    <3>2. holder[s] \in Txs
      BY <3>1 DEF TypeOK
    <3> QED
      BY <3>1, <3>2, <1>7 DEF LockDiscipline
  <2> QED
    BY <2>1, <2>2 DEF LockDiscipline
<1>11. CredentialStands'
  BY <1>1, <1>7 DEF CredentialStands, Holding, Slot
<1>12. DecisionStands'
  BY <1>7, <1>8 DEF DecisionStands, ReceiptOf, Holding
<1> QED
  BY <1>5, <1>6, <1>9, <1>10, <1>11, <1>12, CommitExtendsLedger

\* The answer leaves: nobody's rows or locks are concerned.
LEMMA IdleKeepsInvariant ==
    ASSUME IInv, NEW t \in Txs, tx[t].stage # "idle",
           tx' = [tx EXCEPT ![t] = Idle],
           \A s \in Subjects : holder'[s] = IF holder[s] = t THEN None ELSE holder[s],
           holder' \in [Subjects -> Txs \cup {None}],
           UNCHANGED <<database, replied>>
    PROVE  IInv'
<1> USE DEF IInv
<1>1. tx'[t] = Idle /\ \A u \in Txs : u # t => tx'[u] = tx[u]
  BY DEF TypeOK
<1>2. Idle.stage = "idle" /\ Idle.stage \notin Holding
  BY DEF Idle, Holding
<1>3. TypeOK'
  BY DEF TypeOK, database
<1>4. GuestStanding'
  BY DEF GuestStanding, database
<1>5. Prepared'
  BY <1>1, <1>2 DEF Prepared, ReceiptOf, database
<1>6. LockDiscipline'
  <2>1. ASSUME NEW u \in Txs, tx'[u].stage \in Holding
        PROVE  holder'[tx'[u].subject] = u
    <3>1. u # t /\ tx'[u] = tx[u]
      BY <2>1, <1>1, <1>2
    <3>2. tx[u].subject \in Subjects
      BY <2>1, <3>1, InFlight DEF Holding, Transaction
    <3> QED
      BY <2>1, <3>1, <3>2 DEF LockDiscipline
  <2>2. ASSUME NEW s \in Subjects, holder'[s] # None
        PROVE  tx'[holder'[s]].stage \in Holding /\ tx'[holder'[s]].subject = s
    <3>1. holder'[s] = holder[s] /\ holder[s] # t /\ holder[s] # None
      BY <2>2
    <3>2. holder[s] \in Txs
      BY <3>1 DEF TypeOK
    <3> QED
      BY <3>1, <3>2, <1>1 DEF LockDiscipline
  <2> QED
    BY <2>1, <2>2 DEF LockDiscipline
<1>7. CredentialStands'
  BY <1>1, <1>2 DEF CredentialStands, Slot, database
<1>8. DecisionStands'
  BY <1>1, <1>2 DEF DecisionStands, ReceiptOf, database
<1>9. LedgerExact'
  BY DEF LedgerExact, database
<1> QED
  BY <1>3, <1>4, <1>5, <1>6, <1>7, <1>8, <1>9

\* An answer that leaves has no lock to release.
LEMMA RespondKeepsInvariant ==
    ASSUME IInv, NEW t \in Txs, Respond(t)
    PROVE  IInv'
<1>1. \A s \in Subjects : holder[s] # t
  BY ConstantsAssumption DEF Respond, IInv, LockDiscipline, Holding
<1> QED
  BY <1>1, IdleKeepsInvariant DEF Respond, database, IInv, TypeOK

\* A crash rolls back and unlocks.
LEMMA CrashKeepsInvariant ==
    ASSUME IInv, NEW t \in Txs, Crash(t)
    PROVE  IInv'
BY IdleKeepsInvariant DEF Crash, database, IInv, TypeOK

(***************************************************************************)
(* Session changes that find the parent row free: no transaction is under  *)
(* way with that subject.                                                  *)
(***************************************************************************)
LEMMA UnlockedSubject ==
    ASSUME IInv, NEW s \in Subjects, holder[s] = None,
           NEW t \in Txs, tx[t].stage \in Holding
    PROVE  tx[t].subject # s
BY ConstantsAssumption DEF IInv, LockDiscipline

LEMMA ChangeSessionKeepsInvariant ==
    ASSUME IInv, NEW s \in Subjects, NEW new \in Session, ChangeSession(s, new),
           s \in Guests => new.standing \in {"absent", "active", "removed"}
    PROVE  IInv'
<1> USE DEF IInv
<1>1. /\ holder[s] = None /\ session' = [session EXCEPT ![s] = new]
      /\ UNCHANGED <<progress, receipts, events, outbox, holder, tx, replied>>
  BY DEF ChangeSession
<1>2. TypeOK'
  BY <1>1 DEF TypeOK
<1>3. GuestStanding'
  BY <1>1 DEF GuestStanding, TypeOK, Subjects
<1>4. Prepared' /\ LockDiscipline' /\ DecisionStands' /\ LedgerExact'
  BY <1>1 DEF Prepared, LockDiscipline, DecisionStands, LedgerExact, ReceiptOf
<1>5. CredentialStands'
  <2> SUFFICES ASSUME NEW t \in Txs, tx[t].stage \in Holding
               PROVE  session'[tx[t].subject] = session[tx[t].subject]
    BY <1>1 DEF CredentialStands, Slot
  <2>1. tx[t].subject # s /\ tx[t].subject \in Subjects
    BY <1>1, UnlockedSubject, InFlight DEF Holding, Transaction
  <2> QED
    BY <2>1, <1>1 DEF TypeOK
<1> QED
  BY <1>2, <1>3, <1>4, <1>5

\* Issue, Rotate, Acknowledge and Logout are such changes.
LEMMA SessionKeepsInvariant ==
    ASSUME IInv, NEW s \in Subjects,
           Issue(s) \/ Rotate(s) \/ (s \in Players /\ (Acknowledge(s) \/ Logout(s)))
    PROVE  IInv'
<1>1. session[s] \in Session /\ (s \in Players => s \notin Guests)
  BY ConstantsAssumption DEF IInv, TypeOK
<1>2. CASE Issue(s)
  <2>1. [session[s] EXCEPT !.standing = "active"] \in Session
    BY <1>1 DEF Session, Standings
  <2> QED
    BY <1>1, <1>2, <2>1, ChangeSessionKeepsInvariant DEF Issue, Session
<1>3. CASE Rotate(s)
  <2> DEFINE new == [standing  |-> IF s \in Guests THEN "active" ELSE "pending-delivery",
                     secret    |-> session[s].secret + 1,
                     graceOpen |-> TRUE,
                     due       |-> FALSE,
                     expired   |-> session[s].expired]
  <2>1. new \in Session
    BY <1>1, <1>3, ConstantsAssumption DEF Rotate, Session, Standings
  <2>2. s \in Guests => new.standing = "active"
    BY <1>1 DEF Session
  <2>3. ChangeSession(s, new)
    BY <1>3 DEF Rotate
  <2> HIDE DEF new
  <2> QED
    BY <2>1, <2>2, <2>3, ChangeSessionKeepsInvariant
<1>4. CASE s \in Players /\ Acknowledge(s)
  <2>1. [session[s] EXCEPT !.standing = "active"] \in Session
    BY <1>1 DEF Session, Standings
  <2> QED
    BY <1>1, <1>4, <2>1, ChangeSessionKeepsInvariant DEF Acknowledge
<1>5. CASE s \in Players /\ Logout(s)
  <2>1. [session[s] EXCEPT !.standing = "revoked"] \in Session
    BY <1>1 DEF Session, Standings
  <2> QED
    BY <1>1, <1>5, <2>1, ChangeSessionKeepsInvariant DEF Logout
<1> QED
  BY <1>2, <1>3, <1>4, <1>5

\* A removal finds the parent row free and leaves an empty ledger.
LEMMA RemoveKeepsInvariant ==
    ASSUME IInv, NEW s \in Subjects, Remove(s)
    PROVE  IInv'
<1> USE DEF IInv
<1> DEFINE gone == NoSession("removed")
<1>1. /\ holder[s] = None /\ session' = [session EXCEPT ![s] = gone]
      /\ progress' = [progress EXCEPT ![s] = 0] /\ receipts' = [receipts EXCEPT ![s] = {}]
      /\ events' = [events EXCEPT ![s] = {}] /\ outbox' = [outbox EXCEPT ![s] = {}]
      /\ replied' = [replied EXCEPT ![s] = {}] /\ UNCHANGED <<holder, tx>>
  BY DEF Remove
<1>2. gone \in Session /\ gone.standing = "removed"
  BY ConstantsAssumption DEF NoSession, Session, Standings
<1> HIDE DEF gone
<1>3. TypeOK'
  BY <1>1, <1>2, ConstantsAssumption DEF TypeOK
<1>4. GuestStanding'
  BY <1>1, <1>2 DEF GuestStanding, TypeOK, Subjects
<1>5. \A t \in Txs : tx[t].stage \in Holding =>
          /\ session'[tx[t].subject] = session[tx[t].subject]
          /\ progress'[tx[t].subject] = progress[tx[t].subject]
          /\ receipts'[tx[t].subject] = receipts[tx[t].subject]
  <2> SUFFICES ASSUME NEW t \in Txs, tx[t].stage \in Holding
               PROVE  /\ session'[tx[t].subject] = session[tx[t].subject]
                      /\ progress'[tx[t].subject] = progress[tx[t].subject]
                      /\ receipts'[tx[t].subject] = receipts[tx[t].subject]
    OBVIOUS
  <2>1. tx[t].subject # s /\ tx[t].subject \in Subjects
    BY <1>1, UnlockedSubject, InFlight DEF Holding, Transaction
  <2> QED
    BY <2>1, <1>1 DEF TypeOK
<1>6. Prepared'
  BY <1>1, <1>5 DEF Prepared, ReceiptOf, Holding
<1>7. LockDiscipline'
  BY <1>1 DEF LockDiscipline
<1>8. CredentialStands'
  BY <1>1, <1>5 DEF CredentialStands, Slot
<1>9. DecisionStands'
  BY <1>1, <1>5 DEF DecisionStands, ReceiptOf, Holding
<1>10. LedgerExact'
  <2>1. \A q \in Subjects : q # s =>
            /\ receipts'[q] = receipts[q] /\ progress'[q] = progress[q]
            /\ events'[q] = events[q] /\ outbox'[q] = outbox[q]
    BY <1>1 DEF TypeOK
  <2>2. receipts'[s] = {} /\ progress'[s] = 0 /\ events'[s] = {} /\ outbox'[s] = {}
    BY <1>1 DEF TypeOK
  <2>3. 1 .. 0 = {}
    OBVIOUS
  <2> QED
    BY <2>1, <2>2, <2>3 DEF LedgerExact
<1> QED
  BY <1>3, <1>4, <1>6, <1>7, <1>8, <1>9, <1>10

\* The clock only moves flags that no lock protects.
LEMMA PassKeepsInvariant ==
    ASSUME IInv, NEW s \in Subjects, Pass(s)
    PROVE  IInv'
<1> USE DEF IInv
<1>1. \E flags \in Session :
          /\ session' = [session EXCEPT ![s] = flags]
          /\ flags.standing = session[s].standing /\ flags.secret = session[s].secret
  <2>1. session[s] \in Session
    BY DEF TypeOK
  <2>2. /\ [session[s] EXCEPT !.graceOpen = FALSE] \in Session
        /\ [session[s] EXCEPT !.due = TRUE] \in Session
        /\ [session[s] EXCEPT !.expired = TRUE] \in Session
    BY <2>1 DEF Session
  <2>3. \A flags \in {[session[s] EXCEPT !.graceOpen = FALSE],
                       [session[s] EXCEPT !.due = TRUE],
                       [session[s] EXCEPT !.expired = TRUE]} :
            flags.standing = session[s].standing /\ flags.secret = session[s].secret
    BY <2>1 DEF Session
  <2> QED
    BY <2>2, <2>3 DEF Pass
<1>2. UNCHANGED <<progress, receipts, events, outbox, holder, tx, replied>>
  BY DEF Pass
<1>3. \A q \in Subjects : /\ session'[q].standing = session[q].standing
                          /\ session'[q].secret = session[q].secret
  BY <1>1 DEF TypeOK
<1>4. TypeOK'
  BY <1>1, <1>2 DEF TypeOK
<1>5. GuestStanding'
  BY <1>3 DEF GuestStanding, Subjects
<1>6. Prepared' /\ LockDiscipline' /\ DecisionStands' /\ LedgerExact'
  BY <1>2 DEF Prepared, LockDiscipline, DecisionStands, LedgerExact, ReceiptOf
<1>7. CredentialStands'
  <2>1. \A t \in Txs : tx[t].stage \in Holding => tx[t].subject \in Subjects
    BY InFlight DEF Holding, Transaction
  <2> QED
    BY <1>2, <1>3, <2>1 DEF CredentialStands, Slot
<1> QED
  BY <1>4, <1>5, <1>6, <1>7

\* A receipt that expires stays in its ledger.
LEMMA ExpireReceiptKeepsInvariant ==
    ASSUME IInv, NEW s \in Subjects, ExpireReceipt(s)
    PROVE  IInv'
<1> USE DEF IInv
<1> PICK r \in receipts[s] :
        /\ ~r.expired
        /\ receipts' = [receipts EXCEPT ![s] =
                            (receipts[s] \ {r}) \cup {[r EXCEPT !.expired = TRUE]}]
  BY DEF ExpireReceipt
<1> DEFINE q == [r EXCEPT !.expired = TRUE]
<1>1. UNCHANGED <<session, progress, events, outbox, holder, tx, replied>>
  BY DEF ExpireReceipt
<1>2. r \in Receipt
  BY DEF TypeOK
<1>3. /\ q \in Receipt /\ q.key = r.key /\ q.committed = r.committed
      /\ q.expected = r.expected /\ q.advanced = r.advanced
  BY <1>2 DEF Receipt
<1>4. /\ receipts'[s] = (receipts[s] \ {r}) \cup {q}
      /\ \A x \in Subjects : x # s => receipts'[x] = receipts[x]
  BY DEF TypeOK
<1> HIDE DEF q
<1>5. TypeOK'
  <2>1. receipts[s] \subseteq Receipt
    BY DEF TypeOK
  <2>2. receipts' \in [Subjects -> SUBSET Receipt]
    BY <1>3, <2>1 DEF TypeOK, q
  <2> QED
    BY <1>1, <2>2 DEF TypeOK
<1>6. GuestStanding' /\ LockDiscipline' /\ CredentialStands'
  BY <1>1 DEF GuestStanding, LockDiscipline, CredentialStands, Slot
<1>7. \A x \in Subjects : \A k \in Keys : ReceiptOf(x, k) = {} => ReceiptOf(x, k)' = {}
  <2> SUFFICES ASSUME NEW x \in Subjects, NEW k \in Keys, ReceiptOf(x, k) = {},
                      NEW y \in receipts'[x], y.key = k
               PROVE  FALSE
    BY DEF ReceiptOf
  <2> QED
    BY <1>3, <1>4 DEF ReceiptOf
<1>8. Prepared' /\ DecisionStands'
  <2>1. \A t \in Txs : tx[t].stage \in Holding => tx[t] \in Transaction
    BY InFlight DEF Holding
  <2>2. \A t \in Txs : tx[t].stage \in Holding => tx[t].subject \in Subjects
    BY <2>1 DEF Transaction
  <2>3. \A t \in Txs : tx[t].stage = "decide" => tx[t].request.key \in Keys
    BY <2>1 DEF Transaction, Requests, Queries, Commands, Prepared, Holding
  <2>4. \A t \in Txs : tx[t].stage = "commit" => tx[t].write.key \in Keys
    BY DEF Prepared, Receipt
  <2>5. Prepared'
    BY <1>1, <1>7, <2>2, <2>3 DEF Prepared, Holding
  <2>6. DecisionStands'
    BY <1>1, <1>7, <2>2, <2>4 DEF DecisionStands, Holding
  <2> QED
    BY <2>5, <2>6
<1>9. LedgerExact'
  <2>1. /\ {[key |-> x.key, committed |-> x.committed] : x \in {y \in receipts'[s] : y.advanced}}
            = {[key |-> x.key, committed |-> x.committed] : x \in {y \in receipts[s] : y.advanced}}
    <3>1. \A x \in receipts'[s] : x.advanced =>
              \E y \in receipts[s] : y.advanced /\ y.key = x.key /\ y.committed = x.committed
      BY <1>3, <1>4
    <3>2. \A y \in receipts[s] : y.advanced =>
              \E x \in receipts'[s] : x.advanced /\ y.key = x.key /\ y.committed = x.committed
      BY <1>3, <1>4
    <3> QED
      BY <3>1, <3>2
  <2>2. \A x, y \in receipts'[s] : x.key = y.key => x = y
    BY <1>3, <1>4 DEF LedgerExact
  <2>3. \A x \in receipts'[s] :
            x.committed = IF x.advanced THEN x.expected + 1 ELSE x.expected
    BY <1>3, <1>4 DEF LedgerExact
  <2> QED
    BY <1>1, <1>4, <2>1, <2>2, <2>3 DEF LedgerExact
<1> QED
  BY <1>5, <1>6, <1>8, <1>9

-----------------------------------------------------------------------------
\* Every step keeps the invariant.
LEMMA StepKeepsInvariant == IInv /\ [Next]_vars => IInv'
<1> SUFFICES ASSUME IInv, [Next]_vars PROVE IInv'
  OBVIOUS
<1>1. ASSUME NEW t \in Txs, NEW s \in Subjects, NEW request \in Requests, Begin(t, s, request)
      PROVE  IInv'
  BY <1>1, BeginKeepsInvariant
<1>2. ASSUME NEW t \in Txs, Serve(t) \/ Crash(t)
      PROVE  IInv'
  BY <1>2, MatchKeepsInvariant, LockKeepsInvariant, QueryKeepsInvariant,
     ReplayKeepsInvariant, DecideKeepsInvariant, CommitKeepsInvariant,
     RespondKeepsInvariant, CrashKeepsInvariant DEF Serve
<1>3. ASSUME NEW s \in Subjects,
             Issue(s) \/ Rotate(s) \/ Remove(s) \/ Pass(s) \/ ExpireReceipt(s)
      PROVE  IInv'
  BY <1>3, SessionKeepsInvariant, RemoveKeepsInvariant, PassKeepsInvariant,
     ExpireReceiptKeepsInvariant
<1>4. ASSUME NEW p \in Players, Acknowledge(p) \/ Logout(p)
      PROVE  IInv'
  BY <1>4, SessionKeepsInvariant DEF Subjects
<1>5. CASE UNCHANGED vars
  <2>1. UNCHANGED <<session, progress, receipts, events, outbox, holder, tx, replied>>
    BY <1>5 DEF vars
  <2>2. TypeOK' /\ GuestStanding' /\ Prepared'
    BY <2>1 DEF IInv, TypeOK, GuestStanding, Prepared, ReceiptOf
  <2>3. LockDiscipline' /\ CredentialStands' /\ DecisionStands' /\ LedgerExact'
    BY <2>1 DEF IInv, LockDiscipline, CredentialStands, DecisionStands, LedgerExact,
               ReceiptOf, Slot
  <2> QED
    BY <2>2, <2>3 DEF IInv
<1> QED
  BY <1>1, <1>2, <1>3, <1>4, <1>5 DEF Next

\* The invariant holds in every reachable state.
THEOREM Invariance == Spec => []IInv
<1>1. Init => IInv
  BY InitInvariant
<1>2. IInv /\ [Next]_vars => IInv'
  BY StepKeepsInvariant
<1> QED
  BY <1>1, <1>2, PTL DEF Spec

\* Every row and every transaction keeps its shape.
THEOREM TypeCorrectness == Spec => []TypeOK
<1>1. IInv => TypeOK
  BY DEF IInv
<1> QED
  BY <1>1, Invariance, PTL

\* The revision, the events, the outbox and the receipts of every subject
\* tell one story, however requests and sessions interleave and crash.
THEOREM LedgerAlwaysExact == Spec => []LedgerExact
<1>1. IInv => LedgerExact
  BY DEF IInv
<1> QED
  BY <1>1, Invariance, PTL

\* No parent lock leaks, and a decision is still true when it is committed.
THEOREM LocksAreSound == Spec => [](LockDiscipline /\ DecisionStands)
<1>1. IInv => LockDiscipline /\ DecisionStands
  BY DEF IInv
<1> QED
  BY <1>1, Invariance, PTL

\* Before its lock a transaction is answered only to be refused.
LEMMA RefusedBeforeLock ==
    ASSUME IInv, Next, NEW t \in Txs, tx[t].stage \in {"match", "lock"},
           tx'[t].stage = "answer"
    PROVE  tx'[t].answer \in {"unauthenticated", "rotation-required"}
<1>1. tx[t] \in Transaction
  BY InFlight DEF IInv
<1>2. ASSUME NEW a, Ends(t, a)
      PROVE  tx'[t].answer = a
  BY <1>1, <1>2 DEF Ends, IInv, TypeOK, Transaction
<1>3. CASE Match(t) \/ Lock(t)
  <2>1. CASE Ends(t, "unauthenticated")
    BY <2>1, <1>2
  <2>2. CASE Refuse(t)
    BY <2>2, <1>2 DEF Refuse
  <2>3. CASE \E slot \in {None, "current", "predecessor"} :
                 tx' = [tx EXCEPT ![t].stage = "lock", ![t].slot = slot]
    BY <2>3, <1>1 DEF IInv, TypeOK, Transaction
  <2>4. CASE tx' = [tx EXCEPT ![t].stage = "receipt"]
    BY <2>4, <1>1 DEF IInv, TypeOK, Transaction
  <2> QED
    BY <1>3, <2>1, <2>2, <2>3, <2>4 DEF Match, Lock, Slot
<1>4. CASE tx'[t] = tx[t]
  BY <1>4
<1>5. ASSUME NEW u \in Txs, u # t, Serve(u) \/ Crash(u)
      PROVE  tx'[t] = tx[t]
  BY <1>5 DEF Serve, Crash, Match, Lock, Query, Replay, Decide, Commit, Respond,
              Refuse, Ends, IInv, TypeOK
<1>6. ASSUME NEW u \in Txs, NEW s \in Subjects, NEW request \in Requests, Begin(u, s, request)
      PROVE  tx'[t] = tx[t]
  BY <1>6 DEF Begin, Idle, IInv, TypeOK
<1>7. ASSUME Serve(t) \/ Crash(t)
      PROVE  Match(t) \/ Lock(t) \/ tx'[t].stage # "answer"
  BY <1>7 DEF Serve, Crash, Query, Replay, Decide, Commit, Respond, Idle, IInv, TypeOK
<1>8. ASSUME NEW s \in Subjects,
             \/ Issue(s) \/ Rotate(s) \/ Remove(s) \/ Pass(s) \/ ExpireReceipt(s)
             \/ Acknowledge(s) \/ Logout(s)
      PROVE  tx' = tx
  BY <1>8 DEF Issue, Rotate, Remove, Pass, ExpireReceipt, Acknowledge, Logout, ChangeSession
<1> QED
  BY <1>3, <1>4, <1>5, <1>6, <1>7, <1>8 DEF Next, Subjects

(***************************************************************************)
(* Nothing of a subject is answered to, or committed for, a secret that    *)
(* has meanwhile been rotated out, logged out or deleted.                  *)
(***************************************************************************)
THEOREM AnswersNeedAuthority == Spec => AnsweredUnderAuthority
<1> DEFINE Answered(t) ==
        /\ tx[t].stage # "idle" /\ tx[t].stage # "answer"
        /\ tx'[t].stage = "answer"
        /\ tx'[t].answer \in {"queried", "committed", "replayed"}
           Stands(t) ==
        LET s == tx[t].subject IN
        /\ session[s].standing = "active"
        /\ Slot(s, tx[t].request.secret) # None
        /\ s \in Guests => Slot(s, tx[t].request.secret) = tx[t].slot
<1>1. IInv /\ [Next]_vars => [\A t \in Txs : Answered(t) => Stands(t)]_vars
  <2> SUFFICES ASSUME IInv, Next, NEW t \in Txs, Answered(t)
               PROVE  Stands(t)
    BY DEF vars
  <2>1. tx[t].stage \in Holding
    <3>1. tx[t].stage \notin {"match", "lock"}
      BY RefusedBeforeLock
    <3>2. tx[t].stage \in Stages
      BY InFlight DEF IInv, Transaction
    <3> QED
      BY <3>1, <3>2 DEF Stages, Holding
  <2> QED
    BY <2>1 DEF IInv, CredentialStands
<1> QED
  BY <1>1, Invariance, PTL DEF Spec, AnsweredUnderAuthority

-----------------------------------------------------------------------------
(***************************************************************************)
(* The tables implement the log of effects.  Which event a revision names, *)
(* and which receipt a key has, is determinate because the ledger is exact *)
(* (LedgerExact); that a commit is one Settle of the log needs the rows to *)
(* be those the command was decided on (DecisionStands), its subject to be *)
(* there still (CredentialStands), and room for one more revision          *)
(* (Prepared).                                                             *)
(***************************************************************************)

\* A function on 1 .. n is a sequence of length n.
LEMMA FunctionIsSeq ==
    ASSUME NEW S, NEW n \in Nat, NEW f \in [1 .. n -> S]
    PROVE  f \in Seq(S) /\ Len(f) = n
<1>1. f \in Seq(S)
  BY SeqDef
<1>2. Len(f) \in Nat /\ 1 .. Len(f) = 1 .. n
  BY <1>1, LenProperties
<1>3. Len(f) = n
  BY <1>2
<1> QED
  BY <1>1, <1>3

\* The effect of a revision is the key of the one event that carries it.
LEMMA EffectOfRevision ==
    ASSUME IInv, NEW s \in Subjects, NEW n \in 1 .. progress[s]
    PROVE  \E e \in events[s] : e.committed = n /\ LogEffects[s][n] = e.key
<1>1. \E e \in events[s] : e.committed = n
  BY DEF IInv, LedgerExact
<1>2. LogEffects[s][n] = (CHOOSE e \in events[s] : e.committed = n).key
  BY DEF LogEffects
<1> QED
  BY <1>1, <1>2

\* An event is the effect of its revision.
LEMMA EffectOfEvent ==
    ASSUME IInv, NEW s \in Subjects, NEW e \in events[s]
    PROVE  e.committed \in 1 .. progress[s] /\ LogEffects[s][e.committed] = e.key
<1>1. e.committed \in 1 .. progress[s]
  BY DEF IInv, LedgerExact
<1>2. PICK f \in events[s] : f.committed = e.committed /\ LogEffects[s][e.committed] = f.key
  BY <1>1, EffectOfRevision
<1>3. f = e
  BY <1>2 DEF IInv, LedgerExact
<1> QED
  BY <1>1, <1>2, <1>3

\* The log of a subject is as long as its revision.
LEMMA EffectsAreSeq ==
    ASSUME IInv, NEW s \in Subjects
    PROVE  /\ progress[s] \in Nat
           /\ LogEffects[s] \in Seq(Keys)
           /\ Len(LogEffects[s]) = progress[s]
<1>1. progress[s] \in Nat /\ events[s] \subseteq Event
  BY ConstantsAssumption DEF IInv, TypeOK
<1>2. \A n \in 1 .. progress[s] : LogEffects[s][n] \in Keys
  BY <1>1, EffectOfRevision DEF Event
<1>3. LogEffects[s] \in [1 .. progress[s] -> Keys]
  BY <1>2 DEF LogEffects
<1> QED
  BY <1>1, <1>3, FunctionIsSeq

\* The receipt of a key is the one row that bears it.
LEMMA ReceiptOfKey ==
    ASSUME IInv, NEW s \in Subjects
    PROVE  /\ \A r \in receipts[s] : r.key \in Keys /\ LogReceipts[s][r.key] = Told(r)
           /\ \A k \in Keys : ReceiptOf(s, k) = {} => LogReceipts[s][k] = None
<1>1. ASSUME NEW r \in receipts[s]
      PROVE  r.key \in Keys /\ LogReceipts[s][r.key] = Told(r)
  <2>1. r.key \in Keys /\ ReceiptOf(s, r.key) # {}
    BY DEF ReceiptOf, IInv, TypeOK, Receipt
  <2>2. LogReceipts[s][r.key] = Told(CHOOSE x \in receipts[s] : x.key = r.key)
    BY <2>1 DEF LogReceipts
  <2>3. (CHOOSE x \in receipts[s] : x.key = r.key) = r
    BY DEF IInv, LedgerExact
  <2> QED
    BY <2>1, <2>2, <2>3
<1>2. ASSUME NEW k \in Keys, ReceiptOf(s, k) = {}
      PROVE  LogReceipts[s][k] = None
  BY <1>2 DEF LogReceipts
<1> QED
  BY <1>1, <1>2

\* The log is made of functions, in this state and in the next.
LogOfFunctions ==
    /\ LogEffects = [s \in Subjects |-> LogEffects[s]]
    /\ LogReceipts = [s \in Subjects |-> LogReceipts[s]]
    /\ \A s \in Subjects : LogReceipts[s] = [k \in Keys |-> LogReceipts[s][k]]

LEMMA LogIsOfFunctions == LogOfFunctions
BY DEF LogOfFunctions, LogEffects, LogReceipts

LEMMA NextLogIsOfFunctions == LogOfFunctions'
BY LogIsOfFunctions, PTL

\* What is told of a receipt is a reply, and no absence of one.
LEMMA ToldIsReply ==
    ASSUME NEW r \in Receipt
    PROVE  Told(r) \in Reply /\ Told(r) # None
<1>1. Told(r) \in Reply
  BY DEF Told, Receipt, Reply
<1> QED
  BY <1>1, NoneAssumption

\* The initial tables are the empty log.
LEMMA InitIsLogInit == Init => Log!Init
<1> SUFFICES ASSUME Init PROVE Log!Init
  OBVIOUS
<1>1. \A s \in Subjects : /\ session[s].standing = "absent" /\ progress[s] = 0
                          /\ receipts[s] = {} /\ replied = [q \in Subjects |-> {}]
  BY DEF Init, NoSession
<1>2. LogStanding = [s \in Subjects |-> "absent"]
  BY <1>1 DEF LogStanding, Live
<1>3. LogEffects = [s \in Subjects |-> <<>>]
  <2>1. \A s \in Subjects : LogEffects[s] = <<>>
    <3> SUFFICES ASSUME NEW s \in Subjects PROVE LogEffects[s] = <<>>
      OBVIOUS
    <3>1. LogEffects[s] \in [1 .. 0 -> Keys]
      BY <1>1 DEF LogEffects
    <3>2. LogEffects[s] \in Seq(Keys) /\ Len(LogEffects[s]) = 0
      BY <3>1, FunctionIsSeq
    <3> QED
      BY <3>2, EmptySeq
  <2> QED
    BY <2>1 DEF LogEffects
<1>4. LogReceipts = [s \in Subjects |-> [k \in Keys |-> None]]
  BY <1>1 DEF LogReceipts, ReceiptOf
<1>5. replied = [s \in Subjects |-> {}]
  BY DEF Init
<1> QED
  BY <1>2, <1>3, <1>4, <1>5 DEF Log!Init

\* The log of an exact ledger, in this state and in the next.
LogOfRows ==
    \A s \in Subjects :
        /\ progress[s] \in Nat
        /\ LogEffects[s] \in Seq(Keys)
        /\ Len(LogEffects[s]) = progress[s]
        /\ \A e \in events[s] : /\ e.committed \in 1 .. progress[s]
                                /\ LogEffects[s][e.committed] = e.key
        /\ \A r \in receipts[s] : r.key \in Keys /\ LogReceipts[s][r.key] = Told(r)
        /\ \A k \in Keys : ReceiptOf(s, k) = {} => LogReceipts[s][k] = None

LEMMA LogIsDeterminate == IInv => LogOfRows
BY EffectsAreSeq, EffectOfEvent, ReceiptOfKey DEF LogOfRows

LEMMA NextLogIsDeterminate == IInv' => LogOfRows'
BY LogIsDeterminate, PTL

\* A subject's log is a function of its own rows.
EffectsIn(E, last) == [n \in 1 .. last |-> (CHOOSE e \in E : e.committed = n).key]

ReceiptsIn(R) == [k \in Keys |-> IF {r \in R : r.key = k} = {} THEN None
                                 ELSE Told(CHOOSE r \in R : r.key = k)]

LEMMA LogOfOwnRows ==
    ASSUME NEW s \in Subjects
    PROVE  /\ LogEffects[s] = EffectsIn(events[s], progress[s])
           /\ LogReceipts[s] = ReceiptsIn(receipts[s])
BY DEF LogEffects, LogReceipts, ReceiptOf, EffectsIn, ReceiptsIn

LEMMA OwnRowsSameLog ==
    ASSUME NEW s \in Subjects
    PROVE  /\ UNCHANGED <<events[s], progress[s]>> => LogEffects'[s] = LogEffects[s]
           /\ receipts'[s] = receipts[s] => LogReceipts'[s] = LogReceipts[s]
<1>1. /\ LogEffects'[s] = EffectsIn(events'[s], progress'[s])
      /\ LogReceipts'[s] = ReceiptsIn(receipts'[s])
  BY DEF LogEffects, LogReceipts, ReceiptOf, EffectsIn, ReceiptsIn
<1> QED
  BY <1>1, LogOfOwnRows

\* Rows that stay, of subjects that stay, are the same log.
LEMMA SameRowsSameLog ==
    ASSUME UNCHANGED <<progress, receipts, events, replied>>,
           \A s \in Subjects : \/ session'[s].standing = session[s].standing
                               \/ Live(s) /\ Live(s)'
    PROVE  UNCHANGED Log!logVars
<1>1. LogStanding' = LogStanding
  BY DEF LogStanding, Live
<1>2. LogEffects' = LogEffects
  BY DEF LogEffects
<1>3. LogReceipts' = LogReceipts
  BY DEF LogReceipts, ReceiptOf
<1> QED
  BY <1>1, <1>2, <1>3 DEF Log!logVars

\* A request only reads, waits and is refused, as far as the log goes, but
\* for a replay and a commit.
LEMMA ServingIsQuiet ==
    ASSUME NEW t \in Txs,
           \/ \E s \in Subjects, request \in Requests : Begin(t, s, request)
           \/ Match(t) \/ Lock(t) \/ Query(t) \/ Decide(t) \/ Respond(t) \/ Crash(t)
           \/ Replay(t) /\ UNCHANGED replied
    PROVE  UNCHANGED Log!logVars
<1>1. UNCHANGED <<session, progress, receipts, events, replied>>
  BY DEF Begin, Match, Lock, Query, Decide, Respond, Crash, Replay, Refuse, database
<1> QED
  BY <1>1, SameRowsSameLog

\* Issuing a session admits its subject to the log.
LEMMA IssueAdmits ==
    ASSUME IInv, NEW s \in Subjects, Issue(s)
    PROVE  Log!Admit(s)
<1>1. /\ session[s].standing = "absent" /\ session[s] \in Session
      /\ session' = [session EXCEPT ![s] = [session[s] EXCEPT !.standing = "active"]]
      /\ UNCHANGED <<progress, receipts, events, replied>>
  BY DEF Issue, ChangeSession, IInv, TypeOK
<1>2. /\ session'[s].standing = "active"
      /\ \A q \in Subjects : q # s => session'[q] = session[q]
  BY <1>1 DEF IInv, TypeOK, Session
<1>3. LogStanding[s] = "absent"
  BY <1>1 DEF LogStanding, Live
<1>4. LogStanding' = [LogStanding EXCEPT ![s] = "live"]
  BY <1>2 DEF LogStanding, Live
<1>5. LogEffects' = LogEffects /\ LogReceipts' = LogReceipts
  BY <1>1 DEF LogEffects, LogReceipts, ReceiptOf
<1> QED
  BY <1>1, <1>3, <1>4, <1>5 DEF Log!Admit

\* A session that rotates, is acknowledged, ends or ages stays in the log.
LEMMA SessionIsQuiet ==
    ASSUME IInv, NEW s \in Subjects,
           Rotate(s) \/ Acknowledge(s) \/ Logout(s) \/ Pass(s)
    PROVE  UNCHANGED Log!logVars
<1>1. UNCHANGED <<progress, receipts, events, replied>> /\ session[s] \in Session
  BY DEF Rotate, Acknowledge, Logout, Pass, ChangeSession, IInv, TypeOK
<1>2. \A q \in Subjects : q # s => session'[q] = session[q]
  BY DEF Rotate, Acknowledge, Logout, Pass, ChangeSession, IInv, TypeOK
<1>3. Live(s) /\ Live(s)'
  <2>1. CASE Rotate(s)
    BY <2>1 DEF Rotate, ChangeSession, Live, IInv, TypeOK
  <2>2. CASE Acknowledge(s)
    BY <1>1, <2>2 DEF Acknowledge, ChangeSession, Live, IInv, TypeOK, Session
  <2>3. CASE Logout(s)
    BY <1>1, <2>3 DEF Logout, ChangeSession, Live, IInv, TypeOK, Session
  <2>4. CASE Pass(s)
    BY <1>1, <2>4 DEF Pass, Live, IInv, TypeOK, Session
  <2> QED
    BY <2>1, <2>2, <2>3, <2>4
<1> QED
  BY <1>1, <1>2, <1>3, SameRowsSameLog

\* A removal empties the log of its subject.
LEMMA RemoveRemoves ==
    ASSUME IInv, IInv', NEW s \in Subjects, Remove(s)
    PROVE  Log!Remove(s)
<1>1. /\ Live(s)
      /\ session' = [session EXCEPT ![s] = NoSession("removed")]
      /\ progress' = [progress EXCEPT ![s] = 0]
      /\ receipts' = [receipts EXCEPT ![s] = {}]
      /\ events' = [events EXCEPT ![s] = {}]
      /\ replied' = [replied EXCEPT ![s] = {}]
  BY DEF Remove
<1>2. /\ session'[s].standing = "removed" /\ progress'[s] = 0 /\ receipts'[s] = {}
      /\ \A q \in Subjects : q # s =>
             /\ session'[q] = session[q] /\ progress'[q] = progress[q]
             /\ receipts'[q] = receipts[q] /\ events'[q] = events[q]
  BY <1>1 DEF IInv, TypeOK, NoSession
<1>3. LogStanding[s] = "live"
  BY <1>1 DEF LogStanding
<1>4. LogStanding' = [LogStanding EXCEPT ![s] = "removed"]
  BY <1>2 DEF LogStanding, Live
<1>5. LogEffects' = [LogEffects EXCEPT ![s] = <<>>]
  <2>1. LogEffects'[s] = <<>>
    <3>1. LogEffects'[s] \in Seq(Keys) /\ Len(LogEffects'[s]) = 0
      BY <1>2, NextLogIsDeterminate DEF LogOfRows
    <3> QED
      BY <3>1, EmptySeq
  <2>2. \A q \in Subjects : q # s => LogEffects'[q] = LogEffects[q]
    BY <1>2, OwnRowsSameLog
  <2> QED
    BY <2>1, <2>2 DEF LogEffects
<1>6. LogReceipts' = [LogReceipts EXCEPT ![s] = [k \in Keys |-> None]]
  <2>1. LogReceipts'[s] = [k \in Keys |-> None]
    BY <1>2 DEF LogReceipts, ReceiptOf
  <2>2. \A q \in Subjects : q # s => LogReceipts'[q] = LogReceipts[q]
    BY <1>2, OwnRowsSameLog
  <2> QED
    BY <2>1, <2>2 DEF LogReceipts
<1> QED
  BY <1>1, <1>3, <1>4, <1>5, <1>6 DEF Log!Remove

\* A receipt that expires still tells what it told.
LEMMA ExpiryIsQuiet ==
    ASSUME IInv, IInv', NEW s \in Subjects, ExpireReceipt(s)
    PROVE  UNCHANGED Log!logVars
<1> PICK r \in receipts[s] :
        receipts' = [receipts EXCEPT ![s] =
                        (receipts[s] \ {r}) \cup {[r EXCEPT !.expired = TRUE]}]
  BY DEF ExpireReceipt
<1> DEFINE q == [r EXCEPT !.expired = TRUE]
<1>1. UNCHANGED <<session, progress, events, replied>>
  BY DEF ExpireReceipt
<1>2. r \in Receipt
  BY DEF IInv, TypeOK
<1>3. q.key = r.key /\ Told(q) = Told(r)
  BY <1>2 DEF Receipt, Told
<1>4. /\ receipts'[s] = (receipts[s] \ {r}) \cup {q}
      /\ \A x \in Subjects : x # s => receipts'[x] = receipts[x]
  BY DEF IInv, TypeOK
<1> HIDE DEF q
<1>5. LogStanding' = LogStanding /\ LogEffects' = LogEffects
  BY <1>1 DEF LogStanding, LogEffects, Live
<1>6. LogReceipts' = LogReceipts
  <2>1. \A k \in Keys : LogReceipts'[s][k] = LogReceipts[s][k]
    <3> SUFFICES ASSUME NEW k \in Keys PROVE LogReceipts'[s][k] = LogReceipts[s][k]
      OBVIOUS
    <3>1. CASE \E x \in receipts[s] : x.key = k
      <4> PICK x \in receipts[s] : x.key = k
        BY <3>1
      <4>1. LogReceipts[s][k] = Told(x)
        BY LogIsDeterminate DEF LogOfRows
      <4>2. PICK y \in receipts'[s] : y.key = k /\ Told(y) = Told(x)
        BY <1>3, <1>4
      <4>3. LogReceipts'[s][k] = Told(y)
        BY <4>2, NextLogIsDeterminate DEF LogOfRows
      <4> QED
        BY <4>1, <4>2, <4>3
    <3>2. CASE \A x \in receipts[s] : x.key # k
      <4>1. \A x \in receipts'[s] : x.key # k
        BY <3>2, <1>3, <1>4
      <4>2. ReceiptOf(s, k) = {} /\ ReceiptOf(s, k)' = {}
        BY <3>2, <4>1 DEF ReceiptOf
      <4>3. LogReceipts[s][k] = None /\ LogReceipts'[s][k] = None
        BY <4>2, LogIsDeterminate, NextLogIsDeterminate DEF LogOfRows
      <4> QED
        BY <4>3
    <3> QED
      BY <3>1, <3>2
  <2>2. LogReceipts'[s] = LogReceipts[s]
    BY <2>1 DEF LogReceipts
  <2>3. \A x \in Subjects : x # s => LogReceipts'[x] = LogReceipts[x]
    BY <1>4, OwnRowsSameLog
  <2> QED
    BY <2>2, <2>3 DEF LogReceipts
<1> QED
  BY <1>1, <1>5, <1>6 DEF Log!logVars

\* A stored receipt that answers is a replay of the log; one that refuses,
\* and a key without one, leave the log alone.
LEMMA ReplayReplays ==
    ASSUME IInv, NEW t \in Txs, Replay(t)
    PROVE  \/ UNCHANGED Log!logVars
           \/ \E s \in Subjects, k \in Keys : Log!Replay(s, k)
<1>1. CASE UNCHANGED replied
  BY <1>1, ServingIsQuiet
<1>2. CASE replied' # replied
  <2> DEFINE s == tx[t].subject
  <2>1. s \in Subjects /\ UNCHANGED <<session, progress, receipts, events>>
    BY InFlight DEF Replay, Refuse, database, IInv, Transaction
  <2>2. PICK r \in receipts[s] : replied' = [replied EXCEPT ![s] = @ \cup {Told(r)}]
    BY <1>2 DEF Replay, Refuse, ReceiptOf
  <2>3. r \in Receipt
    BY <2>1 DEF IInv, TypeOK
  <2>4. r.key \in Keys /\ LogReceipts[s][r.key] = Told(r) /\ Told(r) # None
    BY <2>1, <2>3, LogIsDeterminate, ToldIsReply DEF LogOfRows
  <2>5. UNCHANGED <<LogStanding, LogEffects, LogReceipts>>
    BY <2>1 DEF LogStanding, LogEffects, LogReceipts, Live, ReceiptOf
  <2>6. Log!Replay(s, r.key)
    BY <2>2, <2>4, <2>5 DEF Log!Replay
  <2> QED
    BY <2>1, <2>4, <2>6
<1> QED
  BY <1>1, <1>2

(***************************************************************************)
(* A commit settles its key: at the revision the command expected, which   *)
(* is the number of effects so far, it appends one effect if it advanced,  *)
(* and answers with the receipt it stores.                                 *)
(***************************************************************************)
LEMMA CommitSettles ==
    ASSUME IInv, IInv', NEW t \in Txs, Commit(t)
    PROVE  \E s \in Subjects, k \in Keys, b \in Bodies, advanced \in BOOLEAN :
               Log!Settle(s, k, b, advanced)
<1> PICK own \in Subjects, w \in Receipt : own = tx[t].subject /\ w = tx[t].write
  BY InFlight DEF Commit, IInv, Prepared, Transaction
<1> DEFINE now == Len(LogEffects[own])
           next == IF w.advanced THEN now + 1 ELSE now
           answer == [key |-> w.key, body |-> w.body, expected |-> now,
                      committed |-> next, advanced |-> w.advanced]
<1>1. /\ own \in Subjects /\ w \in Receipt
      /\ w.key \in Keys /\ w.body \in Bodies /\ w.advanced \in BOOLEAN
      /\ w.expected = progress[own] /\ w.expected < MaxRevision
      /\ w.committed = IF w.advanced THEN w.expected + 1 ELSE w.expected
      /\ ReceiptOf(own, w.key) = {}
      /\ session[own].standing = "active"
  BY InFlight DEF Commit, IInv, Prepared, DecisionStands, CredentialStands, Holding,
                  Transaction, Receipt
<1>2. /\ receipts' = [receipts EXCEPT ![own] = @ \cup {w}]
      /\ replied' = [replied EXCEPT ![own] = @ \cup {Told(w)}]
      /\ w.advanced => /\ progress' = [progress EXCEPT ![own] = w.committed]
                       /\ events' = [events EXCEPT ![own] = @ \cup
                                         {[key |-> w.key, committed |-> w.committed]}]
      /\ ~w.advanced => UNCHANGED <<progress, events>>
      /\ UNCHANGED session
  BY <1>1 DEF Commit
<1>3. /\ receipts'[own] = receipts[own] \cup {w}
      /\ w.advanced => /\ progress'[own] = progress[own] + 1
                       /\ events'[own] = events[own] \cup
                              {[key |-> w.key, committed |-> progress[own] + 1]}
      /\ \A q \in Subjects : q # own =>
             /\ receipts'[q] = receipts[q]
             /\ UNCHANGED <<events[q], progress[q]>>
  BY <1>1, <1>2 DEF IInv, TypeOK
<1>4. /\ progress[own] \in Nat /\ LogEffects[own] \in Seq(Keys) /\ now = progress[own]
      /\ LogEffects'[own] \in Seq(Keys) /\ Len(LogEffects'[own]) = progress'[own]
  BY <1>1, LogIsDeterminate, NextLogIsDeterminate DEF LogOfRows
<1>5. Told(w) = answer
  BY <1>1, <1>4 DEF Told
<1>6. LogStanding[own] = "live" /\ LogStanding' = LogStanding
  BY <1>1, <1>2 DEF LogStanding, Live
<1>7. LogReceipts[own][w.key] = None
  BY <1>1, LogIsDeterminate DEF LogOfRows
<1>8. LogReceipts' = [LogReceipts EXCEPT ![own][w.key] = Told(w)]
  <2>1. \A k \in Keys :
            LogReceipts'[own][k] = IF k = w.key THEN Told(w) ELSE LogReceipts[own][k]
    <3> SUFFICES ASSUME NEW k \in Keys
                 PROVE  LogReceipts'[own][k] =
                            IF k = w.key THEN Told(w) ELSE LogReceipts[own][k]
      OBVIOUS
    <3>1. CASE k = w.key
      <4>1. w \in receipts'[own]
        BY <1>3
      <4> QED
        BY <3>1, <4>1, <1>1, NextLogIsDeterminate DEF LogOfRows
    <3>2. CASE k # w.key /\ \E x \in receipts[own] : x.key = k
      <4> PICK x \in receipts[own] : x.key = k
        BY <3>2
      <4>1. x \in receipts'[own]
        BY <1>3
      <4>2. LogReceipts[own][k] = Told(x) /\ LogReceipts'[own][k] = Told(x)
        BY <4>1, <1>1, LogIsDeterminate, NextLogIsDeterminate DEF LogOfRows
      <4> QED
        BY <3>2, <4>2
    <3>3. CASE k # w.key /\ \A x \in receipts[own] : x.key # k
      <4>1. ReceiptOf(own, k) = {} /\ ReceiptOf(own, k)' = {}
        BY <3>3, <1>3 DEF ReceiptOf
      <4>2. LogReceipts[own][k] = None /\ LogReceipts'[own][k] = None
        BY <4>1, <1>1, LogIsDeterminate, NextLogIsDeterminate DEF LogOfRows
      <4> QED
        BY <3>3, <4>2
    <3> QED
      BY <3>1, <3>2, <3>3
  <2>2. LogReceipts'[own] = [LogReceipts[own] EXCEPT ![w.key] = Told(w)]
    <3>1. LogReceipts'[own] = [k \in Keys |-> LogReceipts'[own][k]]
      BY NextLogIsOfFunctions DEF LogOfFunctions
    <3>2. LogReceipts[own] = [k \in Keys |-> LogReceipts[own][k]]
      BY LogIsOfFunctions DEF LogOfFunctions
    <3> QED
      BY <2>1, <3>1, <3>2, <1>1, Zenon
  <2>3. \A q \in Subjects : q # own => LogReceipts'[q] = LogReceipts[q]
    BY <1>3, OwnRowsSameLog
  <2> QED
    BY <2>2, <2>3, <1>1 DEF LogReceipts
<1>9. LogEffects' = IF w.advanced THEN [LogEffects EXCEPT ![own] = Append(@, w.key)]
                                  ELSE LogEffects
  <2>1. CASE ~w.advanced
    <3>1. LogEffects' = LogEffects
      <4>1. UNCHANGED <<progress, events>>
        BY <2>1, <1>2
      <4> QED
        BY <4>1 DEF LogEffects
    <3> QED
      BY <2>1, <3>1
  <2>2. CASE w.advanced
    <3> DEFINE longer == Append(LogEffects[own], w.key)
    <3>1. /\ longer \in Seq(Keys) /\ Len(longer) = progress[own] + 1
          /\ \A n \in 1 .. progress[own] : longer[n] = LogEffects[own][n]
          /\ longer[progress[own] + 1] = w.key
      BY <1>1, <1>4, AppendProperties
    <3>2. \A n \in 1 .. progress[own] : LogEffects'[own][n] = LogEffects[own][n]
      <4> SUFFICES ASSUME NEW n \in 1 .. progress[own]
                   PROVE  LogEffects'[own][n] = LogEffects[own][n]
        OBVIOUS
      <4>1. PICK e \in events[own] : e.committed = n /\ LogEffects[own][n] = e.key
        BY <1>1, EffectOfRevision
      <4>2. e \in events'[own]
        BY <2>2, <1>3
      <4> QED
        BY <4>1, <4>2, <1>1, NextLogIsDeterminate DEF LogOfRows
    <3>3. LogEffects'[own][progress[own] + 1] = w.key
      <4> DEFINE e == [key |-> w.key, committed |-> progress[own] + 1]
      <4>1. e \in events'[own] /\ e.key = w.key /\ e.committed = progress[own] + 1
        BY <2>2, <1>3
      <4> HIDE DEF e
      <4> QED
        BY <4>1, <1>1, NextLogIsDeterminate DEF LogOfRows
    <3> HIDE DEF longer
    <3>4. Len(LogEffects'[own]) = Len(longer)
      BY <2>2, <1>3, <1>4, <3>1
    <3>5. \A n \in 1 .. Len(longer) : longer[n] = LogEffects'[own][n]
      BY <1>4, <3>1, <3>2, <3>3
    <3>6. LogEffects'[own] = longer
      BY <1>4, <3>1, <3>4, <3>5, SeqEqual
    <3>7. \A q \in Subjects : q # own => LogEffects'[q] = LogEffects[q]
      BY <1>3, OwnRowsSameLog
    <3>8. LogEffects' = [LogEffects EXCEPT ![own] = longer]
      BY <3>6, <3>7, <1>1, LogIsOfFunctions, NextLogIsOfFunctions DEF LogOfFunctions
    <3> QED
      BY <2>2, <3>8 DEF longer
  <2> QED
    BY <2>1, <2>2
<1>10. LogReceipts'[own][w.key] = Told(w)
  BY <1>1, <1>8, LogIsOfFunctions DEF LogOfFunctions
<1>11. Log!Settle(own, w.key, w.body, w.advanced)
  BY <1>1, <1>2, <1>4, <1>5, <1>6, <1>7, <1>8, <1>9, <1>10 DEF Log!Settle
<1> QED
  BY <1>1, <1>11

\* Every step of the authority is a step of the log, or none.
LEMMA StepIsLogStep == IInv /\ IInv' /\ [Next]_vars => [Log!Next]_(Log!logVars)
<1> SUFFICES ASSUME IInv, IInv', [Next]_vars PROVE [Log!Next]_(Log!logVars)
  OBVIOUS
<1>1. ASSUME NEW t \in Txs, NEW s \in Subjects, NEW request \in Requests, Begin(t, s, request)
      PROVE  UNCHANGED Log!logVars
  BY <1>1, ServingIsQuiet
<1>2. ASSUME NEW t \in Txs, Serve(t) \/ Crash(t)
      PROVE  [Log!Next]_(Log!logVars)
  <2>1. CASE Replay(t)
    BY <2>1, ReplayReplays DEF Log!Next
  <2>2. CASE Commit(t)
    BY <2>2, CommitSettles DEF Log!Next
  <2>3. CASE Match(t) \/ Lock(t) \/ Query(t) \/ Decide(t) \/ Respond(t) \/ Crash(t)
    BY <2>3, ServingIsQuiet
  <2> QED
    BY <1>2, <2>1, <2>2, <2>3 DEF Serve
<1>3. ASSUME NEW s \in Subjects,
             Issue(s) \/ Rotate(s) \/ Remove(s) \/ Pass(s) \/ ExpireReceipt(s)
      PROVE  [Log!Next]_(Log!logVars)
  <2>1. CASE Issue(s)
    BY <2>1, IssueAdmits DEF Log!Next
  <2>2. CASE Remove(s)
    BY <2>2, RemoveRemoves DEF Log!Next
  <2>3. CASE ExpireReceipt(s)
    BY <2>3, ExpiryIsQuiet
  <2>4. CASE Rotate(s) \/ Pass(s)
    BY <2>4, SessionIsQuiet
  <2> QED
    BY <1>3, <2>1, <2>2, <2>3, <2>4
<1>4. ASSUME NEW p \in Players, Acknowledge(p) \/ Logout(p)
      PROVE  UNCHANGED Log!logVars
  BY <1>4, SessionIsQuiet DEF Subjects
<1>5. CASE UNCHANGED vars
  BY <1>5, SameRowsSameLog DEF vars
<1> QED
  BY <1>1, <1>2, <1>3, <1>4, <1>5 DEF Next

\* The four tables, with every race, retry, crash and rotation, are one log
\* of effects per subject: at most one effect per key, only at the revision
\* it expected, and every answer the first one.
THEOREM TablesImplementLog == Spec => ImplementsCommandLog
<1>1. Init => Log!Init
  BY InitIsLogInit
<1>2. IInv /\ IInv' /\ [Next]_vars => [Log!Next]_(Log!logVars)
  BY StepIsLogStep
<1> QED
  BY <1>1, <1>2, Invariance, PTL DEF Spec, ImplementsCommandLog, Log!Spec
=============================================================================
