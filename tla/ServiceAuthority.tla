-------------------------- MODULE ServiceAuthority --------------------------
(***************************************************************************)
(* The transactional command authority of                                  *)
(* packages/persistence/src/service-authority.ts: queries and commands of  *)
(* concurrent requests against the rows of guests and players, each in one *)
(* READ COMMITTED transaction of PostgreSQL, while sessions rotate, expire *)
(* and are deleted beside them and processes crash.                        *)
(*                                                                         *)
(* A transaction first resolves the presented secret without a lock, then  *)
(* locks the subject's parent row (guest_sessions or players) and keeps    *)
(* that lock to its end, so the advisory and progress locks it takes later *)
(* are free when it asks for them and are left out.  Its writes are seen   *)
(* by nobody before COMMIT.                                                *)
(*                                                                         *)
(* What the reducer decides (EveningService) is any of its three outcomes. *)
(* The claim of a guest into a player is left out here: to the guest it is *)
(* a removal.                                                              *)
(***************************************************************************)
EXTENDS Integers, Sequences, FiniteSets

CONSTANTS
    Guests,       \* guest sessions
    Players,      \* player accounts, each with one session
    Txs,          \* requests being served at the same time
    Keys,         \* idempotency keys
    Bodies,       \* command name, content version and payload, up to their hash
    None,         \* no row, no holder, no match
    MaxRevision,  \* Number.MAX_SAFE_INTEGER
    MaxSecret     \* bound: rotations of a subject's secret

Subjects == Guests \cup Players

ASSUME ConstantsAssumption ==
    /\ Guests \cap Players = {}
    /\ MaxRevision \in Nat \ {0}
    /\ MaxSecret \in Nat
    /\ None \notin Keys \cup Txs

VARIABLES
    session,    \* the session row of each subject and its digests
    progress,   \* revision of the subject's progress row
    receipts,   \* command_receipts of the subject
    events,     \* domain_events of the subject: key and committed revision
    outbox,     \* events of the subject that have an outbox row
    holder,     \* the transaction that holds the subject's parent row
    tx,         \* the transactions
    replied     \* history: the receipts the subject's clients were answered with

database == <<session, progress, receipts, events, outbox>>
vars == <<session, progress, receipts, events, outbox, holder, tx, replied>>

-----------------------------------------------------------------------------
(* Sessions *)

Standings == {"absent", "active", "pending-delivery", "revoked", "removed"}

(***************************************************************************)
(* The subject's secrets are numbered: "secret" is the current one, the    *)
(* one before is the predecessor, and graceOpen says that PostgreSQL time  *)
(* is still before its valid_until.                                        *)
(***************************************************************************)
Session == [standing  : Standings,
            secret    : 0 .. MaxSecret,
            graceOpen : BOOLEAN,
            due       : BOOLEAN,    \* rotate_after has passed
            expired   : BOOLEAN]    \* expires_at has passed

NoSession(standing) == [standing |-> standing, secret |-> 0, graceOpen |-> FALSE,
                        due |-> FALSE, expired |-> FALSE]

Live(s) == session[s].standing \in {"active", "pending-delivery", "revoked"}

\* The slot in which a secret is stored; a revoked session has no digests.
Slot(s, secret) ==
    IF session[s].standing \notin {"active", "pending-delivery"} THEN None
    ELSE IF secret = session[s].secret THEN "current"
    ELSE IF secret = session[s].secret - 1 THEN "predecessor"
    ELSE None

-----------------------------------------------------------------------------
(* Transactions *)

Receipt == [key       : Keys,
            body      : Bodies,
            expected  : 0 .. MaxRevision,
            committed : 0 .. MaxRevision,
            advanced  : BOOLEAN,
            expired   : BOOLEAN]

\* committed_revision > 0 is a CHECK of the schema.
Event == [key : Keys, committed : 1 .. MaxRevision]

Queries  == [kind : {"query"}, secret : 0 .. MaxSecret]
Commands == [kind : {"execute"}, secret : 0 .. MaxSecret,
             key : Keys, body : Bodies, expected : 0 .. MaxRevision]
Requests == Queries \cup Commands

Stages  == {"idle", "match", "lock", "receipt", "decide", "commit", "answer"}
Answers == {"queried", "committed", "replayed", "conflict", "mismatch",
            "receipt-expired", "thrown", "unauthenticated", "rotation-required"}

Idle == [stage |-> "idle"]

ReceiptOf(s, key) == {r \in receipts[s] : r.key = key}

\* The receipt without its lifetime: what the client is told.
Reply == [key : Keys, body : Bodies, expected : 0 .. MaxRevision,
          committed : 0 .. MaxRevision, advanced : BOOLEAN]

Told(r) == [key |-> r.key, body |-> r.body, expected |-> r.expected,
            committed |-> r.committed, advanced |-> r.advanced]

ASSUME NoneAssumption == None \notin Reply

(***************************************************************************)
(* A request arrives.  expectedRevision = MAX_SAFE_INTEGER is a conflict   *)
(* before any transaction begins.                                          *)
(***************************************************************************)
Begin(t, s, request) ==
    /\ tx[t] = Idle
    /\ tx' = [tx EXCEPT ![t] =
           [stage   |-> IF request.kind = "execute" /\ request.expected = MaxRevision
                        THEN "answer" ELSE "match",
            subject |-> s,
            request |-> request,
            slot    |-> None,
            answer  |-> "conflict",
            write   |-> None]]
    /\ UNCHANGED <<database, holder, replied>>

\* The transaction is over, committed or rolled back, and its lock released.
Ends(t, answer) ==
    /\ tx' = [tx EXCEPT ![t].stage = "answer", ![t].answer = answer]
    /\ holder' = [s \in Subjects |-> IF holder[s] = t THEN None ELSE holder[s]]

\* findResumeMatchUnlocked, and the unlocked join of the player's digests.
Match(t) ==
    LET slot == Slot(tx[t].subject, tx[t].request.secret) IN
    /\ tx[t].stage = "match"
    /\ IF slot = None
       THEN Ends(t, "unauthenticated")
       ELSE /\ tx' = [tx EXCEPT ![t].stage = "lock", ![t].slot = slot]
            /\ UNCHANGED holder
    /\ UNCHANGED <<database, replied>>

(***************************************************************************)
(* Validation under the lock.  A guest's secret must still be in the slot  *)
(* in which the unlocked match found it; a player's is matched again in    *)
(* any slot, and only an acknowledged session serves.                      *)
(***************************************************************************)
GuestAuthentic(t) ==
    LET s == tx[t].subject IN
    /\ Slot(s, tx[t].request.secret) = tx[t].slot
    /\ ~session[s].expired
    /\ tx[t].slot = "predecessor" => session[s].graceOpen

\* Mutant: a session whose delivery is not acknowledged serves.
PlayerUndelivered(t) ==
    LET s == tx[t].subject IN
    /\ ~session[s].expired
    /\ Slot(s, tx[t].request.secret) # None
    /\ Slot(s, tx[t].request.secret) = "predecessor" => session[s].graceOpen

PlayerAuthentic(t) ==
    LET s == tx[t].subject
        slot == Slot(s, tx[t].request.secret)
    IN
    /\ session[s].standing = "active"
    /\ ~session[s].expired
    /\ slot # None
    /\ slot = "predecessor" => session[s].graceOpen

Authentic(t) == IF tx[t].subject \in Guests THEN GuestAuthentic(t) ELSE PlayerAuthentic(t)

RotationRequired(t) == tx[t].subject \in Guests /\ session[tx[t].subject].due

Valid(t) == Authentic(t) /\ ~RotationRequired(t)

Refuse(t) ==
    /\ ~Valid(t)
    /\ Ends(t, IF Authentic(t) THEN "rotation-required" ELSE "unauthenticated")
    /\ UNCHANGED <<database, replied>>

\* Mutant: the parent row is read without waiting for its lock.
LockImpatiently(t) ==
    /\ tx[t].stage = "lock"
    /\ \/ Refuse(t)
       \/ /\ Valid(t)
          /\ tx' = [tx EXCEPT ![t].stage = "receipt"]
          /\ holder' = [holder EXCEPT ![tx[t].subject] = t]
          /\ UNCHANGED <<database, replied>>

\* The parent row, then the stored digests, read again and validated.
Lock(t) ==
    /\ tx[t].stage = "lock"
    /\ holder[tx[t].subject] = None
    /\ \/ Refuse(t)
       \/ /\ Valid(t)
          /\ tx' = [tx EXCEPT ![t].stage = "receipt"]
          /\ holder' = [holder EXCEPT ![tx[t].subject] = t]
          /\ UNCHANGED <<database, replied>>

\* query: the progress row under its lock, validated once more.
Query(t) ==
    /\ tx[t].stage = "receipt"
    /\ tx[t].request.kind = "query"
    /\ \/ Refuse(t)
       \/ /\ Valid(t)
          /\ Ends(t, "queried")
          /\ UNCHANGED <<database, replied>>

\* Mutant: stored receipts are not looked for.
ReplayForgetting(t) ==
    /\ tx[t].stage = "receipt"
    /\ tx[t].request.kind = "execute"
    /\ Valid(t)
    /\ tx' = [tx EXCEPT ![t].stage = "decide"]
    /\ UNCHANGED <<database, holder, replied>>

\* A stored receipt answers for its key, or refuses to.
Replay(t) ==
    LET s == tx[t].subject
        request == tx[t].request
    IN
    /\ tx[t].stage = "receipt"
    /\ request.kind = "execute"
    /\ \/ Refuse(t)
       \/ /\ Valid(t)
          /\ \E r \in ReceiptOf(s, request.key) :
                 LET matches == r.body = request.body /\ r.expected = request.expected IN
                 /\ Ends(t, IF ~matches THEN "mismatch"
                            ELSE IF r.expired THEN "receipt-expired"
                            ELSE "replayed")
                 /\ replied' = IF matches /\ ~r.expired
                               THEN [replied EXCEPT ![s] = @ \cup {Told(r)}]
                               ELSE replied
          /\ UNCHANGED database
       \/ /\ Valid(t)
          /\ ReceiptOf(s, request.key) = {}
          /\ tx' = [tx EXCEPT ![t].stage = "decide"]
          /\ UNCHANGED <<database, holder, replied>>

(***************************************************************************)
(* The progress row is compared with the expected revision and reduced.    *)
(* An accepted command writes the checkpoint, one event, one outbox row    *)
(* and the receipt; a corrected one only the receipt.  The third           *)
(* validation stands before the writes.                                    *)
(***************************************************************************)
Decide(t) ==
    LET s == tx[t].subject
        request == tx[t].request
    IN
    /\ tx[t].stage = "decide"
    /\ \/ /\ progress[s] # request.expected
          /\ Ends(t, "conflict")
       \/ /\ progress[s] = request.expected
          /\ Ends(t, "thrown")
       \/ /\ progress[s] = request.expected
          /\ ~Valid(t)
          /\ Ends(t, IF Authentic(t) THEN "rotation-required" ELSE "unauthenticated")
       \/ /\ progress[s] = request.expected
          /\ Valid(t)
          /\ \E advanced \in BOOLEAN :
                 tx' = [tx EXCEPT ![t].stage = "commit",
                     ![t].write = [key       |-> request.key,
                                   body      |-> request.body,
                                   expected  |-> request.expected,
                                   committed |-> IF advanced THEN request.expected + 1
                                                             ELSE request.expected,
                                   advanced  |-> advanced,
                                   expired   |-> FALSE]]
          /\ UNCHANGED holder
    /\ UNCHANGED <<database, replied>>

\* Mutant: a correction writes an event too.
CommitEvent(t) ==
    LET s == tx[t].subject
        w == tx[t].write
    IN
    /\ tx[t].stage = "commit"
    /\ receipts' = [receipts EXCEPT ![s] = @ \cup {w}]
    /\ progress' = [progress EXCEPT ![s] = w.committed]
    /\ events' = [events EXCEPT ![s] = @ \cup {[key |-> w.key, committed |-> w.committed]}]
    /\ outbox' = [outbox EXCEPT ![s] = @ \cup {w.key}]
    /\ replied' = [replied EXCEPT ![s] = @ \cup {Told(w)}]
    /\ Ends(t, "committed")
    /\ UNCHANGED session

Commit(t) ==
    LET s == tx[t].subject
        w == tx[t].write
    IN
    /\ tx[t].stage = "commit"
    /\ receipts' = [receipts EXCEPT ![s] = @ \cup {w}]
    /\ IF w.advanced
       THEN /\ progress' = [progress EXCEPT ![s] = w.committed]
            /\ events' = [events EXCEPT ![s] = @ \cup
                              {[key |-> w.key, committed |-> w.committed]}]
            /\ outbox' = [outbox EXCEPT ![s] = @ \cup {w.key}]
       ELSE UNCHANGED <<progress, events, outbox>>
    /\ replied' = [replied EXCEPT ![s] = @ \cup {Told(w)}]
    /\ Ends(t, "committed")
    /\ UNCHANGED session

\* The answer reaches the client, or is lost on its way.
Respond(t) ==
    /\ tx[t].stage = "answer"
    /\ tx' = [tx EXCEPT ![t] = Idle]
    /\ UNCHANGED <<database, holder, replied>>

\* Mutant: a dead transaction keeps its lock.
CrashLocked(t) ==
    /\ tx[t].stage \notin {"idle", "answer"}
    /\ tx' = [tx EXCEPT ![t] = Idle]
    /\ UNCHANGED <<database, holder, replied>>

\* The process or its connection dies: PostgreSQL rolls back and unlocks.
Crash(t) ==
    /\ tx[t].stage \notin {"idle", "answer"}
    /\ tx' = [tx EXCEPT ![t] = Idle]
    /\ holder' = [s \in Subjects |-> IF holder[s] = t THEN None ELSE holder[s]]
    /\ UNCHANGED <<database, replied>>

-----------------------------------------------------------------------------
(* Sessions change beside the commands, in transactions of their own that  *)
(* take the same parent lock; the clock runs whoever holds it.             *)

ChangeSession(s, new) ==
    /\ holder[s] = None
    /\ session' = [session EXCEPT ![s] = new]
    /\ UNCHANGED <<progress, receipts, events, outbox, holder, tx, replied>>

Issue(s) ==
    /\ session[s].standing = "absent"
    /\ ChangeSession(s, [session[s] EXCEPT !.standing = "active"])

\* A live predecessor defers rotation; a rotated player session serves again
\* only when its delivery is acknowledged.
Rotate(s) ==
    /\ session[s].standing = "active"
    /\ ~session[s].expired
    /\ ~session[s].graceOpen
    /\ session[s].secret < MaxSecret
    /\ ChangeSession(s,
           [standing  |-> IF s \in Guests THEN "active" ELSE "pending-delivery",
            secret    |-> session[s].secret + 1,
            graceOpen |-> TRUE,
            due       |-> FALSE,
            expired   |-> session[s].expired])

Acknowledge(p) ==
    /\ session[p].standing = "pending-delivery"
    /\ ~session[p].expired
    /\ ChangeSession(p, [session[p] EXCEPT !.standing = "active"])

Logout(p) ==
    /\ session[p].standing \in {"active", "pending-delivery"}
    /\ ~session[p].expired
    /\ ChangeSession(p, [session[p] EXCEPT !.standing = "revoked"])

\* Deletion by the owner or by cleanup, cascading to every row of the subject.
Remove(s) ==
    /\ Live(s)
    /\ holder[s] = None
    /\ session' = [session EXCEPT ![s] = NoSession("removed")]
    /\ progress' = [progress EXCEPT ![s] = 0]
    /\ receipts' = [receipts EXCEPT ![s] = {}]
    /\ events' = [events EXCEPT ![s] = {}]
    /\ outbox' = [outbox EXCEPT ![s] = {}]
    /\ replied' = [replied EXCEPT ![s] = {}]
    /\ UNCHANGED <<holder, tx>>

\* rotate_after lies seven days after a rotation, its grace sixty seconds.
Pass(s) ==
    /\ Live(s)
    /\ \/ /\ session[s].graceOpen
          /\ session' = [session EXCEPT ![s].graceOpen = FALSE]
       \/ /\ s \in Guests /\ ~session[s].graceOpen /\ ~session[s].due
          /\ session' = [session EXCEPT ![s].due = TRUE]
       \/ /\ ~session[s].expired
          /\ session' = [session EXCEPT ![s].expired = TRUE]
    /\ UNCHANGED <<progress, receipts, events, outbox, holder, tx, replied>>

\* A receipt answers for thirty days; its row stays as long as its subject.
ExpireReceipt(s) ==
    /\ \E r \in receipts[s] :
           /\ ~r.expired
           /\ receipts' = [receipts EXCEPT ![s] =
                               (@ \ {r}) \cup {[r EXCEPT !.expired = TRUE]}]
    /\ UNCHANGED <<session, progress, events, outbox, holder, tx, replied>>

-----------------------------------------------------------------------------
(* Behaviour *)

Init ==
    /\ session  = [s \in Subjects |-> NoSession("absent")]
    /\ progress = [s \in Subjects |-> 0]
    /\ receipts = [s \in Subjects |-> {}]
    /\ events   = [s \in Subjects |-> {}]
    /\ outbox   = [s \in Subjects |-> {}]
    /\ holder   = [s \in Subjects |-> None]
    /\ tx       = [t \in Txs |-> Idle]
    /\ replied  = [s \in Subjects |-> {}]

Serve(t) ==
    \/ Match(t) \/ Lock(t) \/ Query(t) \/ Replay(t)
    \/ Decide(t) \/ Commit(t) \/ Respond(t)

Next ==
    \/ \E t \in Txs, s \in Subjects, request \in Requests : Begin(t, s, request)
    \/ \E t \in Txs : Serve(t) \/ Crash(t)
    \/ \E s \in Subjects : Issue(s) \/ Rotate(s) \/ Remove(s) \/ Pass(s) \/ ExpireReceipt(s)
    \/ \E p \in Players : Acknowledge(p) \/ Logout(p)

Spec == Init /\ [][Next]_vars

(***************************************************************************)
(* A request that has begun is served: the process and PostgreSQL go on.   *)
(* The wait for the parent row is strong, for PostgreSQL queues the        *)
(* waiters of a row lock.                                                  *)
(***************************************************************************)
Fairness ==
    \A t \in Txs :
        /\ WF_vars(Match(t))
        /\ SF_vars(Lock(t))
        /\ WF_vars(Query(t) \/ Replay(t))
        /\ WF_vars(Decide(t))
        /\ WF_vars(Commit(t))
        /\ WF_vars(Respond(t))

FairSpec == Spec /\ Fairness

-----------------------------------------------------------------------------
(* Properties *)

Transaction == [stage   : Stages \ {"idle"},
                subject : Subjects,
                request : Requests,
                slot    : {None, "current", "predecessor"},
                answer  : Answers,
                write   : Receipt \cup {None}]

\* The shape of every row and every transaction.
TypeOK ==
    /\ session  \in [Subjects -> Session]
    /\ progress \in [Subjects -> 0 .. MaxRevision]
    /\ receipts \in [Subjects -> SUBSET Receipt]
    /\ events   \in [Subjects -> SUBSET Event]
    /\ outbox   \in [Subjects -> SUBSET Keys]
    /\ holder   \in [Subjects -> Txs \cup {None}]
    /\ tx       \in [Txs -> Transaction \cup {Idle}]
    /\ replied  \in [Subjects -> SUBSET Reply]

(***************************************************************************)
(* A subject's four tables tell one story, between any two transactions:   *)
(* the revision counts the events, which carry the revisions 1 to it, one  *)
(* each; each event has its outbox row and the receipt that caused it, and *)
(* a receipt that advanced nothing has no event.                           *)
(***************************************************************************)
LedgerExact ==
    \A s \in Subjects :
        /\ {e.committed : e \in events[s]} = 1 .. progress[s]
        /\ \A e1, e2 \in events[s] :
               e1.committed = e2.committed \/ e1.key = e2.key => e1 = e2
        /\ outbox[s] = {e.key : e \in events[s]}
        /\ events[s] = {[key |-> r.key, committed |-> r.committed] :
                            r \in {x \in receipts[s] : x.advanced}}
        /\ \A r1, r2 \in receipts[s] : r1.key = r2.key => r1 = r2
        /\ \A r \in receipts[s] :
               r.committed = IF r.advanced THEN r.expected + 1 ELSE r.expected

(***************************************************************************)
(* The parent lock of a subject is held by one transaction, exactly while  *)
(* that one is between its validation and its end: nothing leaks a lock,   *)
(* and what was decided is still true of the rows when it is committed.    *)
(***************************************************************************)
Holding == {"receipt", "decide", "commit"}

LockDiscipline ==
    /\ \A t \in Txs : tx[t].stage \in Holding => holder[tx[t].subject] = t
    /\ \A s \in Subjects : holder[s] # None =>
           /\ tx[holder[s]].stage \in Holding
           /\ tx[holder[s]].subject = s

DecisionStands ==
    \A t \in Txs :
        LET s == tx[t].subject
            w == tx[t].write
        IN  tx[t].stage = "commit" =>
                /\ ReceiptOf(s, w.key) = {}
                /\ w.expected = progress[s]

(***************************************************************************)
(* Whoever learns or changes anything of a subject holds one of its        *)
(* secrets at that moment: no answer is given to, and no command committed *)
(* for, a secret that was rotated out, logged out or deleted since the     *)
(* request began.                                                          *)
(***************************************************************************)
AnsweredUnderAuthority ==
    [][\A t \in Txs :
           /\ tx[t].stage # "idle" /\ tx[t].stage # "answer"
           /\ tx'[t].stage = "answer"
           /\ tx'[t].answer \in {"queried", "committed", "replayed"}
           => LET s == tx[t].subject IN
              /\ session[s].standing = "active"
              /\ Slot(s, tx[t].request.secret) # None
              /\ s \in Guests => Slot(s, tx[t].request.secret) = tx[t].slot]_vars

\* Every request that begins is answered, or dies with its process: no wait
\* for a parent row lasts forever.
EveryRequestEnds ==
    \A t \in Txs : tx[t].stage # "idle" ~> tx[t].stage = "idle"

(***************************************************************************)
(* The tables implement the log of effects: the event of each revision     *)
(* names the effect, and the receipt row of a key what is answered for it. *)
(***************************************************************************)
LogStanding == [s \in Subjects |-> IF Live(s) THEN "live" ELSE session[s].standing]

LogEffects == [s \in Subjects |->
                  [n \in 1 .. progress[s] |->
                      (CHOOSE e \in events[s] : e.committed = n).key]]

LogReceipts == [s \in Subjects |->
                   [k \in Keys |->
                       IF ReceiptOf(s, k) = {} THEN None
                       ELSE Told(CHOOSE r \in receipts[s] : r.key = k)]]

Log == INSTANCE CommandLog WITH
    standing <- LogStanding,
    effects  <- LogEffects,
    receipts <- LogReceipts

ImplementsCommandLog == Log!Spec
=============================================================================
