---------------------------- MODULE GuestRecovery ----------------------------
(***************************************************************************)
(* The credentials of one guest, from its issue to its end: the resume     *)
(* secret and the claim capability of packages/persistence/src/guest-      *)
(* sessions.ts, and the portable saves of portable-recovery.ts, whose      *)
(* import gives the guest a new secret, over the tables of migrations      *)
(* 0001 to 0003.                                                           *)
(*                                                                         *)
(* A secret is a lineage and a position: a rotation derives the next       *)
(* position from the current secret, so that a retry derives the same, and *)
(* an import draws a new lineage.  What a call reads before it locks the   *)
(* guest it reads again under the lock, so that each call is one action.   *)
(* Browsers, the answers on their way to them, saved files, time, keys and *)
(* the retention jobs are interleaved.                                     *)
(***************************************************************************)
EXTENDS Naturals, FiniteSets

CONSTANTS
    Browsers,
    ExportIds,
    ImportIds,        \* each is one attempt to import, and its retries
    NoSecret,
    MaxLineages,      \* bound: secrets that are drawn
    MaxPosition,      \* bound: rotations of a lineage
    MaxRevision,      \* bound: revisions of the guest's progress
    MaxAnswers        \* bound: answers on their way

ASSUME GuestRecoveryAssumption ==
    /\ NoSecret \notin Nat \X Nat
    /\ MaxLineages \in Nat \ {0} /\ MaxPosition \in Nat /\ MaxRevision \in Nat /\ MaxAnswers \in Nat

VARIABLES
    guest,       \* guest_sessions and guest_progress
    current,     \* guest_resume_digests, slot current
    predecessor, \* guest_resume_digests, slot predecessor, with its grace
    capability,  \* guest_claim_capabilities: one is stored
    drawn,       \* how many lineages were drawn
    known,       \* history: resume secrets that were stored
    exports,     \* save_exports: the revision that was exported
    receipts,    \* recovery_imports
    spent,       \* tombstones of import ids
    over,        \* exports past their expiry
    unsound,     \* exports signed with a key that verifies no more
    cookies,     \* the guest cookie of each browser
    claimants,   \* browsers whose claim cookie is the capability that is stored
    answers,     \* answers on their way
    acted        \* history: lineages of a delivery that somebody did something with

credentials == <<current, predecessor, capability, drawn, known>>
saves == <<exports, receipts, spent, over, unsound>>
browsers == <<cookies, claimants>>
vars == <<guest, credentials, saves, browsers, answers, acted>>

Lineages == 1 .. MaxLineages
Secrets == Lineages \X (0 .. MaxPosition)
Revisions == 0 .. MaxRevision

Guest == [state : {"none", "live", "gone"}, revision : Revisions, due : BOOLEAN, expired : BOOLEAN]
\* parsePortableSaveEnvelope: of what it validates only the revision of the guest
\* is told apart; the rest of the file is the same as its row, or it is refused.
Envelope == [revision : Revisions]
NoPredecessor == [secret |-> NoSecret, grace |-> FALSE]
NoExport == [state |-> "none"]
NoReceipt == [state |-> "none"]
Receipt == [export : ExportIds, revision : Revisions, issued : Secrets]
\* claim: with the capability that is stored
Answer == [to : Browsers, guest : Secrets \cup {NoSecret}, claim : BOOLEAN]

\* deriveRotationSecret
Derived(secret) == <<secret[1], secret[2] + 1>>
CanDerive == current[2] < MaxPosition

ReceiptsOf(e) == {i \in ImportIds : receipts[i] # NoReceipt /\ receipts[i].export = e}

Alive == guest.state = "live" /\ ~guest.expired

Tell(b, secret, claim) ==
    /\ Cardinality(answers) < MaxAnswers
    /\ answers' = answers \cup {[to |-> b, guest |-> secret, claim |-> claim]}

-----------------------------------------------------------------------------
(* Credentials. *)

\* resume, rotate, authenticateForUpdate
Resumes(secret) ==
    /\ Alive
    /\ \/ secret = current
       \/ secret = predecessor.secret /\ predecessor.grace

\* delete, rotateClaimCapability, authenticateGuest: any digest that is stored.
Stored(secret) == Alive /\ secret \in {current, predecessor.secret} \ {NoSecret}

\* issueFreshClaimCapability, which replaces the one before
FreshCapability ==
    /\ capability' = TRUE
    /\ claimants' = {}

\* issue
Issue(b) ==
    /\ guest.state = "none"
    /\ cookies[b] = NoSecret
    /\ guest' = [guest EXCEPT !.state = "live"]
    /\ drawn' = 1
    /\ known' = {<<1, 0>>}
    /\ current' = <<1, 0>>
    /\ FreshCapability
    /\ Tell(b, <<1, 0>>, TRUE)
    /\ UNCHANGED <<predecessor, saves, cookies, acted>>

\* The repository's rotate, which removes a predecessor whose grace is over.
RotateTo(secret) ==
    /\ predecessor' = [secret |-> current, grace |-> TRUE]
    /\ current' = secret
    /\ known' = known \cup {secret}
    /\ guest' = [guest EXCEPT !.due = FALSE]
    /\ acted' = acted \cup {current[1]}

\* resume of a current secret that is due; any other resume writes only when
\* the guest was seen.
Resume(b) ==
    /\ Alive
    /\ cookies[b] = current
    /\ guest.due
    /\ ~predecessor.grace
    /\ CanDerive
    /\ RotateTo(Derived(current))
    /\ Tell(b, Derived(current), FALSE)
    /\ UNCHANGED <<capability, drawn, saves, browsers>>

\* rotate of the current secret, due or not
Rotate(b) ==
    /\ Alive
    /\ cookies[b] = current
    /\ ~predecessor.grace
    /\ CanDerive
    /\ RotateTo(Derived(current))
    /\ Tell(b, Derived(current), FALSE)
    /\ UNCHANGED <<capability, drawn, saves, browsers>>

\* rotate of the predecessor, which derives and writes nothing else
RotateAgain(b) ==
    LET secret == cookies[b] IN
    /\ Alive
    /\ secret = predecessor.secret /\ predecessor.grace
    /\ Tell(b, Derived(secret), FALSE)
    /\ UNCHANGED <<guest, credentials, saves, browsers, acted>>

\* What was told of the capability is of no use any more.
Superseded == {[a EXCEPT !.claim = FALSE] : a \in {x \in answers : x.guest # NoSecret}}

\* rotateClaimCapability
RotateClaimCapability(b) ==
    /\ Stored(cookies[b])
    /\ Cardinality(Superseded) < MaxAnswers
    /\ FreshCapability
    /\ answers' = Superseded \cup {[to |-> b, guest |-> NoSecret, claim |-> TRUE]}
    /\ UNCHANGED <<guest, current, predecessor, drawn, known, saves, cookies, acted>>

\* A service command, admitted with a current secret that is not due or with
\* the predecessor; see ServiceAuthority.
Play(b) ==
    /\ Resumes(cookies[b])
    /\ cookies[b] = current => ~guest.due
    /\ guest.revision < MaxRevision
    /\ guest' = [guest EXCEPT !.revision = @ + 1]
    /\ acted' = acted \cup {cookies[b][1]}
    /\ UNCHANGED <<credentials, saves, browsers, answers>>

-----------------------------------------------------------------------------
(* The end of a guest: its rows go, with their cascades. *)

\* insertTombstone of import ids, with the exports they took
Spend(pairs) == spent' = spent \cup pairs

\* Mutant: the digests of a guest outlive it.
GoneKeepingDigests ==
    /\ guest' = [guest EXCEPT !.state = "gone"]
    /\ capability' = FALSE
    /\ claimants' = {}
    /\ answers' = Superseded
    /\ exports' = [e \in ExportIds |-> NoExport]
    /\ receipts' = [i \in ImportIds |-> NoReceipt]
    /\ UNCHANGED <<current, predecessor, drawn, known, spent, over, unsound, cookies, acted>>

Gone ==
    /\ guest' = [guest EXCEPT !.state = "gone"]
    /\ current' = NoSecret
    /\ predecessor' = NoPredecessor
    /\ capability' = FALSE
    /\ claimants' = {}
    /\ answers' = Superseded
    /\ exports' = [e \in ExportIds |-> NoExport]
    /\ Spend({p \in ImportIds \X ExportIds : p[1] \in ReceiptsOf(p[2])})
    /\ receipts' = [i \in ImportIds |-> NoReceipt]
    /\ UNCHANGED <<drawn, known, over, unsound, cookies, acted>>

\* delete; the answer, or that of the retry which finds the tombstone of the
\* same secret, clears the cookies as ResetCookies does.
Delete(b) ==
    /\ Stored(cookies[b])
    /\ Gone

\* claimGuest takes the secret and the capability; see PlayerAccounts.
Claimed(b) ==
    /\ Stored(cookies[b])
    /\ b \in claimants
    /\ Gone

\* deleteExpired of guests
DeleteExpiredGuest ==
    /\ guest.state = "live" /\ guest.expired
    /\ Gone

\* deleteExpired of guests removes the predecessors of all.
DeleteExpiredPredecessor ==
    /\ predecessor # NoPredecessor /\ ~predecessor.grace
    /\ predecessor' = NoPredecessor
    /\ UNCHANGED <<guest, current, capability, drawn, known, saves, browsers, answers, acted>>

\* purgeUnavailableClaimCapabilities, of a capability whose key is compromised
PurgeClaimCapability ==
    /\ capability
    /\ capability' = FALSE
    /\ claimants' = {}
    /\ answers' = Superseded
    /\ UNCHANGED <<guest, current, predecessor, drawn, known, saves, cookies, acted>>

-----------------------------------------------------------------------------
(* Portable saves. *)

\* The file of an export is good: its key verifies, and its time is not over.
Verifies(e) == e \notin over \cup unsound

\* assertStoredEnvelope: the file is the one that was exported.
StoredEnvelope(e) == exports[e] # NoExport /\ Verifies(e)

\* assertCurrentContent: nothing was played since.
CurrentContent(e) == exports[e].revision = guest.revision

\* assertReplayAvailable; a tombstone goes after its export.
Unspent(i) == \A e \in ExportIds \ over : <<i, e>> \notin spent

\* createExport; the file is in the hands of any browser from then on.
CreateExport(b, e) ==
    /\ Resumes(cookies[b])
    /\ exports[e] = NoExport /\ Verifies(e)
    /\ ReceiptsOf(e) = {} /\ \A i \in ImportIds : <<i, e>> \notin spent
    /\ exports' = [exports EXCEPT ![e] = [revision |-> guest.revision]]
    /\ acted' = acted \cup {cookies[b][1]}
    /\ UNCHANGED <<guest, credentials, receipts, spent, over, unsound, browsers, answers>>

\* Mutant: only the current digest is replaced.
RedrawKeepingPredecessor(b) ==
    /\ drawn < MaxLineages
    /\ current' = <<drawn + 1, 0>>
    /\ drawn' = drawn + 1
    /\ known' = known \cup {current'}
    /\ guest' = [guest EXCEPT !.due = FALSE]
    /\ Tell(b, <<drawn + 1, 0>>, FALSE)
    /\ UNCHANGED <<predecessor, capability, over, unsound, browsers>>

\* insertCurrentDigest of a fresh secret, touchRecoveredSession
Redraw(b) ==
    /\ drawn < MaxLineages
    /\ current' = <<drawn + 1, 0>>
    /\ drawn' = drawn + 1
    /\ known' = known \cup {current'}
    /\ predecessor' = NoPredecessor
    /\ guest' = [guest EXCEPT !.due = FALSE]
    /\ Tell(b, <<drawn + 1, 0>>, FALSE)
    /\ UNCHANGED <<capability, over, unsound, browsers>>

CanImport(i, e) ==
    /\ Alive
    /\ StoredEnvelope(e)
    /\ CurrentContent(e)
    /\ receipts[i] = NoReceipt
    /\ Unspent(i)

\* Mutant: the other exports of the guest stay.
ImportKeepingSiblings(b, i, e) ==
    /\ CanImport(i, e)
    /\ Redraw(b)
    /\ exports' = [exports EXCEPT ![e] = NoExport]
    /\ receipts' = [receipts EXCEPT ![i] =
           [export |-> e, revision |-> guest.revision, issued |-> current']]
    /\ Spend({<<i, e>>})
    /\ UNCHANGED acted

\* import: every export of the guest is consumed with the one that is named.
Import(b, i, e) ==
    /\ CanImport(i, e)
    /\ Redraw(b)
    /\ exports' = [x \in ExportIds |-> NoExport]
    /\ receipts' = [receipts EXCEPT ![i] =
           [export |-> e, revision |-> guest.revision, issued |-> current']]
    /\ Spend({<<i, e>>})
    /\ UNCHANGED acted

\* The secret that this import issued is the only one, and nothing has been
\* done with it.
CanReplay(i) ==
    /\ Alive
    /\ receipts[i] # NoReceipt
    /\ Verifies(receipts[i].export)
    /\ receipts[i].revision = guest.revision
    /\ predecessor = NoPredecessor
    /\ current = receipts[i].issued

\* Mutant: the credential of the receipt is told again, whatever is stored now.
ReplayStored(b, i) ==
    /\ Alive
    /\ receipts[i] # NoReceipt
    /\ Verifies(receipts[i].export)
    /\ receipts[i].revision = guest.revision
    /\ current' = receipts[i].issued
    /\ predecessor' = NoPredecessor
    /\ Tell(b, receipts[i].issued, FALSE)
    /\ UNCHANGED <<guest, capability, drawn, known, saves, browsers, acted>>

\* replayImport: the same import id with the same file
ReplayImport(b, i) ==
    /\ CanReplay(i)
    /\ Redraw(b)
    /\ receipts' = [receipts EXCEPT ![i].issued = current']
    /\ acted' = IF current[1] \in acted THEN acted \cup {current'[1]} ELSE acted
    /\ UNCHANGED <<exports, spent>>

\* deleteExpired of exports; receipts and tombstones stay for a day, in which
\* they only refuse.
DeleteExpiredExports ==
    /\ \E e \in over : exports[e] # NoExport
    /\ exports' = [e \in ExportIds |-> IF e \in over THEN NoExport ELSE exports[e]]
    /\ UNCHANGED <<guest, credentials, receipts, spent, over, unsound, browsers, answers, acted>>

DeleteExpiredReceipts ==
    LET due == UNION {ReceiptsOf(e) : e \in over} IN
    /\ due # {}
    /\ receipts' = [i \in ImportIds |-> IF i \in due THEN NoReceipt ELSE receipts[i]]
    /\ UNCHANGED <<guest, credentials, exports, spent, over, unsound, browsers, answers, acted>>

\* purgeUnavailableIntegrityReferences
PurgeIntegrityReferences ==
    LET due == UNION {ReceiptsOf(e) : e \in unsound} IN
    /\ due # {} \/ \E e \in unsound : exports[e] # NoExport
    /\ exports' = [e \in ExportIds |-> IF e \in unsound THEN NoExport ELSE exports[e]]
    /\ receipts' = [i \in ImportIds |-> IF i \in due THEN NoReceipt ELSE receipts[i]]
    /\ Spend({<<i, receipts[i].export>> : i \in due})
    /\ UNCHANGED <<guest, credentials, over, unsound, browsers, answers, acted>>

-----------------------------------------------------------------------------
(* Time, keys, answers and browsers. *)

\* Sixty seconds after a rotation.
GraceEnds ==
    /\ predecessor.grace
    /\ predecessor' = [predecessor EXCEPT !.grace = FALSE]
    /\ UNCHANGED <<guest, current, capability, drawn, known, saves, browsers, answers, acted>>

\* Seven days after a rotation, or a new version of the digest key.
BecomesDue ==
    /\ Alive /\ ~guest.due
    /\ guest' = [guest EXCEPT !.due = TRUE]
    /\ UNCHANGED <<credentials, saves, browsers, answers, acted>>

\* Thirty days after its issue; whatever expires then is over before.
GuestExpires ==
    /\ Alive
    /\ guest' = [guest EXCEPT !.expired = TRUE]
    /\ UNCHANGED <<credentials, saves, browsers, answers, acted>>

ExportExpires(e) ==
    /\ e \notin over
    /\ exports[e] # NoExport \/ ReceiptsOf(e) # {}
    /\ over' = over \cup {e}
    /\ UNCHANGED <<guest, credentials, exports, receipts, spent, unsound, browsers, answers, acted>>

IntegrityKeyLost(e) ==
    /\ e \notin unsound
    /\ exports[e] # NoExport \/ ReceiptsOf(e) # {}
    /\ unsound' = unsound \cup {e}
    /\ UNCHANGED <<guest, credentials, exports, receipts, spent, over, browsers, answers, acted>>

Receive(a) ==
    /\ cookies' = [cookies EXCEPT ![a.to] = IF a.guest = NoSecret THEN @ ELSE a.guest]
    /\ claimants' = IF a.claim THEN claimants \cup {a.to} ELSE claimants
    /\ answers' = answers \ {a}
    /\ UNCHANGED <<guest, credentials, saves, acted>>

Lose(a) ==
    /\ answers' = answers \ {a}
    /\ UNCHANGED <<guest, credentials, saves, browsers, acted>>

\* cookies.reset
ResetCookies(b) ==
    /\ cookies[b] # NoSecret
    /\ cookies' = [cookies EXCEPT ![b] = NoSecret]
    /\ claimants' = claimants \ {b}
    /\ UNCHANGED <<guest, credentials, saves, answers, acted>>

-----------------------------------------------------------------------------
Init ==
    /\ guest = [state |-> "none", revision |-> 0, due |-> FALSE, expired |-> FALSE]
    /\ current = NoSecret
    /\ predecessor = NoPredecessor
    /\ capability = FALSE
    /\ drawn = 0
    /\ known = {}
    /\ exports = [e \in ExportIds |-> NoExport]
    /\ receipts = [i \in ImportIds |-> NoReceipt]
    /\ spent = {} /\ over = {} /\ unsound = {}
    /\ cookies = [b \in Browsers |-> NoSecret]
    /\ claimants = {}
    /\ answers = {}
    /\ acted = {}

Next ==
    \/ \E b \in Browsers :
           \/ Issue(b) \/ Resume(b) \/ Rotate(b) \/ RotateAgain(b) \/ RotateClaimCapability(b)
           \/ Play(b) \/ Delete(b) \/ Claimed(b) \/ ResetCookies(b)
    \/ \E b \in Browsers, e \in ExportIds : CreateExport(b, e)
    \/ \E b \in Browsers, i \in ImportIds, e \in ExportIds : Import(b, i, e)
    \/ \E b \in Browsers, i \in ImportIds : ReplayImport(b, i)
    \/ \E e \in ExportIds : ExportExpires(e) \/ IntegrityKeyLost(e)
    \/ \E a \in answers : Receive(a) \/ Lose(a)
    \/ GraceEnds \/ BecomesDue \/ GuestExpires
    \/ DeleteExpiredGuest \/ DeleteExpiredPredecessor \/ PurgeClaimCapability
    \/ DeleteExpiredExports \/ DeleteExpiredReceipts \/ PurgeIntegrityReferences

Spec == Init /\ [][Next]_vars

-----------------------------------------------------------------------------
(* Properties. *)

\* Rows have the types of the schema; a guest has a current digest exactly
\* while it is there.
TypeOK ==
    /\ guest \in Guest
    /\ current \in Secrets \cup {NoSecret} /\ (current # NoSecret <=> guest.state = "live")
    /\ predecessor \in [secret : Secrets \cup {NoSecret}, grace : BOOLEAN]
    /\ capability \in BOOLEAN
    /\ drawn \in 0 .. MaxLineages
    /\ known \subseteq Secrets
    /\ exports \in [ExportIds -> Envelope \cup {NoExport}]
    /\ receipts \in [ImportIds -> Receipt \cup {NoReceipt}]
    /\ spent \subseteq ImportIds \X ExportIds
    /\ over \subseteq ExportIds /\ unsound \subseteq ExportIds
    /\ cookies \in [Browsers -> Secrets \cup {NoSecret}]
    /\ claimants \subseteq Browsers /\ (claimants # {} => capability)
    /\ answers \subseteq Answer
    /\ acted \subseteq Lineages

\* ADR 0003: retries with the predecessor converge on the current credential.
\* A rotation answered from the predecessor tells a secret that nobody stores,
\* unless the current one derives from it, whatever was imported, replayed or
\* cleaned up since.
RotationConverges ==
    predecessor.secret # NoSecret => current = Derived(predecessor.secret)

\* A resume secret that was stored and is refused is never accepted again, by no rotation, import, retry or job.
DeadSecretsStayDead ==
    [][\A s \in known : ~Resumes(s) => ~Resumes(s)']_vars

\* An import whose answer was lost, came late or out of order can be retried
\* until somebody does something with the secret that it issued last: no file
\* of the same guest, rotation or job takes its place in between.
LostImportRetryable ==
    \A i \in ImportIds :
        /\ receipts[i] # NoReceipt
        /\ receipts[i].issued[1] \notin acted
        /\ Verifies(receipts[i].export)
        /\ ~guest.expired
        => CanReplay(i)

=============================================================================
