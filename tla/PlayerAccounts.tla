--------------------------- MODULE PlayerAccounts ---------------------------
(***************************************************************************)
(* Claims of guests, the player sessions they issue, and the deletion and  *)
(* retention of both: packages/persistence/src/account-claim.ts over the   *)
(* tables of migration 0003, reached by the claim, recovery, player and    *)
(* deletion routes of packages/account-http-runtime/src/http.ts.           *)
(*                                                                         *)
(* A player is named by the claim that created it, which is also the       *)
(* linked_claim_id of its wallet credential.  A session is named by the    *)
(* claim that issued it, and its secrets by their delivery generation: a   *)
(* rotation derives the next secret from the current one, so that a retry  *)
(* derives the same, and a recovery draws a fresh one.                     *)
(*                                                                         *)
(* Every call locks the guest or the player, then the advisory scopes of   *)
(* the claim, before it reads what it decides on, and is one action.  What *)
(* is interleaved are the calls of browsers, the answers that carry        *)
(* secrets, time, and the retention jobs.                                  *)
(***************************************************************************)
EXTENDS Naturals, Sequences, FiniteSets

CONSTANTS
    Guests,
    Claims,           \* claim ids; each is one intent of a browser
    Accounts,
    Browsers,         \* cookie jars
    NoClaim,          \* no target: the claim creates a player
    NoSecret,         \* an empty player cookie
    MaxRevision,      \* bound: the largest safe revision, small here
    MaxDeliveries,    \* bound: secrets of the sessions that exist
    MaxChallenges,    \* bound: challenges that are stored
    MaxStored         \* bound: secrets and challenges together, before a delivery

ASSUME PlayerAccountsAssumption ==
    /\ IsFiniteSet(Claims) /\ NoClaim \notin Claims
    /\ NoSecret \notin Claims \X Nat
    /\ MaxRevision \in Nat /\ MaxDeliveries \in Nat /\ MaxChallenges \in Nat /\ MaxStored \in Nat

VARIABLES
    guests,            \* guest_sessions that may still claim
    intents,           \* what each claim id stands for, once signed
    challenges,        \* claim_challenges; bound: one of a purpose and a claim at a time
    players,           \* players, each with its wallet credential
    playerRevision,    \* player_progress.revision
    sessions,          \* player_sessions and their digests
    merges,            \* progress_merges
    ended,             \* claims whose thirty days are over
    tombstones,        \* accounts of deleted players
    reviewed,          \* sessions with a wallet link that a review preparation names
    cookies,           \* the player cookie of each browser
    answers            \* secrets on their way to a browser

vars == <<guests, intents, challenges, players, playerRevision, sessions, merges,
          ended, tombstones, reviewed, cookies, answers>>

Revisions == 0 .. MaxRevision
Generations == 1 .. MaxDeliveries
Secrets == Claims \X Generations

\* stale: the revision of the guest is not the one that was signed any more.
Intent == [guest : Guests, account : Accounts, target : Claims \cup {NoClaim},
           stale : BOOLEAN, playerRevision : Revisions]
NoIntent == [target |-> NoClaim]

Challenge == {"none", "open", "consumed"}
Purposes == {"claim", "recovery", "delete"}

\* grace: the predecessor is within its sixty seconds.  lost: slots whose digest
\* key is compromised or past its verification horizon.  proven: history, the
\* generation that a wallet proof issued last.
Session == [state : {"pending-delivery", "active", "revoked"}, generation : Generations,
            slots : SUBSET {"current", "predecessor"}, grace : BOOLEAN, idle : BOOLEAN,
            lost : SUBSET {"current"}, proven : Generations]
NoSession == [state |-> "none"]

Exists(c) == sessions[c] # NoSession
Issued == {s \in Secrets : Exists(s[1]) /\ s[2] <= sessions[s[1]].generation}
Stored == {k \in Purposes \X Claims : challenges[k] # "none"}
CanDeliver ==
    /\ Cardinality(Issued) < MaxDeliveries
    /\ Cardinality(Issued) + Cardinality(Stored) <= MaxStored
PlayerOf(c) == IF intents[c].target = NoClaim THEN c ELSE intents[c].target
ClaimsOf(p) == {c \in Claims : intents[c] # NoIntent /\ (c = p \/ (PlayerOf(c) = p /\ (Exists(c) \/ c \in merges)))}

\* The claims a guest has signed.
ClaimsFrom(g) == {c \in Claims : intents[c] # NoIntent /\ intents[c].guest = g}

\* resolveWallet, lockWallet: the players with a credential of the account.
WalletOf(account) == {p \in players : intents[p].account = account}

-----------------------------------------------------------------------------
(* Guests and players go on playing. *)

\* The revisions that were signed for it are stale.
GuestPlays(g) ==
    /\ g \in guests
    /\ intents' = [c \in Claims |->
           IF c \in ClaimsFrom(g) THEN [intents[c] EXCEPT !.stale = TRUE] ELSE intents[c]]
    /\ UNCHANGED <<guests, challenges, players, playerRevision, sessions, merges, ended, tombstones,
                   reviewed, cookies, answers>>

\* Which slot of the session a secret matches, with a key that still verifies.
Matches(secret, slot) ==
    LET session == sessions[secret[1]] IN
    /\ Exists(secret[1])
    /\ slot \in session.slots \ session.lost
    /\ secret[2] = IF slot = "current" THEN session.generation ELSE session.generation - 1
    /\ slot = "predecessor" => session.grace

\* lockAuthenticatedPlayerSession
Authenticates(secret, states) ==
    /\ secret # NoSecret
    /\ \E slot \in {"current", "predecessor"} : Matches(secret, slot)
    /\ sessions[secret[1]].state \in states
    /\ secret[1] \notin ended
    /\ ~sessions[secret[1]].idle

Live == {"active", "pending-delivery"}

PlayerPlays(b) ==
    LET p == PlayerOf(cookies[b][1]) IN
    /\ Authenticates(cookies[b], {"active"})
    /\ playerRevision[p] < MaxRevision
    /\ playerRevision' = [playerRevision EXCEPT ![p] = @ + 1]
    /\ UNCHANGED <<guests, intents, challenges, players, sessions, merges, ended,
                   tombstones, reviewed, cookies, answers>>

-----------------------------------------------------------------------------
(* Challenges. *)

Issue(purpose, c) ==
    /\ challenges[<<purpose, c>>] = "none"
    /\ Cardinality(Stored) < MaxChallenges
    /\ Cardinality(Issued) + Cardinality(Stored) < MaxStored
    /\ challenges' = [challenges EXCEPT ![<<purpose, c>>] = "open"]

\* authenticateGuest and assertGuestClaimCapability, of which GuestRecovery has
\* the secrets.
GuestAuthentic(g) == g \in guests

\* assertClaimIdentifiersNotTombstoned: a claim id is used once.
Unused(c) == ~Exists(c) /\ c \notin merges \cup ended

\* issueClaimChallenge, at first for a new claim id, whose browser signs the
\* revisions that it sees.
IssueClaimChallenge(c, intent) ==
    /\ intents[c] \in {NoIntent, intent}
    /\ intent.target # c
    /\ intents[c] = NoIntent =>
           IF intent.target = NoClaim THEN intent.playerRevision = 0
           ELSE intent.target \in players /\ intent.playerRevision = playerRevision[intent.target]
    /\ GuestAuthentic(intent.guest)
    /\ ~intent.stale
    /\ Unused(c)
    /\ Issue("claim", c)
    /\ intents' = [intents EXCEPT ![c] = intent]
    /\ UNCHANGED <<guests, players, playerRevision, sessions, merges, ended, tombstones,
                   reviewed, cookies, answers>>

\* issueRecoveryChallenge, issuePlayerDeletionChallenge: for any claim id, with
\* no look at what it names.  One that names nothing is refused when it is used.
IssueOpenChallenge(purpose, c) ==
    /\ intents[c] # NoIntent
    /\ Issue(purpose, c)
    /\ UNCHANGED <<guests, intents, players, playerRevision, sessions, merges, ended,
                   tombstones, reviewed, cookies, answers>>

\* A challenge is refused when its five minutes are over; deleteExpiredChallenges
\* removes it, used or not.
ChallengeExpires(purpose, c) ==
    /\ challenges[<<purpose, c>>] # "none"
    /\ challenges' = [challenges EXCEPT ![<<purpose, c>>] = "none"]
    /\ UNCHANGED <<guests, intents, players, playerRevision, sessions, merges, ended,
                   tombstones, reviewed, cookies, answers>>

\* assertChallenge
Valid(purpose, c) == challenges[<<purpose, c>>] = "open"

\* consumeChallenge
Consumed(k) == [challenges EXCEPT ![k] = "consumed"]

\* All challenges of some claims, with or without the one being consumed.
Removed(purposes, claims) ==
    [k \in Purposes \X Claims |->
        IF k[1] \in purposes /\ k[2] \in claims THEN "none" ELSE challenges[k]]

-----------------------------------------------------------------------------
(* claimGuest: a retry finds neither the guest nor the claim id. *)

\* Mutant: the revision that was signed for the target is not compared.
TargetAdmitsAnyRevision(intent) ==
    /\ intent.target \in players
    /\ intents[intent.target].account = intent.account

\* The wallet of the target, and the revision of its progress that was signed.
TargetAdmits(intent) ==
    /\ intent.target \in players
    /\ intents[intent.target].account = intent.account
    /\ playerRevision[intent.target] = intent.playerRevision
    /\ intent.playerRevision < MaxRevision

\* Mutant: an account that has a player gets another.
CreateAdmitsKnown(intent) == intent.account \notin tombstones

CreateAdmits(intent) ==
    /\ WalletOf(intent.account) = {}
    /\ intent.account \notin tombstones

\* rewriteGuestRows, revokeGuestPrivateRows: the guest goes with all that is its
\* own, but for the challenge that is used.
Revoked(g, used) ==
    /\ guests' = guests \ {g}
    /\ challenges' = [k \in Purposes \X Claims |->
           IF k \in used THEN Consumed(k)[k] ELSE Removed({"claim"}, ClaimsFrom(g))[k]]

\* A created player starts at the revision of the guest; bound: that is 0.
Claim(b, c) ==
    LET intent == intents[c]
        p == PlayerOf(c)
    IN /\ cookies[b] = NoSecret
       /\ Valid("claim", c)
       /\ CanDeliver
       /\ GuestAuthentic(intent.guest)
       /\ Unused(c)
       /\ ~intent.stale
       /\ IF intent.target = NoClaim THEN CreateAdmits(intent) ELSE TargetAdmits(intent)
       /\ players' = players \cup {p}
       /\ playerRevision' = [playerRevision EXCEPT ![p] =
              IF intent.target = NoClaim THEN 0 ELSE intent.playerRevision + 1]
       /\ sessions' = [sessions EXCEPT ![c] =
              [state |-> "pending-delivery", generation |-> 1, slots |-> {"current"},
               grace |-> FALSE, idle |-> FALSE, lost |-> {}, proven |-> 1]]
       /\ merges' = merges \cup {c}
       /\ Revoked(intent.guest, {<<"claim", c>>})
       /\ answers' = answers \cup {<<b, <<c, 1>>>>}
       /\ UNCHANGED <<intents, ended, tombstones, reviewed, cookies>>

\* claimGuestPublic, of a claim that was refused: what it did before stands, and
\* the browser is told to prove its account again.
ToldToReauthenticate(c) ==
    /\ c \in merges \ ended
    /\ Exists(c) /\ sessions[c].state = "pending-delivery"

-----------------------------------------------------------------------------
(* Deliveries. *)

\* recoverClaimSession: a browser with no player cookie, whose earlier calls
\* are over, proves the account of the player.
CanRecover(c) ==
    /\ PlayerOf(c) \in WalletOf(intents[c].account)
    /\ Exists(c)
    /\ "current" \in sessions[c].slots
    /\ sessions[c].state = "pending-delivery"
    /\ c \notin ended

\* Mutant: the secret of the lost delivery is sent again, under its generation.
RecoverySame(b, c) ==
    /\ cookies[b] = NoSecret
    /\ \A a \in answers : a[1] # b
    /\ Valid("recovery", c)
    /\ CanRecover(c)
    /\ sessions' = [sessions EXCEPT ![c].idle = FALSE]
    /\ challenges' = Consumed(<<"recovery", c>>)
    /\ answers' = answers \cup {<<b, <<c, sessions[c].generation>>>>}
    /\ UNCHANGED <<guests, intents, players, playerRevision, merges, ended, tombstones,
                   reviewed, cookies>>

Recover(b, c) ==
    LET next == sessions[c].generation + 1
    IN /\ cookies[b] = NoSecret
       /\ \A a \in answers : a[1] # b
       /\ Valid("recovery", c)
       /\ CanRecover(c)
       /\ CanDeliver
       /\ sessions' = [sessions EXCEPT ![c] =
              [@ EXCEPT !.generation = next, !.slots = {"current"}, !.grace = FALSE,
                        !.idle = FALSE, !.lost = {}, !.proven = next]]
       /\ challenges' = Consumed(<<"recovery", c>>)
       /\ answers' = answers \cup {<<b, <<c, next>>>>}
       /\ UNCHANGED <<guests, intents, players, playerRevision, merges, ended,
                      tombstones, reviewed, cookies>>

\* The answer of a claim, a recovery or a rotation reaches its browser ...
Receive(a) ==
    /\ cookies' = [cookies EXCEPT ![a[1]] = a[2]]
    /\ answers' = answers \ {a}
    /\ UNCHANGED <<guests, intents, challenges, players, playerRevision, sessions, merges,
                   ended, tombstones, reviewed>>

\* ... or is lost.
Lose(a) ==
    /\ answers' = answers \ {a}
    /\ UNCHANGED <<guests, intents, challenges, players, playerRevision, sessions, merges,
                   ended, tombstones, reviewed, cookies>>

\* Mutant: any secret of the session acknowledges its delivery.
AcknowledgeByAny(b) ==
    LET c == cookies[b][1] IN
    /\ Authenticates(cookies[b], Live)
    /\ sessions' = [sessions EXCEPT ![c].state = "active"]
    /\ UNCHANGED <<guests, intents, challenges, players, playerRevision, merges, ended,
                   tombstones, reviewed, cookies, answers>>

\* acknowledgeClaimDelivery, with the generation that came with the secret.
Acknowledge(b) ==
    LET c == cookies[b][1] IN
    /\ Authenticates(cookies[b], Live)
    /\ Matches(cookies[b], "current")
    /\ sessions' = [sessions EXCEPT ![c].state = "active"]
    /\ UNCHANGED <<guests, intents, challenges, players, playerRevision, merges, ended,
                   tombstones, reviewed, cookies, answers>>

Rotated(session) ==
    [session EXCEPT !.state = "pending-delivery", !.generation = @ + 1,
                    !.slots = {"current", "predecessor"}, !.grace = TRUE]

\* rotatePlayerSession of the current secret: refused while the predecessor of
\* the last rotation is still accepted.
Rotate(b) ==
    LET c == cookies[b][1] IN
    /\ Authenticates(cookies[b], {"active"})
    /\ Matches(cookies[b], "current")
    /\ ~("predecessor" \in sessions[c].slots /\ sessions[c].grace)
    /\ CanDeliver
    /\ sessions' = [sessions EXCEPT ![c] = Rotated(@)]
    /\ answers' = answers \cup {<<b, <<c, sessions[c].generation + 1>>>>}
    /\ UNCHANGED <<guests, intents, challenges, players, playerRevision, merges, ended,
                   tombstones, reviewed, cookies>>

\* rotatePlayerSession of the predecessor, until the delivery is acknowledged:
\* the same secret is derived again and nothing is written.
RotateAgain(b) ==
    LET c == cookies[b][1] IN
    /\ Authenticates(cookies[b], {"pending-delivery"})
    /\ Matches(cookies[b], "predecessor")
    /\ "current" \in sessions[c].slots
    /\ answers' = answers \cup {<<b, <<c, sessions[c].generation>>>>}
    /\ UNCHANGED <<guests, intents, challenges, players, playerRevision, sessions, merges,
                   ended, tombstones, reviewed, cookies>>

\* A row without a secret; what it still says of them is of no use.
Closed(session) ==
    [session EXCEPT !.state = "revoked", !.slots = {}, !.grace = FALSE, !.idle = FALSE, !.lost = {},
                    !.proven = 1]

\* logoutPlayerSession; the answer clears the cookie, unless it is lost.  The
\* retry finds the tombstone of its secret, and clears the cookie as a reset does.
Logout(b, answered) ==
    LET c == cookies[b][1] IN
    /\ Authenticates(cookies[b], Live)
    /\ sessions' = [sessions EXCEPT ![c] = Closed(@)]
    /\ cookies' = IF answered THEN [cookies EXCEPT ![b] = NoSecret] ELSE cookies
    /\ UNCHANGED <<guests, intents, challenges, players, playerRevision, merges, ended,
                   tombstones, reviewed, answers>>

\* cookies.reset: the browser gives up whatever it holds.
ResetCookies(b) ==
    /\ cookies[b] # NoSecret
    /\ cookies' = [cookies EXCEPT ![b] = NoSecret]
    /\ UNCHANGED <<guests, intents, challenges, players, playerRevision, sessions, merges,
                   ended, tombstones, reviewed, answers>>

-----------------------------------------------------------------------------
(* Deletion. *)

\* deleteLockedPlayerRows, and what goes with the row of the player.
Deleted(p) ==
    /\ players' = players \ {p}
    /\ sessions' = [c \in Claims |-> IF c \in ClaimsOf(p) THEN NoSession ELSE sessions[c]]
    /\ merges' = merges \ ClaimsOf(p)
    /\ reviewed' = reviewed \ ClaimsOf(p)
    /\ playerRevision' = [playerRevision EXCEPT ![p] = 0]
    /\ tombstones' = tombstones \cup {intents[p].account}

\* deletePlayer: by the current secret of a session.
DeleteBySession(b) ==
    LET p == PlayerOf(cookies[b][1]) IN
    /\ Authenticates(cookies[b], Live)
    /\ Matches(cookies[b], "current")
    /\ Deleted(p)
    /\ challenges' = Removed(Purposes, ClaimsOf(p))
    /\ UNCHANGED <<guests, intents, ended, cookies, answers>>

\* deletePlayerWithWalletProof: the challenge names the claim that linked the
\* wallet, and goes with the rows of the player; a retry is told of the deletion
\* by a tombstone.
DeleteByWallet(p) ==
    /\ Valid("delete", p)
    /\ p \in WalletOf(intents[p].account)
    /\ Deleted(p)
    /\ challenges' = Removed(Purposes, ClaimsOf(p))
    /\ UNCHANGED <<guests, intents, ended, cookies, answers>>

\* deleteGuest, or the expiry of the guest.
GuestLeaves(g) ==
    /\ g \in guests
    /\ Revoked(g, {})
    /\ UNCHANGED <<intents, players, playerRevision, sessions, merges, ended, tombstones,
                   reviewed, cookies, answers>>

-----------------------------------------------------------------------------
(* Time, keys and reviews. *)

\* An answer takes less than the sixty seconds of a predecessor, or is lost.
GraceEnds(c) ==
    /\ Exists(c)
    /\ sessions[c].grace
    /\ \A a \in answers : a[2][1] # c
    /\ sessions' = [sessions EXCEPT ![c].grace = FALSE]
    /\ UNCHANGED <<guests, intents, challenges, players, playerRevision, merges, ended,
                   tombstones, reviewed, cookies, answers>>

\* Seven days without use.
SessionIdles(c) ==
    /\ Exists(c)
    /\ sessions[c].slots # {} /\ ~sessions[c].idle /\ ~sessions[c].grace
    /\ \A a \in answers : a[2][1] # c
    /\ sessions' = [sessions EXCEPT ![c].idle = TRUE]
    /\ UNCHANGED <<guests, intents, challenges, players, playerRevision, merges, ended,
                   tombstones, reviewed, cookies, answers>>

\* Session and merge receipt of a claim expire thirty days after it.
ClaimEnds(c) ==
    /\ Exists(c) \/ c \in merges
    /\ c \notin ended
    /\ Exists(c) => ~sessions[c].grace
    /\ ended' = ended \cup {c}
    /\ UNCHANGED <<guests, intents, challenges, players, playerRevision, sessions, merges,
                   tombstones, reviewed, cookies, answers>>

TombstoneExpires(account) ==
    /\ account \in tombstones
    /\ tombstones' = tombstones \ {account}
    /\ UNCHANGED <<guests, intents, challenges, players, playerRevision, sessions, merges,
                   ended, reviewed, cookies, answers>>

\* The key of the current digest is compromised, or destroyed too early.
KeyLost(c) ==
    /\ Exists(c)
    /\ "current" \in sessions[c].slots \ sessions[c].lost
    /\ sessions' = [sessions EXCEPT ![c].lost = {"current"}]
    /\ UNCHANGED <<guests, intents, challenges, players, playerRevision, merges, ended,
                   tombstones, reviewed, cookies, answers>>

\* A review is prepared under a wallet link of the session; see WalletLink.
PrepareReview(b) ==
    LET c == cookies[b][1] IN
    /\ Authenticates(cookies[b], {"active"})
    /\ c \notin reviewed
    /\ reviewed' = reviewed \cup {c}
    /\ UNCHANGED <<guests, intents, challenges, players, playerRevision, sessions, merges,
                   ended, tombstones, cookies, answers>>

-----------------------------------------------------------------------------
(* Retention: each job is a transaction over all the rows that are due. *)

\* What a job makes of a row after its own updates: one that is revoked, without
\* a digest and without a merge receipt is removed.
Swept(c, session, kept) ==
    IF session.state # "revoked" \/ session.slots # {} THEN session
    ELSE IF c \in kept THEN Closed(session) ELSE NoSession

\* The removal of a row takes its wallet links along, which a review preparation
\* forbids: the whole transaction fails.
Admitted == \A c \in Claims : Exists(c) /\ sessions'[c] = NoSession => c \notin reviewed

SessionsDue ==
    {c \in Claims :
        /\ Exists(c)
        /\ c \in ended \/ sessions[c].idle
        /\ sessions[c].state # "revoked" \/ sessions[c].slots # {}}

DeleteExpiredSessions ==
    /\ SessionsDue # {}
    /\ sessions' = [c \in Claims |->
           IF c \in SessionsDue THEN Swept(c, Closed(sessions[c]), merges) ELSE sessions[c]]
    /\ Admitted
    /\ UNCHANGED <<guests, intents, challenges, players, playerRevision, merges, ended,
                   tombstones, reviewed, cookies, answers>>

PredecessorsDue ==
    {c \in Claims : Exists(c) /\ "predecessor" \in sessions[c].slots /\ ~sessions[c].grace}

DeleteExpiredPredecessors ==
    /\ PredecessorsDue # {}
    /\ sessions' = [c \in Claims |->
           IF c \in PredecessorsDue
           THEN Swept(c, [sessions[c] EXCEPT !.slots = @ \ {"predecessor"}], merges)
           ELSE sessions[c]]
    /\ Admitted
    /\ UNCHANGED <<guests, intents, challenges, players, playerRevision, merges, ended,
                   tombstones, reviewed, cookies, answers>>

\* Mutant: the receipt goes and the session of it stays.
DeleteMergesOnly ==
    LET due == merges \cap ended IN
    /\ due # {}
    /\ merges' = merges \ due
    /\ challenges' = Removed(Purposes, due)
    /\ UNCHANGED <<guests, intents, players, playerRevision, sessions, ended, tombstones,
                   reviewed, cookies, answers>>

DeleteExpiredMerges ==
    LET due == merges \cap ended IN
    /\ due # {}
    /\ merges' = merges \ due
    /\ challenges' = Removed(Purposes, due)
    /\ sessions' = [c \in Claims |->
           IF c \in due /\ Exists(c) THEN Swept(c, sessions[c], merges') ELSE sessions[c]]
    /\ Admitted
    /\ UNCHANGED <<guests, intents, players, playerRevision, ended, tombstones,
                   reviewed, cookies, answers>>

\* Mutant: a purged session waits for its delivery on.
PurgeDigestOnly ==
    LET lost == {c \in Claims : Exists(c) /\ sessions[c].lost # {}} IN
    /\ lost # {}
    /\ sessions' = [c \in Claims |->
           IF c \in lost THEN [sessions[c] EXCEPT !.slots = @ \ {"current"}, !.lost = {}]
           ELSE sessions[c]]
    /\ UNCHANGED <<guests, intents, challenges, players, playerRevision, merges, ended,
                   tombstones, reviewed, cookies, answers>>

\* purgeUnavailablePlayerSessionDigests: without its current digest a session
\* is revoked, its predecessor stays until its own end.
PurgeUnavailable ==
    LET lost == {c \in Claims : Exists(c) /\ sessions[c].lost # {}} IN
    /\ lost # {}
    /\ sessions' = [c \in Claims |->
           IF c \in lost
           THEN Swept(c, [sessions[c] EXCEPT !.slots = @ \ {"current"}, !.lost = {}, !.state = "revoked"],
                      merges)
           ELSE sessions[c]]
    /\ Admitted
    /\ UNCHANGED <<guests, intents, challenges, players, playerRevision, merges, ended,
                   tombstones, reviewed, cookies, answers>>

-----------------------------------------------------------------------------
Init ==
    /\ guests = Guests
    /\ intents = [c \in Claims |-> NoIntent]
    /\ challenges = [k \in Purposes \X Claims |-> "none"]
    /\ players = {}
    /\ playerRevision = [p \in Claims |-> 0]
    /\ sessions = [c \in Claims |-> NoSession]
    /\ merges = {} /\ ended = {} /\ tombstones = {} /\ reviewed = {}
    /\ cookies = [b \in Browsers |-> NoSecret]
    /\ answers = {}

Retention == DeleteExpiredSessions \/ DeleteExpiredPredecessors \/ DeleteExpiredMerges \/ PurgeUnavailable

Next ==
    \/ \E g \in Guests : GuestPlays(g) \/ GuestLeaves(g)
    \/ \E c \in Claims, intent \in Intent : IssueClaimChallenge(c, intent)
    \/ \E c \in Claims, purpose \in {"recovery", "delete"} : IssueOpenChallenge(purpose, c)
    \/ \E c \in Claims, purpose \in Purposes : ChallengeExpires(purpose, c)
    \/ \E b \in Browsers, c \in Claims : Claim(b, c) \/ Recover(b, c)
    \/ \E p \in players : DeleteByWallet(p)
    \/ \E a \in answers : Receive(a) \/ Lose(a)
    \/ \E b \in Browsers :
           \/ PlayerPlays(b) \/ Acknowledge(b) \/ Rotate(b) \/ RotateAgain(b)
           \/ ResetCookies(b) \/ DeleteBySession(b) \/ PrepareReview(b)
    \/ \E b \in Browsers, answered \in BOOLEAN : Logout(b, answered)
    \/ \E c \in Claims : GraceEnds(c) \/ SessionIdles(c) \/ ClaimEnds(c) \/ KeyLost(c)
    \/ \E account \in Accounts : TombstoneExpires(account)
    \/ Retention

\* The retention jobs are scheduled again and again, by the operator of the
\* deployment; nobody else has to do anything.
Fairness == WF_vars(DeleteExpiredSessions) /\ WF_vars(DeleteExpiredMerges)

Spec == Init /\ [][Next]_vars /\ Fairness

-----------------------------------------------------------------------------
(* Properties. *)

\* Rows have the types of the schema, and the secrets in the world are of
\* sessions that were issued.
TypeOK ==
    /\ guests \subseteq Guests
    /\ intents \in [Claims -> Intent \cup {NoIntent}]
    /\ challenges \in [Purposes \X Claims -> Challenge]
    /\ players \subseteq Claims /\ playerRevision \in [Claims -> Revisions]
    /\ sessions \in [Claims -> Session \cup {NoSession}]
    /\ merges \subseteq Claims /\ ended \subseteq Claims /\ reviewed \subseteq Claims
    /\ tombstones \subseteq Accounts
    /\ cookies \in [Browsers -> Secrets \cup {NoSecret}]
    /\ answers \subseteq Browsers \X Secrets

\* An account names one player, through deletions and new claims, and what a
\* claim left behind belongs to the player of the account that proved it.
AccountNamesOnePlayer ==
    /\ \A p, q \in players : intents[p].account = intents[q].account => p = q
    /\ \A c \in Claims : Exists(c) \/ c \in merges =>
           PlayerOf(c) \in players /\ intents[PlayerOf(c)].account = intents[c].account

\* A browser with a secret no older than the last wallet proof is never locked
\* out of a session in use: its cookie works, or the account can recover it.
\* Lost and repeated rotations, late acknowledgements and the end of the grace
\* all pass through here (rotatePlayerSession, acknowledgeClaimDelivery).
NotStranded ==
    \A b \in Browsers :
        LET c == cookies[b][1] IN
        /\ cookies[b] # NoSecret
        /\ Exists(c)
        /\ sessions[c].state \in Live
        /\ cookies[b][2] >= sessions[c].proven
        /\ sessions[c].lost = {} /\ ~sessions[c].idle /\ c \notin ended
        => Authenticates(cookies[b], Live) \/ CanRecover(c)

\* A browser that is told to reauthenticate after a claim whose answer was lost
\* can do so (claimGuestPublic and recoverClaimSession query apart).
ReauthenticationCanRecover == \A c \in Claims : ToldToReauthenticate(c) => CanRecover(c)

\* A secret that was handed out and is refused is never accepted again, by no
\* recovery, rotation, purge or retry (the tombstones of player sessions).
DeadSecretsStayDead ==
    [][\A s \in Issued : ~Authenticates(s, Live) => ~Authenticates(s, Live)']_vars

\* The jobs that run apart leave no session row that none of them removes: one
\* that is revoked and has no digest goes with the receipt of its claim
\* (deleteExpiredPlayerSessions, deleteExpiredMergeReceipts).
NoSessionForgotten ==
    \A c \in Claims : Exists(c) /\ sessions[c].state = "revoked" /\ sessions[c].slots = {} => c \in merges

\* ADR 0003: expiry cleanup removes any expired private rows.
ExpiryCleanupRemoves == \A c \in Claims : (Exists(c) /\ c \in ended) ~> ~Exists(c)
=============================================================================
