----------------------------- MODULE WalletLink -----------------------------
(***************************************************************************)
(* The wallet access of players for receipts: packages/persistence/src/    *)
(* receipt-review-wallet-authority.ts over the tables, CHECKs, keys and    *)
(* triggers of migration 0007.  A player connects a wallet, proves its     *)
(* account by signing a challenge, prepares and preflights reviews,        *)
(* disconnects and revokes, while the delivery of its session, its logout  *)
(* and the revocation of credentials revoke links from below.              *)
(*                                                                         *)
(* Every call runs in runSettledTransaction, which locks the session and   *)
(* the progress of the player, and takes a lock of the account, so each is *)
(* one action; one the schema refuses changes nothing.  A call with stale  *)
(* coordinates, and the replay of a saved key, change nothing either; the  *)
(* calls below carry the coordinates of the row.  The foreign key of the   *)
(* session cascades its delivery generation to its links, so that a link   *)
(* of the caller's session is always of the caller's generation.           *)
(***************************************************************************)
EXTENDS Naturals, Sequences, FiniteSets

CONSTANTS
    Players,
    Sessions,        \* player sessions
    Accounts,        \* accounts on the chain of the receipts
    Owner,           \* the player of each session
    Starts,          \* coordinates a browser starts a link with
    MaxCoordinate,   \* the largest safe integer, small here
    MaxLinks,        \* bound: wallet_runtime_links
    MaxCredentials   \* bound: wallet_credentials

ASSUME WalletLinkAssumption ==
    /\ Owner \in [Sessions -> Players]
    /\ MaxCoordinate \in Nat /\ MaxCoordinate >= 4
    /\ Starts \subseteq Nat \X Nat
    /\ MaxLinks \in Nat
    /\ MaxCredentials \in Nat \ {0}

VARIABLES
    sessions,      \* player_sessions.state
    links,         \* wallet_runtime_links, in the order they were inserted
    challenges,    \* wallet_link_challenges: a link has at most one
    credentials,   \* wallet_credentials
    reviews,       \* links some receipt_review_preparations row names
    answers        \* history: links told active or REVIEW_READY, with their coordinates

vars == <<sessions, links, challenges, credentials, reviews, answers>>

SessionStates == {"pending-delivery", "active", "revoked"}
Ended == {"DISCONNECTED", "REVOKED"}
Linked == {"LINKED_EXISTING", "LINKED"}
LinkStates == {"PERMISSIONED", "CHALLENGE_ISSUED"} \cup Linked \cup Ended
ChallengeStates == {"NONE", "ISSUED", "CONSUMED", "REVOKED"}
Coordinates == 0 .. MaxCoordinate

Link == [session : Sessions, account : Accounts, credential : 0 .. MaxCredentials,
         proof : ChallengeStates, generation : Coordinates, revision : Coordinates,
         state : LinkStates]

Challenge == [state : ChallengeStates, credential : 0 .. MaxCredentials, expired : BOOLEAN,
              generation : Coordinates, revision : Coordinates,
              issuedGeneration : Coordinates, issuedRevision : Coordinates]

NoChallenge == [state |-> "NONE", credential |-> 0, expired |-> FALSE, generation |-> 0,
                revision |-> 0, issuedGeneration |-> 0, issuedRevision |-> 0]

PlayerOf(l) == Owner[links[l].session]
Active(c) == credentials[c].state = "active"
ActiveFor(account) == {c \in DOMAIN credentials : Active(c) /\ credentials[c].account = account}

-----------------------------------------------------------------------------
(* The CHECKs of a link, and the deferred keys between it and its challenge. *)

Shape(link) ==
    /\ link.generation \in Coordinates /\ link.revision \in Coordinates
    /\ link.state \in Ended \/ (link.generation < MaxCoordinate /\ link.revision < MaxCoordinate)
    /\ link.state \in {"PERMISSIONED", "CHALLENGE_ISSUED"} => link.credential = 0
    /\ link.state \in Linked => link.credential # 0
    /\ link.state \in {"PERMISSIONED", "LINKED_EXISTING"} => link.proof = "NONE"
    /\ link.state = "CHALLENGE_ISSUED" => link.proof = "ISSUED"
    /\ link.state = "LINKED" => link.proof = "CONSUMED"
    /\ link.state \in Ended /\ link.credential # 0 => link.proof \in {"NONE", "CONSUMED"}
    /\ link.state = "REVOKED" /\ link.credential = 0 => link.proof \in {"NONE", "REVOKED"}
    /\ link.state = "DISCONNECTED" /\ link.credential = 0 => link.proof = "NONE"

Admits(link, challenge) ==
    /\ Shape(link)
    /\ challenge.state # "NONE" =>
           /\ challenge.generation = link.generation
           /\ challenge.revision = link.revision
           /\ (challenge.state = "CONSUMED") = (challenge.credential # 0)
    /\ link.proof # "NONE" =>
           /\ challenge.state = link.proof
           /\ link.credential # 0 => challenge.credential = link.credential

\* wallet_runtime_links_current_subject
Current(player) == {l \in DOMAIN links : PlayerOf(l) = player /\ links[l].state \notin Ended}

-----------------------------------------------------------------------------
(* What each call and each trigger makes of a link and its challenge. *)

\* A challenge row is moved to the coordinates of its link.
Moved(challenge, link) ==
    IF challenge.state = "NONE" THEN challenge
    ELSE [challenge EXCEPT !.generation = link.generation, !.revision = link.revision]

Withdrawn(challenge) ==
    IF challenge.state = "ISSUED" THEN [challenge EXCEPT !.state = "REVOKED"] ELSE challenge

Bumped(n) == IF n < MaxCoordinate THEN n + 1 ELSE n

\* The UPDATEs of the triggers revoke_wallet_runtime_for_session_change and
\* revoke_wallet_runtime_for_credential_change.
Revoked(l) ==
    LET withdrawn == Withdrawn(challenges[l])
        link == [links[l] EXCEPT !.state = "REVOKED",
                     !.generation = Bumped(@), !.revision = Bumped(@),
                     !.proof = IF @ = "NONE" THEN @ ELSE withdrawn.state]
    IN [link |-> link, challenge |-> Moved(withdrawn, link)]

Disconnected(l) ==
    LET link == [links[l] EXCEPT !.state = "DISCONNECTED", !.generation = @ + 1, !.revision = @ + 1,
                     !.proof = IF links[l].credential = 0 THEN "NONE" ELSE @]
    IN [link |-> link, challenge |-> Moved(Withdrawn(challenges[l]), link)]

Challenged(l) ==
    LET link == [links[l] EXCEPT !.state = "CHALLENGE_ISSUED", !.proof = "ISSUED", !.revision = @ + 1]
    IN [link |-> link,
        challenge |-> [NoChallenge EXCEPT !.state = "ISSUED",
                           !.generation = link.generation, !.revision = link.revision,
                           !.issuedGeneration = link.generation, !.issuedRevision = link.revision]]

Proven(l, c) ==
    LET link == [links[l] EXCEPT !.state = "LINKED", !.proof = "CONSUMED", !.credential = c,
                     !.revision = @ + 1]
    IN [link |-> link,
        challenge |-> Moved([challenges[l] EXCEPT !.state = "CONSUMED", !.credential = c], link)]

RowAdmitted(row) == Admits(row.link, row.challenge)

Write(l, row) ==
    /\ RowAdmitted(row)
    /\ links' = [links EXCEPT ![l] = row.link]
    /\ challenges' = [challenges EXCEPT ![l] = row.challenge]

\* A trigger revokes all of a set of links, or its statement fails with it.
RevokeAll(which) ==
    /\ \A l \in which : RowAdmitted(Revoked(l))
    /\ links' = [l \in DOMAIN links |-> IF l \in which THEN Revoked(l).link ELSE links[l]]
    /\ challenges' = [l \in DOMAIN links |-> IF l \in which THEN Revoked(l).challenge ELSE challenges[l]]

Tell(link, l) ==
    answers' = answers \cup {[link |-> l, generation |-> link.generation, revision |-> link.revision]}

-----------------------------------------------------------------------------
(* Calls of a player through an active session. *)

\* Mutant: the steps that a link still needs are not reserved.
SafeStartUnreserved(start) == start[1] <= MaxCoordinate /\ start[2] <= MaxCoordinate - 2

SafeStart(start) == start[1] <= MaxCoordinate - 1 /\ start[2] <= MaxCoordinate - 4

\* syncRuntime of a key that has no link yet.
SyncRuntime(s, account, start) ==
    LET own == {c \in ActiveFor(account) : credentials[c].player = Owner[s]}
        link == [session |-> s, account |-> account, proof |-> "NONE",
                 credential |-> IF own = {} THEN 0 ELSE CHOOSE c \in own : TRUE,
                 generation |-> start[1], revision |-> start[2] + 1,
                 state |-> IF own = {} THEN "PERMISSIONED" ELSE "LINKED_EXISTING"]
    IN /\ sessions[s] = "active"
       /\ SafeStart(start)
       /\ Current(Owner[s]) = {}
       /\ Len(links) < MaxLinks
       /\ Shape(link)
       /\ links' = Append(links, link)
       /\ challenges' = Append(challenges, NoChallenge)
       /\ IF own = {} THEN UNCHANGED answers ELSE Tell(link, Len(links) + 1)
       /\ UNCHANGED <<sessions, credentials, reviews>>

IssueChallenge(s, l) ==
    /\ sessions[s] = "active"
    /\ PlayerOf(l) = Owner[s]
    /\ links[l].state = "PERMISSIONED"
    /\ links[l].credential = 0
    /\ links[l].revision <= MaxCoordinate - 1
    \* the challenge carries the session of the caller, and must agree with the link's
    /\ links[l].session = s
    /\ Write(l, Challenged(l))
    /\ UNCHANGED <<sessions, credentials, reviews, answers>>

ChallengeExpires(l) ==
    /\ challenges[l].state = "ISSUED"
    /\ ~challenges[l].expired
    /\ challenges' = [challenges EXCEPT ![l].expired = TRUE]
    /\ UNCHANGED <<sessions, links, credentials, reviews, answers>>

CoordinatesMatch(s, l) ==
    /\ links[l].session = s
    /\ challenges[l].generation = links[l].generation
    /\ challenges[l].revision = links[l].revision
    /\ links[l].generation = challenges[l].issuedGeneration
    /\ links[l].revision = challenges[l].issuedRevision

\* Mutant: the credential of another player is left to him, and one more is made.
CredentialsForAnyone(player, account) ==
    Append(credentials, [player |-> player, account |-> account, state |-> "active"])

\* The credential a proof links to: the active one of the account, or a new row.
CredentialsFor(player, account) ==
    IF ActiveFor(account) = {}
    THEN Append(credentials, [player |-> player, account |-> account, state |-> "active"])
    ELSE credentials

\* consumeProof of a challenge that is not consumed yet.
ConsumeProof(s, l) ==
    LET account == links[l].account
        after == CredentialsFor(Owner[s], account)
        own == {c \in DOMAIN after : after[c].account = account /\ after[c].state = "active"
                                         /\ after[c].player = Owner[s]}
    IN /\ sessions[s] = "active"
       /\ challenges[l].state = "ISSUED"
       /\ links[l].state = "CHALLENGE_ISSUED"
       /\ links[l].credential = 0
       /\ CoordinatesMatch(s, l)
       /\ ~challenges[l].expired
       /\ links[l].revision <= MaxCoordinate - 1
       /\ Len(after) <= MaxCredentials
       /\ \E c \in own :
              /\ Write(l, Proven(l, c))
              /\ Tell(Proven(l, c).link, l)
       /\ credentials' = after
       /\ UNCHANGED <<sessions, reviews>>

\* The caller may come through another session than the link's.  The CHECK on
\* revoked_at refuses a link that is revoked.
Disconnect(s, l) ==
    /\ sessions[s] = "active"
    /\ PlayerOf(l) = Owner[s]
    /\ links[l].state # "REVOKED"
    /\ links[l].generation <= MaxCoordinate - 1
    /\ links[l].revision <= MaxCoordinate - 1
    /\ Write(l, Disconnected(l))
    /\ UNCHANGED <<sessions, credentials, reviews, answers>>

\* The links that go with a credential, by its trigger.
LinksOf(c) ==
    {l \in DOMAIN links :
        /\ links[l].state # "REVOKED"
        /\ PlayerOf(l) = credentials[c].player
        /\ links[l].account = credentials[c].account
        /\ links[l].credential = c \/ links[l].state = "CHALLENGE_ISSUED"}

RevokeCredential(s, l) ==
    LET c == links[l].credential IN
    /\ sessions[s] = "active"
    /\ links[l].session = s
    /\ links[l].state \in Linked
    /\ Active(c)
    /\ RevokeAll(LinksOf(c))
    /\ credentials' = [credentials EXCEPT ![c].state = "revoked"]
    /\ UNCHANGED <<sessions, reviews, answers>>

\* Mutant: the state of the link is taken for the authority.
ReadyByCredential(s, l) == sessions[s] = "active" /\ links[l].session = s /\ links[l].credential # 0

\* readyRuntime
Ready(s, l) ==
    /\ sessions[s] = "active"
    /\ links[l].state \in Linked
    /\ links[l].session = s
    /\ Active(links[l].credential)
    /\ links[l].state = "LINKED" => challenges[l].state = "CONSUMED" /\ links[l].proof = "CONSUMED"

PrepareReview(s, l) ==
    /\ Ready(s, l)
    /\ reviews' = reviews \cup {l}
    /\ UNCHANGED <<sessions, links, challenges, credentials, answers>>

\* preflight of a review prepared under the link; of any other it answers that
\* the provider has changed.  The facts of the review are ReceiptLifecycle's.
Preflight(s, l) ==
    /\ Ready(s, l)
    /\ l \in reviews
    /\ Tell(links[l], l)
    /\ UNCHANGED <<sessions, links, challenges, credentials, reviews>>

\* validatedPublicView asks for the same before it shows a row as linked.
Validated(s, l) == Ready(s, l)

\* restoreRuntime, restoreReviewState and the replay of a sync.
Restore(s, l) ==
    /\ Validated(s, l)
    /\ Tell(links[l], l)
    /\ UNCHANGED <<sessions, links, challenges, credentials, reviews>>

-----------------------------------------------------------------------------
(* Sessions, whose changes reach the links through a trigger. *)

\* Mutant: links of a session live on after it.
ChangeSessionAlone(s, state) ==
    /\ sessions[s] # "revoked"
    /\ state \in {"pending-delivery", "revoked"}
    /\ sessions' = [sessions EXCEPT ![s] = state]
    /\ UNCHANGED <<links, challenges, credentials, reviews, answers>>

\* Rotation and logout.  A recovery finds no link left, for a session that
\* waits for its delivery has none.
ChangeSession(s, state) ==
    /\ sessions[s] # "revoked"
    /\ state \in {"pending-delivery", "revoked"}
    /\ state = "pending-delivery" => sessions[s] = "active"
    /\ RevokeAll({l \in DOMAIN links : links[l].session = s /\ links[l].state # "REVOKED"})
    /\ sessions' = [sessions EXCEPT ![s] = state]
    /\ UNCHANGED <<credentials, reviews, answers>>

Acknowledge(s) ==
    /\ sessions[s] = "pending-delivery"
    /\ sessions' = [sessions EXCEPT ![s] = "active"]
    /\ UNCHANGED <<links, challenges, credentials, reviews, answers>>

Next ==
    \/ \E s \in Sessions, account \in Accounts, start \in Starts : SyncRuntime(s, account, start)
    \/ \E l \in DOMAIN links : ChallengeExpires(l)
    \/ \E s \in Sessions, l \in DOMAIN links :
           \/ IssueChallenge(s, l)
           \/ ConsumeProof(s, l)
           \/ Disconnect(s, l)
           \/ RevokeCredential(s, l)
           \/ PrepareReview(s, l)
           \/ Preflight(s, l)
           \/ Restore(s, l)
    \/ \E s \in Sessions, state \in SessionStates : ChangeSession(s, state)
    \/ \E s \in Sessions : Acknowledge(s)

\* A player may have come by a claim that linked an account on this chain.
Init ==
    /\ sessions \in [Sessions -> {"pending-delivery", "active"}]
    /\ links = << >>
    /\ challenges = << >>
    /\ \/ credentials = << >>
       \/ \E p \in Players, account \in Accounts :
              credentials = <<[player |-> p, account |-> account, state |-> "active"]>>
    /\ reviews = {}
    /\ answers = {}

Spec == Init /\ [][Next]_vars

-----------------------------------------------------------------------------
(* Properties. *)

\* Rows have the types of the schema, and its unique indexes are never hit: an
\* account has one active credential, a player one current link (migration 0007).
TypeOK ==
    /\ sessions \in [Sessions -> SessionStates]
    /\ links \in Seq(Link) /\ Len(links) <= MaxLinks
    /\ challenges \in Seq(Challenge) /\ Len(challenges) = Len(links)
    /\ credentials \in Seq([player : Players, account : Accounts, state : {"active", "revoked"}])
    /\ reviews \subseteq DOMAIN links
    /\ \A account \in Accounts : \A c, d \in ActiveFor(account) : c = d
    /\ \A p \in Players : \A l, m \in Current(p) : l = m

\* A link is what it stands for: an active credential of its player for its
\* account, in a session that is delivered, by a challenge that was consumed.
Authentic(l) ==
    LET link == links[l] IN
    /\ link.state \in Linked
    /\ sessions[link.session] = "active"
    /\ Active(link.credential)
    /\ credentials[link.credential].player = PlayerOf(l)
    /\ credentials[link.credential].account = link.account
    /\ link.state = "LINKED" =>
           challenges[l].state = "CONSUMED" /\ challenges[l].credential = link.credential

\* No interleaving of session changes, revocations and proofs leaves a link
\* whose authority is gone (readyRuntime, validatedPublicView).
LinkedIsAuthentic == \A l \in DOMAIN links : links[l].state \in Linked => Authentic(l)

\* A browser that was told that access is active, or that a review is ready,
\* can rely on it as long as the coordinates it was told are the link's: every
\* loss of authority moves them (preflight, restoreRuntime, the triggers).
AnswersStandWhileCurrent ==
    \A a \in answers :
        links[a.link].generation = a.generation /\ links[a.link].revision = a.revision
            => Authentic(a.link)

\* What a call or a trigger writes after its own checks is never refused by the
\* schema: a link that may be proved can be, up to the last coordinates, a
\* current link can be disconnected, and a logout, a rotation or a revocation
\* never fails on the links it has to revoke (safeCoordinate, migration 0007).
WritesAdmitted ==
    \A l \in DOMAIN links :
        /\ RowAdmitted(Revoked(l))
        /\ links[l].state = "PERMISSIONED" => RowAdmitted(Challenged(l))
        /\ links[l].state = "CHALLENGE_ISSUED" => RowAdmitted(Proven(l, MaxCredentials))
        /\ links[l].state \notin Ended => RowAdmitted(Disconnected(l))
=============================================================================
