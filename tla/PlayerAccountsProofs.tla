------------------------- MODULE PlayerAccountsProofs -------------------------
(***************************************************************************)
(* Theorems of PlayerAccounts, for any number of guests, claims, accounts  *)
(* and browsers.  The invariant adds to the properties where the secrets   *)
(* of a session are: those that are newer than the last wallet proof are   *)
(* in one browser, which is not more than one rotation behind.             *)
(***************************************************************************)
EXTENDS PlayerAccounts, TLAPS, FiniteSetTheorems, FunctionTheorems

-----------------------------------------------------------------------------
(* The inductive invariant. *)

\* The three parts of TypeOK.
AccountTypes ==
    /\ guests \subseteq Guests
    /\ intents \in [Claims -> Intent \cup {NoIntent}]
    /\ challenges \in [Purposes \X Claims -> Challenge]
    /\ players \subseteq Claims /\ playerRevision \in [Claims -> Revisions]
    /\ merges \subseteq Claims /\ ended \subseteq Claims /\ reviewed \subseteq Claims
    /\ tombstones \subseteq Accounts

SessionTypes == sessions \in [Claims -> Session \cup {NoSession}]

SecretTypes ==
    /\ cookies \in [Browsers -> Secrets \cup {NoSecret}]
    /\ answers \subseteq Browsers \X Secrets

\* A challenge is of a claim that was signed.
ChallengesSigned == \A k \in Purposes \X Claims : challenges[k] # "none" =>
  intents[k[2]] # NoIntent

\* Nothing is stored for a claim id that was never signed.
Named == \A c \in Claims : Exists(c) \/ c \in merges \/ c \in players => intents[c] # NoIntent

\* A row that is used has a secret, and its predecessor is no older than the last proof.
RowSound(session) ==
    /\ session \in Session
    /\ session.state \in Live => "current" \in session.slots
    /\ session.proven <= session.generation
    /\ "predecessor" \in session.slots => session.proven < session.generation

\* What is not over has its receipt.
SessionsSound ==
    \A c \in Claims : Exists(c) =>
        /\ RowSound(sessions[c])
        /\ c \notin ended => c \in merges

\* A claim is signed by a guest that is gone.
Spent(c) == intents[c] # NoIntent /\ intents[c].guest \notin guests

\* What was claimed once cannot be claimed again, even after its deletion.
ClaimedOnce ==
    /\ \A c \in Claims : Exists(c) => Spent(c)
    /\ \A b \in Browsers : cookies[b] # NoSecret => Spent(cookies[b][1])
    /\ \A a \in answers : Spent(a[2][1])

\* Secrets in use: where one is, whether it is younger than the last proof, and of what row.
HeldBy(b, c, n) == cookies[b] = <<c, n>> \/ <<b, <<c, n>>>> \in answers
Recent(c, n) == n >= sessions[c].proven
InUse(c) == Exists(c) /\ sessions[c].state \in Live

\* Secrets since the last proof are in one browser.  Its cookie is the current
\* one, or the one before while the current one is still to be acknowledged.
DeliveredOf(c) ==
    /\ \A b \in Browsers, n \in Generations : cookies[b] = <<c, n>> /\ Recent(c, n) =>
           n = sessions[c].generation
             \/ (sessions[c].state = "pending-delivery" /\ n + 1 = sessions[c].generation)
    /\ \A b \in Browsers, n \in Generations : <<b, <<c, n>>>> \in answers /\ Recent(c, n) =>
           /\ n = sessions[c].generation
           /\ sessions[c].state = "pending-delivery"
           /\ cookies[b] # <<c, n>>
    /\ \A b, d \in Browsers, m, n \in Generations :
           Recent(c, m) /\ Recent(c, n) /\ HeldBy(b, c, m) /\ HeldBy(d, c, n) => b = d

Delivered == \A c \in Claims : InUse(c) => DeliveredOf(c)

IInv ==
    /\ TypeOK /\ ChallengesSigned /\ Named /\ AccountNamesOnePlayer /\ SessionsSound
    /\ NoSessionForgotten /\ ClaimedOnce /\ Delivered

-----------------------------------------------------------------------------
(* Secrets and rows. *)

\* TypeOK by parts.
LEMMA TypeParts == TypeOK <=> AccountTypes /\ SessionTypes /\ SecretTypes
  BY DEF TypeOK, AccountTypes, SessionTypes, SecretTypes

\* An empty cookie is no secret.
LEMMA SecretsDiffer == NoSecret \notin Secrets
  BY PlayerAccountsAssumption DEF Secrets, Generations

\* What a claim stands for is told from nothing.
LEMMA IntentsDiffer == NoIntent \notin Intent
<1> SUFFICES ASSUME NoIntent \in Intent PROVE FALSE
  OBVIOUS
<1>1. "guest" \in DOMAIN NoIntent
  BY DEF Intent
<1>2. DOMAIN NoIntent = {"target"}
  BY DEF NoIntent
<1> QED
  BY <1>1, <1>2

\* The secrets there are can be counted.
LEMMA IssuedFinite == IsFiniteSet(Issued)
<1>1. IsFiniteSet(Generations)
  BY FS_Interval, PlayerAccountsAssumption DEF Generations
<1>2. IsFiniteSet(Secrets)
  BY <1>1, FS_Product, PlayerAccountsAssumption DEF Secrets
<1> QED
  BY <1>2, FS_Subset DEF Issued

\* While a delivery is left, the next secret of a session is one.
LEMMA DeliveryFits ==
  ASSUME SessionTypes, CanDeliver, NEW c \in Claims, Exists(c)
  PROVE  sessions[c].generation + 1 \in Generations
<1> DEFINE n == sessions[c].generation
<1>1. n \in Generations /\ n \in Nat
  BY PlayerAccountsAssumption DEF SessionTypes, Session, NoSession, Exists, Generations
<1>2. IsFiniteSet(Issued)
  BY IssuedFinite
<1>3. [k \in 1 .. n |-> <<c, k>>] \in Injection(1 .. n, Issued)
  <2>1. \A k \in 1 .. n : <<c, k>> \in Issued
    BY <1>1, PlayerAccountsAssumption DEF Issued, Secrets, Generations
  <2> QED
    BY <2>1 DEF Injection, IsInjective
<1>4. n <= Cardinality(Issued)
  <2>1. Cardinality(1 .. n) = n
    BY <1>1, FS_Interval DEF Generations
  <2> HIDE DEF n
  <2> QED
    BY <2>1, <1>2, <1>3, FS_Injection
<1>5. Cardinality(Issued) \in Nat
  BY <1>2, FS_CardinalityType
<1> QED
  BY <1>1, <1>4, <1>5, PlayerAccountsAssumption DEF CanDeliver, Generations

\* So is the first of a new session.
LEMMA SomeDelivery ==
  ASSUME CanDeliver
  PROVE  1 \in Generations
<1>1. IsFiniteSet(Issued)
  BY IssuedFinite
<1>2. Cardinality(Issued) \in Nat
  BY <1>1, FS_CardinalityType
<1> QED
  BY <1>2, PlayerAccountsAssumption DEF CanDeliver, Generations

\* Players are claims.
LEMMA PlayersAreClaims ==
  ASSUME AccountTypes, NEW c \in Claims
  PROVE  PlayerOf(c) \in Claims
  BY DEF AccountTypes, PlayerOf, Intent, NoIntent

\* A secret is of a claim.
LEMMA SecretParts ==
  ASSUME SecretTypes, NEW b \in Browsers, cookies[b] # NoSecret
  PROVE  cookies[b][1] \in Claims /\ cookies[b][2] \in Generations
         /\ cookies[b] = <<cookies[b][1], cookies[b][2]>>
  BY DEF SecretTypes, Secrets

\* What a browser authenticates with is a secret of a session.
LEMMA AuthenticatedSession ==
  ASSUME SessionTypes, SecretTypes, NEW b \in Browsers, NEW states, Authenticates(cookies[b], states)
  PROVE  /\ cookies[b] # NoSecret /\ cookies[b][1] \in Claims /\ cookies[b][2] \in Generations
         /\ Exists(cookies[b][1]) /\ sessions[cookies[b][1]] \in Session
<1>1. cookies[b] # NoSecret /\ Exists(cookies[b][1])
  BY DEF Authenticates, Matches
<1> QED
  BY <1>1, SecretParts DEF SessionTypes, Exists

\* A session belongs to a player that exists.
LEMMA OwnerStands ==
  ASSUME AccountTypes, SessionTypes, Named, AccountNamesOnePlayer, NEW c \in Claims,
         Exists(c) \/ c \in merges
  PROVE  PlayerOf(c) \in players /\ intents[PlayerOf(c)] \in Intent
  BY PlayersAreClaims DEF AccountNamesOnePlayer, Named, AccountTypes

-----------------------------------------------------------------------------
(* Every action preserves the parts: accounts and their names. *)

\* The rows of guests, claims and players.
LEMMA AccountsPreserved ==
  ASSUME AccountTypes, SessionTypes, SecretTypes, ChallengesSigned, Named,
         AccountNamesOnePlayer, [Next]_vars
  PROVE  AccountTypes' /\ ChallengesSigned'
<1> USE DEF AccountTypes, ChallengesSigned
<1>1. ASSUME NEW g \in Guests, GuestPlays(g) PROVE AccountTypes' /\ ChallengesSigned'
  <2>1. \A c \in ClaimsFrom(g) : [intents[c] EXCEPT !.stale = TRUE] \in Intent
    BY DEF ClaimsFrom, Intent
  <2> QED
    BY <1>1, <2>1, IntentsDiffer DEF GuestPlays
<1>2. ASSUME NEW g \in Guests, GuestLeaves(g) PROVE AccountTypes' /\ ChallengesSigned'
  BY <1>2 DEF GuestLeaves, Revoked, Consumed, Removed, Challenge
<1>3. ASSUME NEW c \in Claims, NEW intent \in Intent, IssueClaimChallenge(c, intent)
      PROVE  AccountTypes' /\ ChallengesSigned'
  BY <1>3, IntentsDiffer DEF IssueClaimChallenge, Issue, Challenge, Purposes
<1>4. ASSUME NEW c \in Claims, NEW purpose \in {"recovery", "delete"},
             IssueOpenChallenge(purpose, c)
      PROVE  AccountTypes' /\ ChallengesSigned'
  BY <1>4 DEF IssueOpenChallenge, Issue, Challenge, Purposes
<1>5. ASSUME NEW c \in Claims, NEW purpose \in Purposes, ChallengeExpires(purpose, c)
      PROVE  AccountTypes' /\ ChallengesSigned'
  BY <1>5 DEF ChallengeExpires, Challenge
<1>6. ASSUME NEW b \in Browsers, NEW c \in Claims, Claim(b, c)
      PROVE  AccountTypes' /\ ChallengesSigned'
  <2>1. PlayerOf(c) \in Claims
    BY PlayersAreClaims
  <2>2. /\ guests' \subseteq Guests /\ challenges' \in [Purposes \X Claims -> Challenge]
        /\ \A k \in Purposes \X Claims : challenges'[k] # "none" => challenges[k] # "none"
    BY <1>6 DEF Claim, Valid, Revoked, Consumed, Removed, Challenge
  <2>3. playerRevision' \in [Claims -> Revisions]
    <3>1. CASE intents[c].target = NoClaim
      BY <1>6, <2>1, <3>1, PlayerAccountsAssumption DEF Claim, Revisions
    <3>2. CASE intents[c].target # NoClaim
      <4>1. intents[c].playerRevision \in Revisions /\ intents[c].playerRevision < MaxRevision
        BY <1>6, <3>2 DEF Claim, TargetAdmits, Intent, NoIntent
      <4> QED
        BY <1>6, <2>1, <3>2, <4>1, PlayerAccountsAssumption DEF Claim, Revisions
    <3> QED
      BY <3>1, <3>2
  <2> QED
    BY <1>6, <2>1, <2>2, <2>3 DEF Claim
<1>7. ASSUME NEW b \in Browsers, NEW c \in Claims, Recover(b, c)
      PROVE  AccountTypes' /\ ChallengesSigned'
  BY <1>7 DEF Recover, Valid, Consumed, Challenge, Purposes
<1>8. ASSUME NEW p \in players, DeleteByWallet(p) PROVE AccountTypes' /\ ChallengesSigned'
  <2>1. p \in Claims /\ intents[p] \in Intent
    BY DEF Named
  <2>2. intents[p].account \in Accounts /\ 0 \in Revisions
    BY <2>1, PlayerAccountsAssumption DEF Intent, Revisions
  <2> QED
    BY <1>8, <2>1, <2>2 DEF DeleteByWallet, Deleted, Removed, Challenge
<1>9. ASSUME NEW a \in answers, Receive(a) PROVE AccountTypes' /\ ChallengesSigned'
  BY <1>9 DEF Receive
<1>10. ASSUME NEW a \in answers, Lose(a) PROVE AccountTypes' /\ ChallengesSigned'
  BY <1>10 DEF Lose
<1>11. ASSUME NEW b \in Browsers, PlayerPlays(b) PROVE AccountTypes' /\ ChallengesSigned'
  <2>1. PlayerOf(cookies[b][1]) \in Claims
    BY <1>11, AuthenticatedSession, PlayersAreClaims DEF PlayerPlays
  <2>2. playerRevision[PlayerOf(cookies[b][1])] + 1 \in Revisions
    BY <1>11, <2>1, PlayerAccountsAssumption DEF PlayerPlays, Revisions
  <2> QED
    BY <1>11, <2>1, <2>2 DEF PlayerPlays
<1>12. ASSUME NEW b \in Browsers, Acknowledge(b) PROVE AccountTypes' /\ ChallengesSigned'
  BY <1>12 DEF Acknowledge
<1>13. ASSUME NEW b \in Browsers, Rotate(b) PROVE AccountTypes' /\ ChallengesSigned'
  BY <1>13 DEF Rotate
<1>14. ASSUME NEW b \in Browsers, RotateAgain(b) PROVE AccountTypes' /\ ChallengesSigned'
  BY <1>14 DEF RotateAgain
<1>15. ASSUME NEW b \in Browsers, ResetCookies(b) PROVE AccountTypes' /\ ChallengesSigned'
  BY <1>15 DEF ResetCookies
<1>16. ASSUME NEW b \in Browsers, DeleteBySession(b) PROVE AccountTypes' /\ ChallengesSigned'
  <2> DEFINE p == PlayerOf(cookies[b][1])
  <2>1. p \in Claims /\ intents[p] \in Intent
    BY <1>16, AuthenticatedSession, OwnerStands DEF DeleteBySession
  <2>2. intents[p].account \in Accounts /\ 0 \in Revisions
    BY <2>1, PlayerAccountsAssumption DEF Intent, Revisions
  <2> QED
    BY <1>16, <2>1, <2>2 DEF DeleteBySession, Deleted, Removed, Challenge
<1>17. ASSUME NEW b \in Browsers, PrepareReview(b) PROVE AccountTypes' /\ ChallengesSigned'
  BY <1>17, AuthenticatedSession DEF PrepareReview
<1>18. ASSUME NEW b \in Browsers, NEW answered \in BOOLEAN, Logout(b, answered)
       PROVE  AccountTypes' /\ ChallengesSigned'
  BY <1>18 DEF Logout
<1>19. ASSUME NEW c \in Claims, GraceEnds(c) PROVE AccountTypes' /\ ChallengesSigned'
  BY <1>19 DEF GraceEnds
<1>20. ASSUME NEW c \in Claims, SessionIdles(c) PROVE AccountTypes' /\ ChallengesSigned'
  BY <1>20 DEF SessionIdles
<1>21. ASSUME NEW c \in Claims, ClaimEnds(c) PROVE AccountTypes' /\ ChallengesSigned'
  BY <1>21 DEF ClaimEnds
<1>22. ASSUME NEW c \in Claims, KeyLost(c) PROVE AccountTypes' /\ ChallengesSigned'
  BY <1>22 DEF KeyLost
<1>23. ASSUME NEW account \in Accounts, TombstoneExpires(account)
       PROVE  AccountTypes' /\ ChallengesSigned'
  BY <1>23 DEF TombstoneExpires
<1>24. ASSUME DeleteExpiredSessions PROVE AccountTypes' /\ ChallengesSigned'
  BY <1>24 DEF DeleteExpiredSessions
<1>25. ASSUME DeleteExpiredPredecessors PROVE AccountTypes' /\ ChallengesSigned'
  BY <1>25 DEF DeleteExpiredPredecessors
<1>26. ASSUME DeleteExpiredMerges PROVE AccountTypes' /\ ChallengesSigned'
  BY <1>26 DEF DeleteExpiredMerges, Removed, Challenge
<1>27. ASSUME PurgeUnavailable PROVE AccountTypes' /\ ChallengesSigned'
  BY <1>27 DEF PurgeUnavailable
<1>28. ASSUME UNCHANGED vars PROVE AccountTypes' /\ ChallengesSigned'
  BY <1>28 DEF vars
<1> QED
  BY <1>1, <1>2, <1>3, <1>4, <1>5, <1>6, <1>7, <1>8, <1>9, <1>10, <1>11, <1>12, <1>13, <1>14,
     <1>15, <1>16, <1>17, <1>18, <1>19, <1>20, <1>21, <1>22, <1>23, <1>24, <1>25, <1>26, <1>27,
       <1>28 DEF Next, Retention
-----------------------------------------------------------------------------
(* Sessions. *)

\* Revoked and without a secret.
Bare(session) == session.state = "revoked" /\ session.slots = {}

\* A session by its parts.
LEMMA RowParts ==
  ASSUME SessionsSound, NEW c \in Claims, Exists(c)
  PROVE  RowSound(sessions[c]) /\ (c \notin ended => c \in merges)
  BY DEF SessionsSound

\* A row that is closed is sound, and bare.
LEMMA ClosedSound ==
  ASSUME NEW session, RowSound(session)
  PROVE  RowSound(Closed(session)) /\ Bare(Closed(session)) /\ Closed(session) # NoSession
<1>1. /\ session \in Session /\ session.generation \in Generations
      /\ 1 \in Generations /\ 1 <= session.generation
  BY PlayerAccountsAssumption DEF RowSound, Session, Generations
<1>2. Closed(session) \in Session
  BY <1>1 DEF Closed, Session
<1>3. /\ Closed(session).state = "revoked" /\ Closed(session).slots = {}
          /\ Closed(session).proven = 1
      /\ Closed(session).generation = session.generation
  BY <1>1 DEF Closed, Session
<1> QED
  BY <1>1, <1>2, <1>3 DEF RowSound, Bare, NoSession, Live

\* What a job leaves of a sound row is sound, and bare only under a receipt.
LEMMA SweptSound ==
  ASSUME NEW c \in Claims, NEW kept, NEW session, RowSound(session), Swept(c, session, kept) # NoSession
  PROVE  RowSound(Swept(c, session, kept)) /\ (Bare(Swept(c, session, kept)) => c \in kept)
  BY ClosedSound DEF Swept, Bare

\* All that is to be shown of the rows after a step.
LEMMA RowsSuffice ==
  ASSUME sessions' = [c \in Claims |-> sessions'[c]],
         \A c \in Claims : sessions'[c] # NoSession =>
             /\ RowSound(sessions'[c])
             /\ c \notin ended' => c \in merges'
             /\ Bare(sessions'[c]) => c \in merges'
  PROVE  SessionTypes' /\ SessionsSound' /\ NoSessionForgotten'
  BY DEF SessionTypes, SessionsSound, NoSessionForgotten, Exists, RowSound, Bare

\* One row changes.
LEMMA OneRow ==
  ASSUME SessionTypes, SessionsSound, NoSessionForgotten, NEW c \in Claims, NEW session,
         Exists(c), RowSound(session),
         Bare(session) => c \in merges, sessions' = [sessions EXCEPT ![c] = session],
         merges' = merges, ended \subseteq ended'
  PROVE  SessionTypes' /\ SessionsSound' /\ NoSessionForgotten'
<1>1. sessions' = [d \in Claims |-> sessions'[d]]
  BY DEF SessionTypes
<1>2. ASSUME NEW d \in Claims, sessions'[d] # NoSession
      PROVE  RowSound(sessions'[d]) /\ (d \notin ended' => d \in merges')
             /\ (Bare(sessions'[d]) => d \in merges')
  <2>1. CASE d = c
    BY <2>1, <1>2 DEF SessionTypes, SessionsSound
  <2>2. CASE d # c
    <3>1. sessions'[d] = sessions[d] /\ Exists(d)
      BY <2>2, <1>2 DEF SessionTypes, Exists
    <3> QED
      BY <3>1 DEF SessionsSound, NoSessionForgotten, Bare
  <2> QED
    BY <2>1, <2>2
<1> QED
  BY <1>1, <1>2, RowsSuffice

\* A job that sweeps some of the rows.
LEMMA SweepSound ==
  ASSUME SessionTypes, SessionsSound, NoSessionForgotten, NEW due \in SUBSET Claims, NEW row,
         \A c \in due : Exists(c) /\ RowSound(row[c]), UNCHANGED <<merges, ended>>,
         sessions' = [c \in Claims |-> IF c \in due THEN Swept(c, row[c], merges) ELSE sessions[c]]
  PROVE  SessionTypes' /\ SessionsSound' /\ NoSessionForgotten'
<1>1. ASSUME NEW c \in Claims, sessions'[c] # NoSession
      PROVE  RowSound(sessions'[c]) /\ (c \notin ended' => c \in merges')
             /\ (Bare(sessions'[c]) => c \in merges')
  <2>1. CASE c \in due
    BY <1>1, <2>1, RowParts, SweptSound
  <2>2. CASE c \notin due
    BY <1>1, <2>2 DEF SessionsSound, NoSessionForgotten, Bare, Exists
  <2> QED
    BY <2>1, <2>2
<1> QED
  BY <1>1, RowsSuffice

\* A deletion takes rows away.
LEMMA DeletedSound ==
  ASSUME SessionTypes, SessionsSound, NoSessionForgotten, NEW p, Deleted(p), ended' = ended
  PROVE  SessionTypes' /\ SessionsSound' /\ NoSessionForgotten'
<1>1. /\ sessions' = [c \in Claims |-> IF c \in ClaimsOf(p) THEN NoSession ELSE sessions[c]]
      /\ merges' = merges \ ClaimsOf(p)
  BY DEF Deleted
<1>2. ASSUME NEW c \in Claims, sessions'[c] # NoSession
      PROVE  RowSound(sessions'[c]) /\ (c \notin ended' => c \in merges')
             /\ (Bare(sessions'[c]) => c \in merges')
  BY <1>1, <1>2 DEF SessionsSound, NoSessionForgotten, Bare, Exists
<1> QED
  BY <1>1, <1>2, RowsSuffice

\* The rows of sessions.
LEMMA SessionsPreserved ==
  ASSUME AccountTypes, SessionTypes, SecretTypes, SessionsSound, NoSessionForgotten, [Next]_vars
  PROVE  SessionTypes' /\ SessionsSound' /\ NoSessionForgotten'
<1>1. ASSUME NEW g \in Guests, GuestPlays(g)
      PROVE  SessionTypes' /\ SessionsSound' /\ NoSessionForgotten'
  BY <1>1 DEF GuestPlays, SessionTypes, SessionsSound, NoSessionForgotten, Exists
<1>2. ASSUME NEW g \in Guests, GuestLeaves(g)
      PROVE  SessionTypes' /\ SessionsSound' /\ NoSessionForgotten'
  BY <1>2 DEF GuestLeaves, SessionTypes, SessionsSound, NoSessionForgotten, Exists
<1>3. ASSUME NEW c \in Claims, NEW intent \in Intent, IssueClaimChallenge(c, intent)
      PROVE  SessionTypes' /\ SessionsSound' /\ NoSessionForgotten'
  BY <1>3 DEF IssueClaimChallenge, SessionTypes, SessionsSound, NoSessionForgotten, Exists
<1>4. ASSUME NEW c \in Claims, NEW purpose \in {"recovery", "delete"},
             IssueOpenChallenge(purpose, c)
      PROVE  SessionTypes' /\ SessionsSound' /\ NoSessionForgotten'
  BY <1>4 DEF IssueOpenChallenge, SessionTypes, SessionsSound, NoSessionForgotten, Exists
<1>5. ASSUME NEW c \in Claims, NEW purpose \in Purposes, ChallengeExpires(purpose, c)
      PROVE  SessionTypes' /\ SessionsSound' /\ NoSessionForgotten'
  BY <1>5 DEF ChallengeExpires, SessionTypes, SessionsSound, NoSessionForgotten, Exists
<1>6. ASSUME NEW b \in Browsers, NEW c \in Claims, Claim(b, c)
      PROVE  SessionTypes' /\ SessionsSound' /\ NoSessionForgotten'
  <2> DEFINE row == [state |-> "pending-delivery", generation |-> 1, slots |-> {"current"},
                     grace |-> FALSE, idle |-> FALSE, lost |-> {}, proven |-> 1]
  <2>1. 1 \in Generations
    BY <1>6, SomeDelivery DEF Claim
  <2>2. RowSound(row) /\ ~Bare(row)
    BY <2>1 DEF RowSound, Bare, Session, Live
  <2> HIDE DEF row
  <2>3. sessions' = [sessions EXCEPT ![c] = row] /\ ended' = ended /\ merges' = merges \cup {c}
    BY <1>6 DEF Claim, row
  <2>4. ASSUME NEW d \in Claims, sessions'[d] # NoSession
        PROVE  RowSound(sessions'[d]) /\ (d \notin ended' => d \in merges')
               /\ (Bare(sessions'[d]) => d \in merges')
    BY <2>2, <2>3, <2>4 DEF SessionTypes, SessionsSound, NoSessionForgotten, Bare, Exists
  <2> QED
    BY <2>3, <2>4, RowsSuffice DEF SessionTypes
<1>7. ASSUME NEW b \in Browsers, NEW c \in Claims, Recover(b, c)
      PROVE  SessionTypes' /\ SessionsSound' /\ NoSessionForgotten'
  <2> DEFINE next == sessions[c].generation + 1
             row == [sessions[c] EXCEPT !.generation = next, !.slots = {"current"}, !.grace = FALSE,
                                        !.idle = FALSE, !.lost = {}, !.proven = next]
  <2>1. Exists(c) /\ sessions[c] \in Session /\ sessions[c].state = "pending-delivery"
          /\ next \in Generations
    BY <1>7, DeliveryFits, RowParts DEF Recover, CanRecover, RowSound
  <2>2. row \in Session /\ ~Bare(row)
    BY <2>1 DEF Session, Bare
  <2>3. RowSound(row)
    BY <2>1, <2>2, PlayerAccountsAssumption DEF RowSound, Session, Generations
  <2>4. sessions' = [sessions EXCEPT ![c] = row] /\ UNCHANGED <<merges, ended>>
    BY <1>7 DEF Recover
  <2> HIDE DEF row
  <2> QED
    BY <2>1, <2>2, <2>3, <2>4, OneRow
<1>8. ASSUME NEW p \in players, DeleteByWallet(p)
      PROVE  SessionTypes' /\ SessionsSound' /\ NoSessionForgotten'
  <2> SUFFICES Deleted(p) /\ ended' = ended
    BY DeletedSound
  <2> QED
    BY <1>8 DEF DeleteByWallet
<1>9. ASSUME NEW a \in answers, Receive(a)
      PROVE  SessionTypes' /\ SessionsSound' /\ NoSessionForgotten'
  BY <1>9 DEF Receive, SessionTypes, SessionsSound, NoSessionForgotten, Exists
<1>10. ASSUME NEW a \in answers, Lose(a)
       PROVE  SessionTypes' /\ SessionsSound' /\ NoSessionForgotten'
  BY <1>10 DEF Lose, SessionTypes, SessionsSound, NoSessionForgotten, Exists
<1>11. ASSUME NEW b \in Browsers, PlayerPlays(b)
       PROVE  SessionTypes' /\ SessionsSound' /\ NoSessionForgotten'
  BY <1>11 DEF PlayerPlays, SessionTypes, SessionsSound, NoSessionForgotten, Exists
<1>12. ASSUME NEW b \in Browsers, Acknowledge(b)
       PROVE  SessionTypes' /\ SessionsSound' /\ NoSessionForgotten'
  <2> DEFINE c == cookies[b][1]
             row == [sessions[c] EXCEPT !.state = "active"]
  <2>1. c \in Claims /\ Exists(c) /\ RowSound(sessions[c]) /\ sessions[c].state \in Live
    BY <1>12, AuthenticatedSession, RowParts DEF Acknowledge, Authenticates
  <2>2. RowSound(row) /\ ~Bare(row)
    BY <2>1 DEF RowSound, Bare, Session, Live
  <2>3. sessions' = [sessions EXCEPT ![c] = row] /\ UNCHANGED <<merges, ended>>
    BY <1>12 DEF Acknowledge
  <2> HIDE DEF c, row
  <2> QED
    BY <2>1, <2>2, <2>3, OneRow
<1>13. ASSUME NEW b \in Browsers, Rotate(b)
       PROVE  SessionTypes' /\ SessionsSound' /\ NoSessionForgotten'
  <2> DEFINE c == cookies[b][1]
             row == Rotated(sessions[c])
  <2>1. c \in Claims /\ Exists(c) /\ RowSound(sessions[c]) /\ sessions[c] \in Session
    BY <1>13, AuthenticatedSession, RowParts DEF Rotate
  <2>2. sessions[c].generation + 1 \in Generations
    BY <1>13, <2>1, DeliveryFits DEF Rotate
  <2>3. row \in Session /\ ~Bare(row) /\ row.slots = {"current", "predecessor"}
        /\ row.generation = sessions[c].generation + 1 /\ row.proven = sessions[c].proven
    BY <2>1, <2>2 DEF Rotated, Session, Bare
  <2>4. RowSound(row)
    BY <2>1, <2>2, <2>3, PlayerAccountsAssumption DEF RowSound, Session, Generations
  <2>5. sessions' = [sessions EXCEPT ![c] = row] /\ UNCHANGED <<merges, ended>>
    BY <1>13 DEF Rotate
  <2> HIDE DEF c, row
  <2> QED
    BY <2>1, <2>3, <2>4, <2>5, OneRow
<1>14. ASSUME NEW b \in Browsers, RotateAgain(b)
       PROVE  SessionTypes' /\ SessionsSound' /\ NoSessionForgotten'
  BY <1>14 DEF RotateAgain, SessionTypes, SessionsSound, NoSessionForgotten, Exists
<1>15. ASSUME NEW b \in Browsers, ResetCookies(b)
       PROVE  SessionTypes' /\ SessionsSound' /\ NoSessionForgotten'
  BY <1>15 DEF ResetCookies, SessionTypes, SessionsSound, NoSessionForgotten, Exists
<1>16. ASSUME NEW b \in Browsers, DeleteBySession(b)
       PROVE  SessionTypes' /\ SessionsSound' /\ NoSessionForgotten'
  <2> SUFFICES Deleted(PlayerOf(cookies[b][1])) /\ ended' = ended
    BY DeletedSound
  <2> QED
    BY <1>16 DEF DeleteBySession
<1>17. ASSUME NEW b \in Browsers, PrepareReview(b)
       PROVE  SessionTypes' /\ SessionsSound' /\ NoSessionForgotten'
  BY <1>17 DEF PrepareReview, SessionTypes, SessionsSound, NoSessionForgotten, Exists
<1>18. ASSUME NEW b \in Browsers, NEW answered \in BOOLEAN, Logout(b, answered)
       PROVE  SessionTypes' /\ SessionsSound' /\ NoSessionForgotten'
  <2> DEFINE c == cookies[b][1]
  <2>1. c \in Claims /\ Exists(c) /\ RowSound(sessions[c]) /\ c \in merges
    BY <1>18, AuthenticatedSession, RowParts DEF Logout, Authenticates
  <2>2. RowSound(Closed(sessions[c]))
    BY <2>1, ClosedSound
  <2>3. sessions' = [sessions EXCEPT ![c] = Closed(sessions[c])] /\ UNCHANGED <<merges, ended>>
    BY <1>18 DEF Logout
  <2> HIDE DEF c
  <2> QED
    BY <2>1, <2>2, <2>3, OneRow
<1>19. ASSUME NEW c \in Claims, GraceEnds(c)
       PROVE  SessionTypes' /\ SessionsSound' /\ NoSessionForgotten'
  <2> DEFINE row == [sessions[c] EXCEPT !.grace = FALSE]
  <2>1. Exists(c) /\ RowSound(sessions[c]) /\ (Bare(sessions[c]) => c \in merges)
    BY <1>19, RowParts DEF GraceEnds, Bare, NoSessionForgotten
  <2>2. RowSound(row) /\ (Bare(row) => c \in merges)
    BY <2>1 DEF RowSound, Bare, Session
  <2>3. sessions' = [sessions EXCEPT ![c] = row] /\ UNCHANGED <<merges, ended>>
    BY <1>19 DEF GraceEnds
  <2> HIDE DEF row
  <2> QED
    BY <2>1, <2>2, <2>3, OneRow
<1>20. ASSUME NEW c \in Claims, SessionIdles(c)
       PROVE  SessionTypes' /\ SessionsSound' /\ NoSessionForgotten'
  <2> DEFINE row == [sessions[c] EXCEPT !.idle = TRUE]
  <2>1. Exists(c) /\ RowSound(sessions[c]) /\ (Bare(sessions[c]) => c \in merges)
    BY <1>20, RowParts DEF SessionIdles, Bare, NoSessionForgotten
  <2>2. RowSound(row) /\ (Bare(row) => c \in merges)
    BY <2>1 DEF RowSound, Bare, Session
  <2>3. sessions' = [sessions EXCEPT ![c] = row] /\ UNCHANGED <<merges, ended>>
    BY <1>20 DEF SessionIdles
  <2> HIDE DEF row
  <2> QED
    BY <2>1, <2>2, <2>3, OneRow
<1>21. ASSUME NEW c \in Claims, ClaimEnds(c)
       PROVE  SessionTypes' /\ SessionsSound' /\ NoSessionForgotten'
  BY <1>21 DEF ClaimEnds, SessionTypes, SessionsSound, NoSessionForgotten, Exists
<1>22. ASSUME NEW c \in Claims, KeyLost(c)
       PROVE  SessionTypes' /\ SessionsSound' /\ NoSessionForgotten'
  <2> DEFINE row == [sessions[c] EXCEPT !.lost = {"current"}]
  <2>1. Exists(c) /\ RowSound(sessions[c]) /\ (Bare(sessions[c]) => c \in merges)
    BY <1>22, RowParts DEF KeyLost, Bare, NoSessionForgotten
  <2>2. RowSound(row) /\ (Bare(row) => c \in merges)
    BY <2>1 DEF RowSound, Bare, Session
  <2>3. sessions' = [sessions EXCEPT ![c] = row] /\ UNCHANGED <<merges, ended>>
    BY <1>22 DEF KeyLost
  <2> HIDE DEF row
  <2> QED
    BY <2>1, <2>2, <2>3, OneRow
<1>23. ASSUME NEW account \in Accounts, TombstoneExpires(account)
       PROVE  SessionTypes' /\ SessionsSound' /\ NoSessionForgotten'
  BY <1>23 DEF TombstoneExpires, SessionTypes, SessionsSound, NoSessionForgotten, Exists
<1>24. ASSUME DeleteExpiredSessions PROVE SessionTypes' /\ SessionsSound' /\ NoSessionForgotten'
  <2> DEFINE row == [c \in Claims |-> Closed(sessions[c])]
  <2>1. /\ sessions' = [c \in Claims |-> IF c \in SessionsDue THEN Swept(c, row[c], merges) ELSE sessions[c]]
        /\ UNCHANGED <<merges, ended>>
    BY <1>24 DEF DeleteExpiredSessions
  <2>2. \A c \in SessionsDue : RowSound(row[c])
    BY RowParts, ClosedSound DEF SessionsDue
  <2>3. SessionsDue \subseteq Claims /\ \A c \in SessionsDue : Exists(c)
    BY DEF SessionsDue
  <2> HIDE DEF row
  <2> QED
    BY <2>1, <2>2, <2>3, SweepSound
<1>25. ASSUME DeleteExpiredPredecessors
       PROVE  SessionTypes' /\ SessionsSound' /\ NoSessionForgotten'
  <2> DEFINE row == [c \in Claims |-> [sessions[c] EXCEPT !.slots = @ \ {"predecessor"}]]
  <2>1. /\ sessions' = [c \in Claims |-> IF c \in PredecessorsDue THEN Swept(c, row[c], merges) ELSE sessions[c]]
        /\ UNCHANGED <<merges, ended>>
    BY <1>25 DEF DeleteExpiredPredecessors
  <2>2. ASSUME NEW c \in PredecessorsDue PROVE RowSound(row[c])
    <3>1. c \in Claims /\ RowSound(sessions[c])
      BY RowParts DEF PredecessorsDue
    <3>2. row[c] = [sessions[c] EXCEPT !.slots = @ \ {"predecessor"}]
      BY <3>1
    <3> QED
      BY <3>1, <3>2 DEF RowSound, Session
  <2>3. PredecessorsDue \subseteq Claims /\ \A c \in PredecessorsDue : Exists(c)
    BY DEF PredecessorsDue
  <2> HIDE DEF row
  <2> QED
    BY <2>1, <2>2, <2>3, SweepSound
<1>26. ASSUME DeleteExpiredMerges PROVE SessionTypes' /\ SessionsSound' /\ NoSessionForgotten'
  <2> DEFINE due == merges \cap ended
  <2>1. /\ sessions' = [c \in Claims |-> IF c \in due /\ Exists(c) THEN Swept(c, sessions[c], merges')
                                         ELSE sessions[c]]
        /\ merges' = merges \ due /\ ended' = ended
    BY <1>26 DEF DeleteExpiredMerges
  <2>2. ASSUME NEW c \in Claims, sessions'[c] # NoSession
        PROVE  RowSound(sessions'[c]) /\ (c \notin ended' => c \in merges')
               /\ (Bare(sessions'[c]) => c \in merges')
    <3>1. CASE c \in due /\ Exists(c)
      BY <2>1, <2>2, <3>1, RowParts, SweptSound
    <3>2. CASE ~(c \in due /\ Exists(c))
      BY <2>1, <2>2, <3>2 DEF SessionsSound, NoSessionForgotten, Bare, Exists
    <3> QED
      BY <3>1, <3>2
  <2> QED
    BY <2>1, <2>2, RowsSuffice
<1>27. ASSUME PurgeUnavailable PROVE SessionTypes' /\ SessionsSound' /\ NoSessionForgotten'
  <2> DEFINE row == [c \in Claims |-> [sessions[c] EXCEPT !.slots = @ \ {"current"}, !.lost = {}, !.state = "revoked"]]
             due == {c \in Claims : Exists(c) /\ sessions[c].lost # {}}
  <2>1. /\ sessions' = [c \in Claims |-> IF c \in due THEN Swept(c, row[c], merges) ELSE sessions[c]]
        /\ UNCHANGED <<merges, ended>>
    BY <1>27 DEF PurgeUnavailable
  <2>2. ASSUME NEW c \in due PROVE RowSound(row[c])
    <3>1. RowSound(sessions[c])
      BY RowParts
    <3> QED
      BY <3>1 DEF RowSound, Session, Live
  <2>3. due \subseteq Claims /\ \A c \in due : Exists(c)
    OBVIOUS
  <2> HIDE DEF row, due
  <2> QED
    BY <2>1, <2>2, <2>3, SweepSound
<1>28. ASSUME UNCHANGED vars PROVE SessionTypes' /\ SessionsSound' /\ NoSessionForgotten'
  BY <1>28 DEF vars, SessionTypes, SessionsSound, NoSessionForgotten, Exists
<1> QED
  BY <1>1, <1>2, <1>3, <1>4, <1>5, <1>6, <1>7, <1>8, <1>9, <1>10, <1>11, <1>12, <1>13, <1>14,
     <1>15, <1>16, <1>17, <1>18, <1>19, <1>20, <1>21, <1>22, <1>23, <1>24, <1>25, <1>26, <1>27,
       <1>28 DEF Next, Retention
-----------------------------------------------------------------------------
(* Secrets and names. *)

\* Cookies and answers carry secrets that were issued.
LEMMA SecretsPreserved ==
  ASSUME SessionTypes, SecretTypes, [Next]_vars
  PROVE  SecretTypes'
<1> USE DEF SecretTypes
<1>1. ASSUME NEW g \in Guests, GuestPlays(g) PROVE SecretTypes'
  BY <1>1 DEF GuestPlays
<1>2. ASSUME NEW g \in Guests, GuestLeaves(g) PROVE SecretTypes'
  BY <1>2 DEF GuestLeaves
<1>3. ASSUME NEW c \in Claims, NEW intent \in Intent, IssueClaimChallenge(c, intent)
      PROVE  SecretTypes'
  BY <1>3 DEF IssueClaimChallenge
<1>4. ASSUME NEW c \in Claims, NEW purpose \in {"recovery", "delete"},
             IssueOpenChallenge(purpose, c)
      PROVE  SecretTypes'
  BY <1>4 DEF IssueOpenChallenge
<1>5. ASSUME NEW c \in Claims, NEW purpose \in Purposes, ChallengeExpires(purpose, c)
      PROVE  SecretTypes'
  BY <1>5 DEF ChallengeExpires
<1>6. ASSUME NEW b \in Browsers, NEW c \in Claims, Claim(b, c) PROVE SecretTypes'
  <2>1. <<c, 1>> \in Secrets
    BY <1>6, SomeDelivery DEF Claim, Secrets
  <2> QED
    BY <1>6, <2>1 DEF Claim
<1>7. ASSUME NEW b \in Browsers, NEW c \in Claims, Recover(b, c) PROVE SecretTypes'
  <2>1. <<c, sessions[c].generation + 1>> \in Secrets
    BY <1>7, DeliveryFits DEF Recover, CanRecover, Secrets
  <2> QED
    BY <1>7, <2>1 DEF Recover
<1>8. ASSUME NEW p \in players, DeleteByWallet(p) PROVE SecretTypes'
  BY <1>8 DEF DeleteByWallet
<1>9. ASSUME NEW a \in answers, Receive(a) PROVE SecretTypes'
  BY <1>9 DEF Receive
<1>10. ASSUME NEW a \in answers, Lose(a) PROVE SecretTypes'
  BY <1>10 DEF Lose
<1>11. ASSUME NEW b \in Browsers, PlayerPlays(b) PROVE SecretTypes'
  BY <1>11 DEF PlayerPlays
<1>12. ASSUME NEW b \in Browsers, Acknowledge(b) PROVE SecretTypes'
  BY <1>12 DEF Acknowledge
<1>13. ASSUME NEW b \in Browsers, Rotate(b) PROVE SecretTypes'
  <2> DEFINE c == cookies[b][1]
  <2>1. c \in Claims /\ Exists(c)
    BY <1>13, AuthenticatedSession DEF Rotate
  <2>2. <<c, sessions[c].generation + 1>> \in Secrets
    BY <1>13, <2>1, DeliveryFits DEF Rotate, Secrets
  <2> QED
    BY <1>13, <2>2 DEF Rotate
<1>14. ASSUME NEW b \in Browsers, RotateAgain(b) PROVE SecretTypes'
  <2> DEFINE c == cookies[b][1]
  <2>1. c \in Claims /\ sessions[c] \in Session
    BY <1>14, AuthenticatedSession DEF RotateAgain
  <2>2. <<c, sessions[c].generation>> \in Secrets
    BY <2>1 DEF Session, Secrets
  <2> QED
    BY <1>14, <2>2 DEF RotateAgain
<1>15. ASSUME NEW b \in Browsers, ResetCookies(b) PROVE SecretTypes'
  BY <1>15 DEF ResetCookies
<1>16. ASSUME NEW b \in Browsers, DeleteBySession(b) PROVE SecretTypes'
  BY <1>16 DEF DeleteBySession
<1>17. ASSUME NEW b \in Browsers, PrepareReview(b) PROVE SecretTypes'
  BY <1>17 DEF PrepareReview
<1>18. ASSUME NEW b \in Browsers, NEW answered \in BOOLEAN, Logout(b, answered) PROVE SecretTypes'
  BY <1>18 DEF Logout
<1>19. ASSUME NEW c \in Claims, GraceEnds(c) PROVE SecretTypes'
  BY <1>19 DEF GraceEnds
<1>20. ASSUME NEW c \in Claims, SessionIdles(c) PROVE SecretTypes'
  BY <1>20 DEF SessionIdles
<1>21. ASSUME NEW c \in Claims, ClaimEnds(c) PROVE SecretTypes'
  BY <1>21 DEF ClaimEnds
<1>22. ASSUME NEW c \in Claims, KeyLost(c) PROVE SecretTypes'
  BY <1>22 DEF KeyLost
<1>23. ASSUME NEW account \in Accounts, TombstoneExpires(account) PROVE SecretTypes'
  BY <1>23 DEF TombstoneExpires
<1>24. ASSUME DeleteExpiredSessions PROVE SecretTypes'
  BY <1>24 DEF DeleteExpiredSessions
<1>25. ASSUME DeleteExpiredPredecessors PROVE SecretTypes'
  BY <1>25 DEF DeleteExpiredPredecessors
<1>26. ASSUME DeleteExpiredMerges PROVE SecretTypes'
  BY <1>26 DEF DeleteExpiredMerges
<1>27. ASSUME PurgeUnavailable PROVE SecretTypes'
  BY <1>27 DEF PurgeUnavailable
<1>28. ASSUME UNCHANGED vars PROVE SecretTypes'
  BY <1>28 DEF vars
<1> QED
  BY <1>1, <1>2, <1>3, <1>4, <1>5, <1>6, <1>7, <1>8, <1>9, <1>10, <1>11, <1>12, <1>13, <1>14,
     <1>15, <1>16, <1>17, <1>18, <1>19, <1>20, <1>21, <1>22, <1>23, <1>24, <1>25, <1>26, <1>27,
       <1>28 DEF Next, Retention

\* Rows that go, and a session that changes, leave the names as they are.
LEMMA NamesKept ==
  ASSUME Named, AccountNamesOnePlayer, UNCHANGED <<intents, players>>, merges' \subseteq merges,
         \A c \in Claims : sessions'[c] # NoSession => Exists(c)
  PROVE  Named' /\ AccountNamesOnePlayer'
  BY DEF Named, AccountNamesOnePlayer, PlayerOf, WalletOf, Exists

\* A deletion takes all claims of its player along.
LEMMA DeletedNames ==
  ASSUME Named, AccountNamesOnePlayer, NEW p, Deleted(p), intents' = intents
  PROVE  Named' /\ AccountNamesOnePlayer'
<1>1. \A c \in Claims : sessions'[c] # NoSession \/ c \in merges' =>
          c \notin ClaimsOf(p) /\ (Exists(c) \/ c \in merges)
  BY DEF Deleted, Exists
<1>2. \A c \in Claims : sessions'[c] # NoSession \/ c \in merges' => PlayerOf(c) # p
  BY <1>1 DEF Named, ClaimsOf
<1> QED
  BY <1>1, <1>2 DEF Deleted, Named, AccountNamesOnePlayer, PlayerOf, Exists

\* Accounts name players.
LEMMA NamesPreserved ==
  ASSUME AccountTypes, SessionTypes, SecretTypes, ChallengesSigned, Named,
         AccountNamesOnePlayer, [Next]_vars
  PROVE  Named' /\ AccountNamesOnePlayer'
<1>1. ASSUME NEW g \in Guests, GuestPlays(g) PROVE Named' /\ AccountNamesOnePlayer'
  <2>1. \A c \in Claims : /\ intents[c] # NoIntent => intents'[c] # NoIntent
                          /\ intents'[c].target = intents[c].target
                          /\ intents[c] # NoIntent => intents'[c].account = intents[c].account
    BY <1>1, IntentsDiffer DEF GuestPlays, AccountTypes, ClaimsFrom, Intent
  <2> QED
    BY <1>1, <2>1, OwnerStands DEF GuestPlays, AccountTypes, Named, AccountNamesOnePlayer,
       PlayerOf, Exists
<1>2. ASSUME NEW g \in Guests, GuestLeaves(g) PROVE Named' /\ AccountNamesOnePlayer'
  BY <1>2, NamesKept DEF GuestLeaves, Exists
<1>3. ASSUME NEW c \in Claims, NEW intent \in Intent, IssueClaimChallenge(c, intent)
      PROVE  Named' /\ AccountNamesOnePlayer'
  <2>1. intents[c] = NoIntent => ~Exists(c) /\ c \notin merges /\ c \notin players
    BY DEF Named
  <2>2. intents' = [intents EXCEPT ![c] = intent] /\ intents[c] \in {NoIntent, intent}
          /\ intent # NoIntent
    BY <1>3, IntentsDiffer DEF IssueClaimChallenge
  <2> QED
    BY <1>3, <2>1, <2>2, OwnerStands DEF IssueClaimChallenge, AccountTypes, Named,
       AccountNamesOnePlayer, PlayerOf, Exists
<1>4. ASSUME NEW c \in Claims, NEW purpose \in {"recovery", "delete"},
             IssueOpenChallenge(purpose, c)
      PROVE  Named' /\ AccountNamesOnePlayer'
  BY <1>4, NamesKept DEF IssueOpenChallenge, Exists
<1>5. ASSUME NEW c \in Claims, NEW purpose \in Purposes, ChallengeExpires(purpose, c)
      PROVE  Named' /\ AccountNamesOnePlayer'
  BY <1>5, NamesKept DEF ChallengeExpires, Exists
<1>6. ASSUME NEW b \in Browsers, NEW c \in Claims, Claim(b, c)
      PROVE  Named' /\ AccountNamesOnePlayer'
  <2>1. intents[c] \in Intent /\ <<"claim", c>> \in Purposes \X Claims
    BY <1>6 DEF Claim, Valid, ChallengesSigned, AccountTypes, Purposes
  <2>2. /\ players' = players \cup {PlayerOf(c)} /\ merges' = merges \cup {c}
            /\ intents' = intents
        /\ \A d \in Claims \ {c} : sessions'[d] = sessions[d]
    BY <1>6 DEF Claim, SessionTypes
  <2>3. PlayerOf(c) \in Claims /\ intents[PlayerOf(c)] # NoIntent
        /\ intents[PlayerOf(c)].account = intents[c].account
    <3>1. CASE intents[c].target = NoClaim
      BY <2>1, <3>1, IntentsDiffer DEF PlayerOf
    <3>2. CASE intents[c].target # NoClaim
      BY <1>6, <3>2, PlayersAreClaims DEF Claim, TargetAdmits, PlayerOf, Named
    <3> QED
      BY <3>1, <3>2
  <2>4. \A q \in players : intents[q].account = intents[c].account => q = PlayerOf(c)
    <3>1. CASE intents[c].target = NoClaim
      BY <1>6, <3>1 DEF Claim, CreateAdmits, WalletOf
    <3>2. CASE intents[c].target # NoClaim
      BY <1>6, <3>2 DEF Claim, TargetAdmits, PlayerOf, AccountNamesOnePlayer
    <3> QED
      BY <3>1, <3>2
  <2>5. Named'
    BY <2>1, <2>2, <2>3, IntentsDiffer DEF Named, Exists
  <2>6. AccountNamesOnePlayer'
    <3>1. \A p, q \in players' : intents'[p].account = intents'[q].account => p = q
      BY <2>2, <2>3, <2>4 DEF AccountNamesOnePlayer
    <3>2. ASSUME NEW d \in Claims, sessions'[d] # NoSession \/ d \in merges'
          PROVE  PlayerOf(d) \in players' /\ intents[PlayerOf(d)].account = intents[d].account
      BY <2>2, <2>3, <3>2 DEF AccountNamesOnePlayer, Exists
    <3> QED
      BY <2>2, <3>1, <3>2 DEF AccountNamesOnePlayer, PlayerOf, Exists
  <2> QED
    BY <2>5, <2>6
<1>7. ASSUME NEW b \in Browsers, NEW c \in Claims, Recover(b, c)
      PROVE  Named' /\ AccountNamesOnePlayer'
  BY <1>7, NamesKept DEF Recover, CanRecover, SessionTypes, Exists
<1>8. ASSUME NEW p \in players, DeleteByWallet(p) PROVE Named' /\ AccountNamesOnePlayer'
  BY <1>8, DeletedNames DEF DeleteByWallet
<1>9. ASSUME NEW a \in answers, Receive(a) PROVE Named' /\ AccountNamesOnePlayer'
  BY <1>9, NamesKept DEF Receive, Exists
<1>10. ASSUME NEW a \in answers, Lose(a) PROVE Named' /\ AccountNamesOnePlayer'
  BY <1>10, NamesKept DEF Lose, Exists
<1>11. ASSUME NEW b \in Browsers, PlayerPlays(b) PROVE Named' /\ AccountNamesOnePlayer'
  BY <1>11, NamesKept DEF PlayerPlays, Exists
<1>12. ASSUME NEW b \in Browsers, Acknowledge(b) PROVE Named' /\ AccountNamesOnePlayer'
  BY <1>12, NamesKept, AuthenticatedSession DEF Acknowledge, SessionTypes, Exists
<1>13. ASSUME NEW b \in Browsers, Rotate(b) PROVE Named' /\ AccountNamesOnePlayer'
  BY <1>13, NamesKept, AuthenticatedSession DEF Rotate, SessionTypes, Exists
<1>14. ASSUME NEW b \in Browsers, RotateAgain(b) PROVE Named' /\ AccountNamesOnePlayer'
  BY <1>14, NamesKept DEF RotateAgain, Exists
<1>15. ASSUME NEW b \in Browsers, ResetCookies(b) PROVE Named' /\ AccountNamesOnePlayer'
  BY <1>15, NamesKept DEF ResetCookies, Exists
<1>16. ASSUME NEW b \in Browsers, DeleteBySession(b) PROVE Named' /\ AccountNamesOnePlayer'
  BY <1>16, DeletedNames DEF DeleteBySession
<1>17. ASSUME NEW b \in Browsers, PrepareReview(b) PROVE Named' /\ AccountNamesOnePlayer'
  BY <1>17, NamesKept DEF PrepareReview, Exists
<1>18. ASSUME NEW b \in Browsers, NEW answered \in BOOLEAN, Logout(b, answered)
       PROVE  Named' /\ AccountNamesOnePlayer'
  BY <1>18, NamesKept, AuthenticatedSession DEF Logout, SessionTypes, Exists
<1>19. ASSUME NEW c \in Claims, GraceEnds(c) PROVE Named' /\ AccountNamesOnePlayer'
  BY <1>19, NamesKept DEF GraceEnds, SessionTypes, Exists
<1>20. ASSUME NEW c \in Claims, SessionIdles(c) PROVE Named' /\ AccountNamesOnePlayer'
  BY <1>20, NamesKept DEF SessionIdles, SessionTypes, Exists
<1>21. ASSUME NEW c \in Claims, ClaimEnds(c) PROVE Named' /\ AccountNamesOnePlayer'
  BY <1>21, NamesKept DEF ClaimEnds, Exists
<1>22. ASSUME NEW c \in Claims, KeyLost(c) PROVE Named' /\ AccountNamesOnePlayer'
  BY <1>22, NamesKept DEF KeyLost, SessionTypes, Exists
<1>23. ASSUME NEW account \in Accounts, TombstoneExpires(account)
       PROVE  Named' /\ AccountNamesOnePlayer'
  BY <1>23, NamesKept DEF TombstoneExpires, Exists
<1>24. ASSUME DeleteExpiredSessions PROVE Named' /\ AccountNamesOnePlayer'
  BY <1>24, NamesKept DEF DeleteExpiredSessions, SessionsDue, Exists
<1>25. ASSUME DeleteExpiredPredecessors PROVE Named' /\ AccountNamesOnePlayer'
  BY <1>25, NamesKept DEF DeleteExpiredPredecessors, PredecessorsDue, Exists
<1>26. ASSUME DeleteExpiredMerges PROVE Named' /\ AccountNamesOnePlayer'
  BY <1>26, NamesKept DEF DeleteExpiredMerges, Exists
<1>27. ASSUME PurgeUnavailable PROVE Named' /\ AccountNamesOnePlayer'
  BY <1>27, NamesKept DEF PurgeUnavailable, Exists
<1>28. ASSUME UNCHANGED vars PROVE Named' /\ AccountNamesOnePlayer'
  BY <1>28, NamesKept DEF vars, Exists
<1> QED
  BY <1>1, <1>2, <1>3, <1>4, <1>5, <1>6, <1>7, <1>8, <1>9, <1>10, <1>11, <1>12, <1>13, <1>14,
     <1>15, <1>16, <1>17, <1>18, <1>19, <1>20, <1>21, <1>22, <1>23, <1>24, <1>25, <1>26, <1>27,
       <1>28 DEF Next, Retention
-----------------------------------------------------------------------------
(* A claim happens once. *)

\* A claim that is spent stays so.
LEMMA SpentStays ==
  ASSUME AccountTypes, ClaimedOnce, guests' \subseteq guests,
         \A c \in Claims : intents[c] # NoIntent =>
             intents'[c] # NoIntent /\ intents'[c].guest = intents[c].guest,
         \A c \in Claims : sessions'[c] # NoSession => Exists(c),
         SecretTypes,
         \A b \in Browsers : cookies'[b] = cookies[b] \/ cookies'[b] = NoSecret,
         answers' \subseteq answers
  PROVE  ClaimedOnce'
<1>1. \A c \in Claims : Spent(c) => Spent(c)'
  BY DEF Spent
<1> QED
  BY <1>1, SecretParts DEF ClaimedOnce, Exists, SecretTypes, Secrets

\* What one guest claimed is not claimed again.
LEMMA ClaimsPreserved ==
  ASSUME AccountTypes, SessionTypes, SecretTypes, ChallengesSigned, ClaimedOnce, [Next]_vars
  PROVE  ClaimedOnce'
<1>1. ASSUME NEW g \in Guests, GuestPlays(g) PROVE ClaimedOnce'
  <2>1. \A c \in Claims : intents[c] # NoIntent =>
            intents'[c] # NoIntent /\ intents'[c].guest = intents[c].guest
    BY <1>1, IntentsDiffer DEF GuestPlays, AccountTypes, ClaimsFrom, Intent
  <2> QED
    BY <1>1, <2>1, SpentStays DEF GuestPlays, Exists
<1>2. ASSUME NEW g \in Guests, GuestLeaves(g) PROVE ClaimedOnce'
  BY <1>2, SpentStays DEF GuestLeaves, Revoked, Exists
<1>3. ASSUME NEW c \in Claims, NEW intent \in Intent, IssueClaimChallenge(c, intent)
      PROVE  ClaimedOnce'
  <2>1. \A d \in Claims : intents[d] # NoIntent => intents'[d] = intents[d]
    BY <1>3 DEF IssueClaimChallenge, AccountTypes
  <2> QED
    BY <1>3, <2>1, SpentStays DEF IssueClaimChallenge, Exists
<1>4. ASSUME NEW c \in Claims, NEW purpose \in {"recovery", "delete"},
             IssueOpenChallenge(purpose, c)
      PROVE  ClaimedOnce'
  BY <1>4, SpentStays DEF IssueOpenChallenge, Exists
<1>5. ASSUME NEW c \in Claims, NEW purpose \in Purposes, ChallengeExpires(purpose, c)
      PROVE  ClaimedOnce'
  BY <1>5, SpentStays DEF ChallengeExpires, Exists
<1>6. ASSUME NEW b \in Browsers, NEW c \in Claims, Claim(b, c) PROVE ClaimedOnce'
  <2>1. intents[c] # NoIntent /\ guests' = guests \ {intents[c].guest} /\ intents' = intents
    BY <1>6 DEF Claim, Revoked, Valid, ChallengesSigned, Purposes
  <2>2. Spent(c)' /\ \A d \in Claims : Spent(d) => Spent(d)'
    BY <2>1 DEF Spent
  <2>3. /\ cookies' = cookies /\ answers' = answers \cup {<<b, <<c, 1>>>>}
        /\ \A d \in Claims \ {c} : sessions'[d] = sessions[d]
    BY <1>6 DEF Claim, SessionTypes
  <2> QED
    BY <2>2, <2>3, SecretParts DEF ClaimedOnce, Exists, SecretTypes, Secrets
<1>7. ASSUME NEW b \in Browsers, NEW c \in Claims, Recover(b, c) PROVE ClaimedOnce'
  <2>1. \A d \in Claims : Spent(d) => Spent(d)'
    BY <1>7 DEF Recover, Spent
  <2>2. Exists(c) /\ \A d \in Claims : sessions'[d] # NoSession => Exists(d)
    BY <1>7 DEF Recover, CanRecover, SessionTypes, Exists
  <2>3. cookies' = cookies /\ \A a \in answers' \ answers : a[2][1] = c
    BY <1>7 DEF Recover
  <2> QED
    BY <2>1, <2>2, <2>3, SecretParts DEF ClaimedOnce, Exists, SecretTypes, Secrets
<1>8. ASSUME NEW p \in players, DeleteByWallet(p) PROVE ClaimedOnce'
  BY <1>8, SpentStays DEF DeleteByWallet, Deleted, Exists
<1>9. ASSUME NEW a \in answers, Receive(a) PROVE ClaimedOnce'
  <2>1. \A d \in Claims : Spent(d) => Spent(d)'
    BY <1>9 DEF Receive, Spent
  <2> QED
    BY <1>9, <2>1 DEF Receive, ClaimedOnce, Exists, SecretTypes, Secrets
<1>10. ASSUME NEW a \in answers, Lose(a) PROVE ClaimedOnce'
  BY <1>10, SpentStays DEF Lose, Exists
<1>11. ASSUME NEW b \in Browsers, PlayerPlays(b) PROVE ClaimedOnce'
  BY <1>11, SpentStays DEF PlayerPlays, Exists
<1>12. ASSUME NEW b \in Browsers, Acknowledge(b) PROVE ClaimedOnce'
  BY <1>12, SpentStays, AuthenticatedSession DEF Acknowledge, SessionTypes, Exists
<1>13. ASSUME NEW b \in Browsers, Rotate(b) PROVE ClaimedOnce'
  <2>1. \A d \in Claims : Spent(d) => Spent(d)'
    BY <1>13 DEF Rotate, Spent
  <2>2. cookies[b][1] \in Claims /\ Exists(cookies[b][1])
          /\ \A d \in Claims : sessions'[d] # NoSession => Exists(d)
    BY <1>13, AuthenticatedSession DEF Rotate, SessionTypes, Exists
  <2>3. cookies' = cookies /\ \A a \in answers' \ answers : a[2][1] = cookies[b][1]
    BY <1>13 DEF Rotate
  <2> QED
    BY <2>1, <2>2, <2>3, SecretParts DEF ClaimedOnce, Exists, SecretTypes, Secrets
<1>14. ASSUME NEW b \in Browsers, RotateAgain(b) PROVE ClaimedOnce'
  <2>1. \A d \in Claims : Spent(d) => Spent(d)'
    BY <1>14 DEF RotateAgain, Spent
  <2>2. cookies[b][1] \in Claims /\ Exists(cookies[b][1]) /\ sessions' = sessions
    BY <1>14, AuthenticatedSession DEF RotateAgain
  <2>3. cookies' = cookies /\ \A a \in answers' \ answers : a[2][1] = cookies[b][1]
    BY <1>14 DEF RotateAgain
  <2> QED
    BY <2>1, <2>2, <2>3, SecretParts DEF ClaimedOnce, Exists, SecretTypes, Secrets
<1>15. ASSUME NEW b \in Browsers, ResetCookies(b) PROVE ClaimedOnce'
  BY <1>15, SpentStays DEF ResetCookies, Exists, SecretTypes
<1>16. ASSUME NEW b \in Browsers, DeleteBySession(b) PROVE ClaimedOnce'
  BY <1>16, SpentStays DEF DeleteBySession, Deleted, Exists
<1>17. ASSUME NEW b \in Browsers, PrepareReview(b) PROVE ClaimedOnce'
  BY <1>17, SpentStays DEF PrepareReview, Exists
<1>18. ASSUME NEW b \in Browsers, NEW answered \in BOOLEAN, Logout(b, answered) PROVE ClaimedOnce'
  BY <1>18, SpentStays, AuthenticatedSession DEF Logout, SessionTypes, Exists, SecretTypes
<1>19. ASSUME NEW c \in Claims, GraceEnds(c) PROVE ClaimedOnce'
  BY <1>19, SpentStays DEF GraceEnds, SessionTypes, Exists
<1>20. ASSUME NEW c \in Claims, SessionIdles(c) PROVE ClaimedOnce'
  BY <1>20, SpentStays DEF SessionIdles, SessionTypes, Exists
<1>21. ASSUME NEW c \in Claims, ClaimEnds(c) PROVE ClaimedOnce'
  BY <1>21, SpentStays DEF ClaimEnds, Exists
<1>22. ASSUME NEW c \in Claims, KeyLost(c) PROVE ClaimedOnce'
  BY <1>22, SpentStays DEF KeyLost, SessionTypes, Exists
<1>23. ASSUME NEW account \in Accounts, TombstoneExpires(account) PROVE ClaimedOnce'
  BY <1>23, SpentStays DEF TombstoneExpires, Exists
<1>24. ASSUME DeleteExpiredSessions PROVE ClaimedOnce'
  BY <1>24, SpentStays DEF DeleteExpiredSessions, SessionsDue, Exists
<1>25. ASSUME DeleteExpiredPredecessors PROVE ClaimedOnce'
  BY <1>25, SpentStays DEF DeleteExpiredPredecessors, PredecessorsDue, Exists
<1>26. ASSUME DeleteExpiredMerges PROVE ClaimedOnce'
  BY <1>26, SpentStays DEF DeleteExpiredMerges, Exists
<1>27. ASSUME PurgeUnavailable PROVE ClaimedOnce'
  BY <1>27, SpentStays DEF PurgeUnavailable, Exists
<1>28. ASSUME UNCHANGED vars PROVE ClaimedOnce'
  BY <1>28, SpentStays DEF vars, Exists
<1> QED
  BY <1>1, <1>2, <1>3, <1>4, <1>5, <1>6, <1>7, <1>8, <1>9, <1>10, <1>11, <1>12, <1>13, <1>14,
     <1>15, <1>16, <1>17, <1>18, <1>19, <1>20, <1>21, <1>22, <1>23, <1>24, <1>25, <1>26, <1>27,
       <1>28 DEF Next, Retention
-----------------------------------------------------------------------------
(* Where secrets are. *)

\* A row that a job swept and that is in use is as it was given to the job.
LEMMA SweptLive ==
  ASSUME NEW c, NEW kept, NEW session \in Session, Swept(c, session, kept) # NoSession,
         Swept(c, session, kept).state \in Live
  PROVE  Swept(c, session, kept) = session /\ session.state \in Live
<1>1. Closed(session).state = "revoked"
  BY DEF Closed, Session
<1> QED
  BY <1>1 DEF Swept, Live

\* Secrets of a claim that only go, under a row that stays in use as it is.
LEMMA DeliveredStep ==
  ASSUME NEW c \in Claims, DeliveredOf(c),
         sessions'[c].state = sessions[c].state, sessions'[c].generation = sessions[c].generation,
         sessions'[c].proven = sessions[c].proven,
         \A b \in Browsers, n \in Generations : cookies'[b] = <<c, n>> => cookies[b] = <<c, n>>,
         \A b \in Browsers, n \in Generations : <<b, <<c, n>>>> \in answers' =>
           <<b, <<c, n>>>> \in answers
  PROVE  DeliveredOf(c)'
<1>1. \A b \in Browsers, n \in Generations : HeldBy(b, c, n)' => HeldBy(b, c, n)
  BY DEF HeldBy
<1>2. \A n \in Generations : Recent(c, n)' <=> Recent(c, n)
  BY DEF Recent
<1> QED
  BY <1>1, <1>2 DEF DeliveredOf

\* Nothing is told, and the rows in use stay as they are.
LEMMA DeliveredKept ==
  ASSUME SecretTypes, Delivered, answers' \subseteq answers,
         \A b \in Browsers : cookies'[b] = cookies[b] \/ cookies'[b] = NoSecret,
         \A c \in Claims : sessions'[c] # NoSession /\ sessions'[c].state \in Live =>
             /\ Exists(c)
             /\ sessions'[c].state = sessions[c].state
             /\ sessions'[c].generation = sessions[c].generation
             /\ sessions'[c].proven = sessions[c].proven
  PROVE  Delivered'
<1> SUFFICES ASSUME NEW c \in Claims, InUse(c)' PROVE DeliveredOf(c)'
  BY DEF Delivered
<1>1. InUse(c) /\ DeliveredOf(c)
  BY DEF Delivered, InUse, Exists
<1>2. \A b \in Browsers, n \in Generations : cookies'[b] = <<c, n>> => cookies[b] = <<c, n>>
  BY SecretsDiffer DEF Secrets
<1> QED
  BY <1>1, <1>2, DeliveredStep DEF InUse, Exists

\* A claim nobody has heard of yet.
LEMMA DeliveredClaim ==
  ASSUME SessionTypes, SecretTypes, Delivered, ClaimedOnce, NEW b \in Browsers,
         NEW c \in Claims, Claim(b, c)
  PROVE  Delivered'
<1>1. ~Spent(c) /\ cookies[b] = NoSecret /\ cookies' = cookies
        /\ answers' = answers \cup {<<b, <<c, 1>>>>}
  BY DEF Claim, GuestAuthentic, Spent
<1>2. \A d \in Browsers, n \in Generations : cookies[d] # <<c, n>>
        /\ <<d, <<c, n>>>> \notin answers
  BY <1>1, SecretsDiffer, SomeDelivery DEF ClaimedOnce, Secrets
<1>3. /\ sessions'[c].state = "pending-delivery" /\ sessions'[c].generation = 1
          /\ sessions'[c].proven = 1
      /\ \A d \in Claims \ {c} : sessions'[d] = sessions[d]
  BY DEF Claim, SessionTypes
<1> SUFFICES ASSUME NEW d \in Claims, InUse(d)' PROVE DeliveredOf(d)'
  BY DEF Delivered
<1>4. CASE d = c
  <2>1. \A e \in Browsers, n \in Generations : HeldBy(e, c, n)' => e = b
    BY <1>1, <1>2 DEF HeldBy
  <2> QED
    BY <1>1, <1>2, <1>3, <1>4, <2>1 DEF DeliveredOf
<1>5. CASE d # c
  <2>1. InUse(d) /\ DeliveredOf(d)
    BY <1>3, <1>5 DEF Delivered, InUse, Exists
  <2> QED
    BY <1>1, <1>3, <1>5, <2>1, DeliveredStep
<1> QED
  BY <1>4, <1>5

\* A secret that is newer than all there are, for one browser.
LEMMA DeliveredRecover ==
  ASSUME SessionTypes, SecretTypes, SessionsSound, Delivered, NEW b \in Browsers,
         NEW c \in Claims, Recover(b, c)
  PROVE  Delivered'
<1> DEFINE next == sessions[c].generation + 1
<1>1. /\ Exists(c) /\ InUse(c) /\ DeliveredOf(c) /\ RowSound(sessions[c])
      /\ next \in Generations /\ sessions[c].generation \in Generations
          /\ sessions[c].proven \in Generations
  BY DeliveryFits DEF Recover, CanRecover, Delivered, SessionsSound, RowSound, InUse, Live,
     Session
<1>2. cookies[b] = NoSecret /\ cookies' = cookies /\ answers' = answers \cup {<<b, <<c, next>>>>}
  BY DEF Recover
<1>3. \A d \in Browsers, n \in Generations :
          cookies[d] = <<c, n>> \/ <<d, <<c, n>>>> \in answers => n < next
  <2> SUFFICES ASSUME NEW d \in Browsers, NEW n \in Generations, n >= next,
                      cookies[d] = <<c, n>> \/ <<d, <<c, n>>>> \in answers
               PROVE  FALSE
    BY <1>1, PlayerAccountsAssumption DEF Generations
  <2>1. Recent(c, n) /\ n # sessions[c].generation /\ n + 1 # sessions[c].generation
    BY <1>1, PlayerAccountsAssumption DEF Recent, RowSound, Generations
  <2> QED
    BY <1>1, <2>1 DEF DeliveredOf
<1>4. /\ sessions'[c].state = "pending-delivery" /\ sessions'[c].generation = next
          /\ sessions'[c].proven = next
      /\ \A d \in Claims \ {c} : sessions'[d] = sessions[d]
  BY <1>1 DEF Recover, CanRecover, SessionTypes, RowSound, Session
<1> SUFFICES ASSUME NEW d \in Claims, InUse(d)' PROVE DeliveredOf(d)'
  BY DEF Delivered
<1>5. CASE d = c
  <2> HIDE DEF next
  <2>1. \A e \in Browsers, n \in Generations : Recent(c, n)' /\ HeldBy(e, c, n)' => e = b
          /\ n = next
    BY <1>1, <1>2, <1>3, <1>4, PlayerAccountsAssumption DEF HeldBy, Recent, Generations
  <2>2. \A e \in Browsers, n \in Generations : cookies'[e] = <<c, n>> => ~Recent(c, n)'
    <3>1. \A n \in Generations : n < next => ~Recent(c, n)'
      BY <1>1, <1>4, PlayerAccountsAssumption DEF Recent, Generations
    <3> QED
      BY <1>2, <1>3, <3>1
  <2>3. \A e \in Browsers, n \in Generations : <<e, <<c, n>>>> \in answers' => HeldBy(e, c, n)'
    BY DEF HeldBy
  <2>4. cookies'[b] # <<c, next>>
    BY <1>1, <1>4, <2>2, PlayerAccountsAssumption DEF Recent, Generations
  <2> QED
    BY <1>4, <1>5, <2>1, <2>2, <2>3, <2>4 DEF DeliveredOf
<1>6. CASE d # c
  <2>1. InUse(d) /\ DeliveredOf(d)
    BY <1>4, <1>6 DEF Delivered, InUse, Exists
  <2> QED
    BY <1>2, <1>4, <1>6, <2>1, DeliveredStep
<1> QED
  BY <1>5, <1>6

\* The answer is told once: the copy on its way becomes the cookie.
LEMMA DeliveredReceive ==
  ASSUME SecretTypes, Delivered, NEW a \in answers, Receive(a)
  PROVE  Delivered'
<1> SUFFICES ASSUME NEW d \in Claims, InUse(d)' PROVE DeliveredOf(d)'
  BY DEF Delivered
<1>1. InUse(d) /\ DeliveredOf(d) /\ sessions' = sessions
  BY DEF Delivered, InUse, Exists, Receive
<1>2. PICK b \in Browsers, c \in Claims, k \in Generations : a = <<b, <<c, k>>>>
  BY DEF SecretTypes, Secrets
<1>3. cookies' = [cookies EXCEPT ![b] = <<c, k>>] /\ answers' = answers \ {<<b, <<c, k>>>>}
  BY <1>2 DEF Receive
<1>4. \A n \in Generations : Recent(d, n)' <=> Recent(d, n)
  BY <1>1 DEF Recent
<1>5. \A e \in Browsers, n \in Generations : HeldBy(e, d, n)' => HeldBy(e, d, n)
  BY <1>2, <1>3 DEF HeldBy, SecretTypes
<1>6. \A e \in Browsers, n \in Generations : cookies'[e] = <<d, n>> /\ Recent(d, n) =>
          n = sessions[d].generation \/ (sessions[d].state = "pending-delivery" /\ n + 1 = sessions[d].generation)
  BY <1>1, <1>2, <1>3 DEF DeliveredOf, SecretTypes
<1>7. ASSUME NEW e \in Browsers, NEW n \in Generations, <<e, <<d, n>>>> \in answers', Recent(d, n)
      PROVE  n = sessions[d].generation /\ sessions[d].state = "pending-delivery"
             /\ cookies'[e] # <<d, n>>
  <2>1. <<e, <<d, n>>>> \in answers /\ <<e, <<d, n>>>> # <<b, <<c, k>>>>
    BY <1>3, <1>7
  <2>2. n = sessions[d].generation /\ sessions[d].state = "pending-delivery"
          /\ cookies[e] # <<d, n>>
    BY <1>1, <1>7, <2>1 DEF DeliveredOf
  <2> QED
    BY <1>3, <2>1, <2>2 DEF SecretTypes
<1> QED
  BY <1>1, <1>4, <1>5, <1>6, <1>7 DEF DeliveredOf

\* Only the browser that holds the current secret can acknowledge it.
LEMMA DeliveredAcknowledge ==
  ASSUME SessionTypes, SecretTypes, SessionsSound, Delivered, NEW b \in Browsers, Acknowledge(b)
  PROVE  Delivered'
<1>0. PICK c \in Claims : c = cookies[b][1]
  BY AuthenticatedSession DEF Acknowledge
<1>1. /\ cookies[b][2] \in Generations /\ cookies[b] = <<c, cookies[b][2]>>
      /\ Exists(c) /\ InUse(c) /\ DeliveredOf(c) /\ RowSound(sessions[c])
          /\ sessions[c] \in Session
  BY <1>0, AuthenticatedSession, SecretParts DEF Acknowledge, Authenticates, Delivered,
     SessionsSound, InUse
<1>2. cookies[b] = <<c, sessions[c].generation>> /\ sessions[c].generation \in Generations
  BY <1>0, <1>1 DEF Acknowledge, Matches
<1>3. cookies' = cookies /\ answers' = answers
        /\ sessions' = [sessions EXCEPT ![c].state = "active"]
  BY <1>0 DEF Acknowledge
<1>4. /\ sessions'[c].generation = sessions[c].generation
          /\ sessions'[c].proven = sessions[c].proven
      /\ \A d \in Claims \ {c} : sessions'[d] = sessions[d]
  BY <1>1, <1>3 DEF SessionTypes, Session
<1>5. Recent(c, sessions[c].generation)
  BY <1>1 DEF RowSound, Recent, Session
<1>6. \A e \in Browsers, n \in Generations : Recent(c, n) /\ HeldBy(e, c, n) => e = b
  BY <1>1, <1>2, <1>5 DEF DeliveredOf, HeldBy
<1>7. ASSUME NEW e \in Browsers, NEW n \in Generations, cookies[e] = <<c, n>>, Recent(c, n)
      PROVE  n = sessions[c].generation
  <2>1. e = b
    BY <1>7, <1>6 DEF HeldBy
  <2>2. <<c, n>> = <<c, sessions[c].generation>>
    BY <1>7, <1>2, <2>1
  <2> QED
    BY <2>2
<1>8. \A e \in Browsers, n \in Generations : Recent(c, n) => <<e, <<c, n>>>> \notin answers
  <2> SUFFICES ASSUME NEW e \in Browsers, NEW n \in Generations, Recent(c, n), <<e, <<c, n>>>> \in answers
               PROVE  FALSE
    OBVIOUS
  <2>1. e = b /\ n = sessions[c].generation /\ cookies[e] # <<c, n>>
    BY <1>1, <1>6 DEF HeldBy, DeliveredOf
  <2> QED
    BY <1>2, <2>1
<1>9. DeliveredOf(c)'
  <2>1. \A n \in Generations : Recent(c, n)' <=> Recent(c, n)
    BY <1>4 DEF Recent
  <2>2. \A e \in Browsers, n \in Generations : HeldBy(e, c, n)' <=> HeldBy(e, c, n)
    BY <1>3 DEF HeldBy
  <2> QED
    BY <1>3, <1>4, <1>6, <1>7, <1>8, <2>1, <2>2 DEF DeliveredOf
<1> SUFFICES ASSUME NEW d \in Claims, d # c, InUse(d)' PROVE DeliveredOf(d)'
  BY <1>9 DEF Delivered
<1>10. InUse(d) /\ DeliveredOf(d)
  BY <1>4 DEF Delivered, InUse, Exists
<1> QED
  BY <1>3, <1>4, <1>10, DeliveredStep

\* The next secret goes to the browser that holds the current one.
LEMMA DeliveredRotate ==
  ASSUME SessionTypes, SecretTypes, SessionsSound, Delivered, NEW b \in Browsers, Rotate(b)
  PROVE  Delivered'
<1>0. PICK c \in Claims : c = cookies[b][1]
  BY AuthenticatedSession DEF Rotate
<1> DEFINE next == sessions[c].generation + 1
<1>1. /\ cookies[b][2] \in Generations /\ cookies[b] = <<c, cookies[b][2]>>
      /\ Exists(c) /\ sessions[c].state = "active" /\ InUse(c)
  BY <1>0, AuthenticatedSession, SecretParts DEF Rotate, Authenticates, InUse, Live
<1>2. DeliveredOf(c) /\ RowSound(sessions[c]) /\ sessions[c] \in Session
  BY <1>1 DEF Delivered, SessionsSound, RowSound
<1>3. cookies[b] = <<c, sessions[c].generation>> /\ sessions[c].generation \in Generations
  BY <1>0, <1>1 DEF Rotate, Matches
<1>4. cookies' = cookies /\ answers' = answers \cup {<<b, <<c, next>>>>}
      /\ sessions' = [sessions EXCEPT ![c] = Rotated(sessions[c])]
  BY <1>0 DEF Rotate
<1>5. next \in Generations
  BY <1>0, <1>1, DeliveryFits DEF Rotate
<1>6. /\ sessions'[c].generation = next /\ sessions'[c].proven = sessions[c].proven
      /\ sessions'[c].state = "pending-delivery"
      /\ \A d \in Claims \ {c} : sessions'[d] = sessions[d]
  BY <1>1, <1>2, <1>4 DEF SessionTypes, Session, Rotated
<1>7. Recent(c, sessions[c].generation) /\ Recent(c, next)
  BY <1>2, PlayerAccountsAssumption DEF RowSound, Recent, Session, Generations
<1>8. \A e \in Browsers, n \in Generations : Recent(c, n) /\ HeldBy(e, c, n) => e = b
  BY <1>2, <1>3, <1>7 DEF DeliveredOf, HeldBy
<1>9. ASSUME NEW e \in Browsers, NEW n \in Generations, cookies[e] = <<c, n>>, Recent(c, n)
      PROVE  n = sessions[c].generation
  <2>1. e = b
    BY <1>9, <1>8 DEF HeldBy
  <2>2. <<c, n>> = <<c, sessions[c].generation>>
    BY <1>9, <1>3, <2>1
  <2> QED
    BY <2>2
<1>10. \A e \in Browsers, n \in Generations : Recent(c, n) => <<e, <<c, n>>>> \notin answers
  BY <1>1, <1>2 DEF DeliveredOf
<1>11. DeliveredOf(c)'
  <2>1. \A n \in Generations : Recent(c, n)' <=> Recent(c, n)
    BY <1>6 DEF Recent
  <2>2. \A e \in Browsers, n \in Generations : Recent(c, n) /\ HeldBy(e, c, n)' => e = b
    BY <1>4, <1>8 DEF HeldBy
  <2>3. cookies[b] # <<c, next>>
    BY <1>3, PlayerAccountsAssumption DEF Generations
  <2>4. \A e \in Browsers, n \in Generations : <<e, <<c, n>>>> \in answers' /\ Recent(c, n) =>
            n = next /\ cookies'[e] # <<c, n>>
    BY <1>4, <1>10, <2>3
  <2>5. \A e \in Browsers, n \in Generations : cookies'[e] = <<c, n>> /\ Recent(c, n) =>
          n + 1 = next
    BY <1>4, <1>9
  <2> HIDE DEF next
  <2> QED
    BY <1>6, <2>1, <2>2, <2>4, <2>5 DEF DeliveredOf
<1> SUFFICES ASSUME NEW d \in Claims, d # c, InUse(d)' PROVE DeliveredOf(d)'
  BY <1>11 DEF Delivered
<1>12. InUse(d) /\ DeliveredOf(d)
  BY <1>6 DEF Delivered, InUse, Exists
<1> QED
  BY <1>4, <1>6, <1>12, DeliveredStep

\* The same secret is told again to the browser that waits for it.
LEMMA DeliveredAgain ==
  ASSUME SessionTypes, SecretTypes, SessionsSound, Delivered, NEW b \in Browsers, RotateAgain(b)
  PROVE  Delivered'
<1>0. PICK c \in Claims : c = cookies[b][1]
  BY AuthenticatedSession DEF RotateAgain
<1> DEFINE last == sessions[c].generation
<1>1. /\ cookies[b][2] \in Generations /\ cookies[b] = <<c, cookies[b][2]>>
      /\ Exists(c) /\ sessions[c].state = "pending-delivery" /\ InUse(c)
  BY <1>0, AuthenticatedSession, SecretParts DEF RotateAgain, Authenticates, InUse, Live
<1>2. DeliveredOf(c) /\ RowSound(sessions[c]) /\ sessions[c] \in Session /\ last \in Generations
  BY <1>1 DEF Delivered, SessionsSound, RowSound, Session
<1>3. cookies[b] = <<c, last - 1>> /\ last - 1 \in Generations
        /\ "predecessor" \in sessions[c].slots
  BY <1>0, <1>1 DEF RotateAgain, Matches
<1>4. cookies' = cookies /\ answers' = answers \cup {<<b, <<c, last>>>>} /\ sessions' = sessions
  BY <1>0 DEF RotateAgain
<1>5. Recent(c, last - 1)
  BY <1>2, <1>3, PlayerAccountsAssumption DEF RowSound, Recent, Session, Generations
<1>6. \A e \in Browsers, n \in Generations : Recent(c, n) /\ HeldBy(e, c, n) => e = b
  BY <1>2, <1>3, <1>5 DEF DeliveredOf, HeldBy
<1>7. DeliveredOf(c)'
  <2>1. \A n \in Generations : Recent(c, n)' <=> Recent(c, n)
    BY <1>4 DEF Recent
  <2>2. \A e \in Browsers, n \in Generations : Recent(c, n) /\ HeldBy(e, c, n)' => e = b
    BY <1>4, <1>6 DEF HeldBy
  <2>3. cookies[b] # <<c, last>>
    BY <1>2, <1>3, PlayerAccountsAssumption DEF Generations
  <2>4. \A e \in Browsers, n \in Generations : <<e, <<c, n>>>> \in answers' /\ Recent(c, n) =>
            n = last /\ cookies'[e] # <<c, n>>
    BY <1>2, <1>4, <2>3 DEF DeliveredOf
  <2> QED
    BY <1>1, <1>2, <1>4, <2>1, <2>2, <2>4 DEF DeliveredOf
<1> SUFFICES ASSUME NEW d \in Claims, d # c, InUse(d)' PROVE DeliveredOf(d)'
  BY <1>7 DEF Delivered
<1>8. InUse(d) /\ DeliveredOf(d)
  BY <1>4 DEF Delivered, InUse, Exists
<1> QED
  BY <1>4, <1>8, DeliveredStep

\* The secrets of every action.
LEMMA DeliveriesPreserved ==
  ASSUME AccountTypes, SessionTypes, SecretTypes, SessionsSound, ClaimedOnce, Delivered,
         [Next]_vars
  PROVE  Delivered'
<1>1. ASSUME NEW g \in Guests, GuestPlays(g) PROVE Delivered'
  BY <1>1, DeliveredKept DEF GuestPlays, Exists
<1>2. ASSUME NEW g \in Guests, GuestLeaves(g) PROVE Delivered'
  BY <1>2, DeliveredKept DEF GuestLeaves, Exists
<1>3. ASSUME NEW c \in Claims, NEW intent \in Intent, IssueClaimChallenge(c, intent)
      PROVE  Delivered'
  BY <1>3, DeliveredKept DEF IssueClaimChallenge, Exists
<1>4. ASSUME NEW c \in Claims, NEW purpose \in {"recovery", "delete"},
             IssueOpenChallenge(purpose, c)
      PROVE  Delivered'
  BY <1>4, DeliveredKept DEF IssueOpenChallenge, Exists
<1>5. ASSUME NEW c \in Claims, NEW purpose \in Purposes, ChallengeExpires(purpose, c)
      PROVE  Delivered'
  BY <1>5, DeliveredKept DEF ChallengeExpires, Exists
<1>6. ASSUME NEW b \in Browsers, NEW c \in Claims, Claim(b, c) PROVE Delivered'
  BY <1>6, DeliveredClaim
<1>7. ASSUME NEW b \in Browsers, NEW c \in Claims, Recover(b, c) PROVE Delivered'
  BY <1>7, DeliveredRecover
<1>8. ASSUME NEW p \in players, DeleteByWallet(p) PROVE Delivered'
  BY <1>8, DeliveredKept DEF DeleteByWallet, Deleted, Exists
<1>9. ASSUME NEW a \in answers, Receive(a) PROVE Delivered'
  BY <1>9, DeliveredReceive
<1>10. ASSUME NEW a \in answers, Lose(a) PROVE Delivered'
  BY <1>10, DeliveredKept DEF Lose, Exists
<1>11. ASSUME NEW b \in Browsers, PlayerPlays(b) PROVE Delivered'
  BY <1>11, DeliveredKept DEF PlayerPlays, Exists
<1>12. ASSUME NEW b \in Browsers, Acknowledge(b) PROVE Delivered'
  BY <1>12, DeliveredAcknowledge
<1>13. ASSUME NEW b \in Browsers, Rotate(b) PROVE Delivered'
  BY <1>13, DeliveredRotate
<1>14. ASSUME NEW b \in Browsers, RotateAgain(b) PROVE Delivered'
  BY <1>14, DeliveredAgain
<1>15. ASSUME NEW b \in Browsers, ResetCookies(b) PROVE Delivered'
  BY <1>15, DeliveredKept DEF ResetCookies, SecretTypes, Exists
<1>16. ASSUME NEW b \in Browsers, DeleteBySession(b) PROVE Delivered'
  BY <1>16, DeliveredKept DEF DeleteBySession, Deleted, Exists
<1>17. ASSUME NEW b \in Browsers, PrepareReview(b) PROVE Delivered'
  BY <1>17, DeliveredKept DEF PrepareReview, Exists
<1>18. ASSUME NEW b \in Browsers, NEW answered \in BOOLEAN, Logout(b, answered) PROVE Delivered'
  BY <1>18, AuthenticatedSession, DeliveredKept DEF Logout, Closed, Live, SessionTypes,
     SecretTypes, Session, Exists
<1>19. ASSUME NEW c \in Claims, GraceEnds(c) PROVE Delivered'
  BY <1>19, DeliveredKept DEF GraceEnds, SessionTypes, Session, Exists
<1>20. ASSUME NEW c \in Claims, SessionIdles(c) PROVE Delivered'
  BY <1>20, DeliveredKept DEF SessionIdles, SessionTypes, Session, Exists
<1>21. ASSUME NEW c \in Claims, ClaimEnds(c) PROVE Delivered'
  BY <1>21, DeliveredKept DEF ClaimEnds, Exists
<1>22. ASSUME NEW c \in Claims, KeyLost(c) PROVE Delivered'
  BY <1>22, DeliveredKept DEF KeyLost, SessionTypes, Session, Exists
<1>23. ASSUME NEW account \in Accounts, TombstoneExpires(account) PROVE Delivered'
  BY <1>23, DeliveredKept DEF TombstoneExpires, Exists
<1>24. ASSUME DeleteExpiredSessions PROVE Delivered'
  <2>1. \A c \in SessionsDue : Closed(sessions[c]) \in Session
          /\ Closed(sessions[c]).state \notin Live
    BY ClosedSound, RowParts DEF SessionsDue, Bare, RowSound, Live
  <2>2. \A c \in Claims : sessions'[c] # NoSession /\ sessions'[c].state \in Live =>
          sessions'[c] = sessions[c]
    BY <1>24, <2>1, SweptLive DEF DeleteExpiredSessions
  <2> QED
    BY <1>24, <2>2, DeliveredKept DEF DeleteExpiredSessions, Exists
<1>25. ASSUME DeleteExpiredPredecessors PROVE Delivered'
  <2> DEFINE row == [c \in Claims |-> [sessions[c] EXCEPT !.slots = @ \ {"predecessor"}]]
  <2>1. \A c \in PredecessorsDue :
            /\ c \in Claims /\ Exists(c) /\ row[c] \in Session /\ row[c].state = sessions[c].state
            /\ row[c].proven = sessions[c].proven /\ row[c].generation = sessions[c].generation
    BY DEF PredecessorsDue, SessionTypes, Session, Exists
  <2>2. sessions' = [c \in Claims |-> IF c \in PredecessorsDue THEN Swept(c, row[c], merges) ELSE sessions[c]]
    BY <1>25 DEF DeleteExpiredPredecessors
  <2> HIDE DEF row
  <2>3. \A c \in Claims : sessions'[c] # NoSession /\ sessions'[c].state \in Live =>
            sessions'[c] = sessions[c] \/ (c \in PredecessorsDue /\ sessions'[c] = row[c])
    BY <2>1, <2>2, SweptLive
  <2> QED
    BY <1>25, <2>1, <2>3, DeliveredKept DEF DeleteExpiredPredecessors, Exists
<1>26. ASSUME DeleteExpiredMerges PROVE Delivered'
  <2>1. \A c \in Claims : sessions'[c] # NoSession /\ sessions'[c].state \in Live =>
          sessions'[c] = sessions[c]
    BY <1>26, SweptLive DEF DeleteExpiredMerges, SessionTypes, Exists
  <2> QED
    BY <1>26, <2>1, DeliveredKept DEF DeleteExpiredMerges, Exists
<1>27. ASSUME PurgeUnavailable PROVE Delivered'
  <2> DEFINE row == [c \in Claims |-> [sessions[c] EXCEPT !.slots = @ \ {"current"}, !.lost = {}, !.state = "revoked"]]
             due == {c \in Claims : Exists(c) /\ sessions[c].lost # {}}
  <2>1. \A c \in due : row[c] \in Session /\ row[c].state \notin Live
    BY DEF SessionTypes, Session, Exists, Live
  <2>2. sessions' = [c \in Claims |-> IF c \in due THEN Swept(c, row[c], merges) ELSE sessions[c]]
    BY <1>27 DEF PurgeUnavailable
  <2> HIDE DEF row, due
  <2>3. \A c \in Claims : sessions'[c] # NoSession /\ sessions'[c].state \in Live =>
          sessions'[c] = sessions[c]
    BY <2>1, <2>2, SweptLive
  <2> QED
    BY <1>27, <2>3, DeliveredKept DEF PurgeUnavailable, Exists
<1>28. ASSUME UNCHANGED vars PROVE Delivered'
  BY <1>28, DeliveredKept DEF vars, Exists
<1> QED
  BY <1>1, <1>2, <1>3, <1>4, <1>5, <1>6, <1>7, <1>8, <1>9, <1>10, <1>11, <1>12, <1>13, <1>14,
     <1>15, <1>16, <1>17, <1>18, <1>19, <1>20, <1>21, <1>22, <1>23, <1>24, <1>25, <1>26, <1>27,
       <1>28 DEF Next, Retention
-----------------------------------------------------------------------------
(* Refused secrets. *)

\* A row that admits no secret it refused.
LEMMA RefusedStep ==
  ASSUME NEW s \in Issued, Authenticates(s, Live)', ended \subseteq ended',
         /\ sessions'[s[1]].state \in Live => sessions[s[1]].state \in Live
         /\ sessions'[s[1]].slots \ sessions'[s[1]].lost \subseteq sessions[s[1]].slots \ sessions[s[1]].lost
         /\ sessions'[s[1]].generation = sessions[s[1]].generation
         /\ sessions'[s[1]].grace => sessions[s[1]].grace
         /\ sessions[s[1]].idle => sessions'[s[1]].idle
  PROVE  Authenticates(s, Live)
  BY DEF Authenticates, Matches, Issued, Exists

\* A row that stays, or goes.
LEMMA RefusedKept ==
  ASSUME NEW s \in Issued, Authenticates(s, Live)', ended \subseteq ended',
         sessions'[s[1]] \in {sessions[s[1]], NoSession}
  PROVE  Authenticates(s, Live)
  BY RefusedStep DEF Authenticates, Matches, Exists

\* A secret that is refused stays so.
LEMMA RefusedStays ==
  ASSUME SessionTypes, SecretTypes, SessionsSound, NEW s \in Issued, [Next]_vars,
         Authenticates(s, Live)'
  PROVE  Authenticates(s, Live)
<1> DEFINE d == s[1]
<1>0. d \in Claims /\ s[2] \in Generations /\ Exists(d) /\ sessions[d] \in Session
        /\ s[2] <= sessions[d].generation
      /\ sessions'[d] # NoSession /\ sessions'[d].state \in Live
  BY DEF Issued, Secrets, SessionTypes, Exists, Authenticates, Matches
<1>1. ASSUME NEW g \in Guests, GuestPlays(g) PROVE Authenticates(s, Live)
  BY <1>1, RefusedKept DEF GuestPlays
<1>2. ASSUME NEW g \in Guests, GuestLeaves(g) PROVE Authenticates(s, Live)
  BY <1>2, RefusedKept DEF GuestLeaves
<1>3. ASSUME NEW c \in Claims, NEW intent \in Intent, IssueClaimChallenge(c, intent)
      PROVE  Authenticates(s, Live)
  BY <1>3, RefusedKept DEF IssueClaimChallenge
<1>4. ASSUME NEW c \in Claims, NEW purpose \in {"recovery", "delete"},
             IssueOpenChallenge(purpose, c)
      PROVE  Authenticates(s, Live)
  BY <1>4, RefusedKept DEF IssueOpenChallenge
<1>5. ASSUME NEW c \in Claims, NEW purpose \in Purposes, ChallengeExpires(purpose, c)
      PROVE  Authenticates(s, Live)
  BY <1>5, RefusedKept DEF ChallengeExpires
<1>6. ASSUME NEW b \in Browsers, NEW c \in Claims, Claim(b, c) PROVE Authenticates(s, Live)
  BY <1>6, <1>0, RefusedKept DEF Claim, Unused, SessionTypes
<1>7. ASSUME NEW b \in Browsers, NEW c \in Claims, Recover(b, c) PROVE Authenticates(s, Live)
  <2>1. CASE d = c
    <3>1. sessions'[d].generation = sessions[d].generation + 1 /\ sessions'[d].slots = {"current"}
      BY <1>7, <1>0, <2>1 DEF Recover, SessionTypes, Session
    <3>2. s[2] = sessions[d].generation + 1
      BY <3>1 DEF Authenticates, Matches
    <3> QED
      BY <1>0, <3>2, PlayerAccountsAssumption DEF Session, Generations
  <2>2. CASE d # c
    BY <1>7, <1>0, <2>2, RefusedKept DEF Recover, SessionTypes
  <2> QED
    BY <2>1, <2>2
<1>8. ASSUME NEW p \in players, DeleteByWallet(p) PROVE Authenticates(s, Live)
  BY <1>8, <1>0, RefusedKept DEF DeleteByWallet, Deleted
<1>9. ASSUME NEW a \in answers, Receive(a) PROVE Authenticates(s, Live)
  BY <1>9, RefusedKept DEF Receive
<1>10. ASSUME NEW a \in answers, Lose(a) PROVE Authenticates(s, Live)
  BY <1>10, RefusedKept DEF Lose
<1>11. ASSUME NEW b \in Browsers, PlayerPlays(b) PROVE Authenticates(s, Live)
  BY <1>11, RefusedKept DEF PlayerPlays
<1>12. ASSUME NEW b \in Browsers, Acknowledge(b) PROVE Authenticates(s, Live)
  <2>1. sessions[cookies[b][1]].state \in Live /\ cookies[b][1] \in Claims
    BY <1>12, AuthenticatedSession DEF Acknowledge, Authenticates
  <2> QED
    BY <1>12, <1>0, <2>1, RefusedStep DEF Acknowledge, SessionTypes, Session
<1>13. ASSUME NEW b \in Browsers, Rotate(b) PROVE Authenticates(s, Live)
  <2> DEFINE c == cookies[b][1]
  <2>1. CASE d = c
    <3>1. /\ sessions'[d].generation = sessions[d].generation + 1
              /\ sessions'[d].lost = sessions[d].lost
          /\ sessions'[d].slots = {"current", "predecessor"}
      BY <1>13, <1>0, <2>1 DEF Rotate, Rotated, SessionTypes, Session
    <3>2. s[2] = sessions[d].generation
      BY <1>0, <3>1, PlayerAccountsAssumption DEF Authenticates, Matches, Session, Generations
    <3>3. /\ "current" \in sessions[d].slots \ sessions[d].lost
          /\ sessions[d].state \in Live /\ d \notin ended /\ ~sessions[d].idle
      BY <1>13, <2>1 DEF Rotate, Authenticates, Matches, Live
    <3> QED
      BY <1>0, <3>2, <3>3, SecretsDiffer DEF Authenticates, Matches, Issued
  <2>2. CASE d # c
    BY <1>13, <1>0, <2>2, RefusedKept, AuthenticatedSession DEF Rotate, SessionTypes
  <2> QED
    BY <2>1, <2>2
<1>14. ASSUME NEW b \in Browsers, RotateAgain(b) PROVE Authenticates(s, Live)
  BY <1>14, RefusedKept DEF RotateAgain
<1>15. ASSUME NEW b \in Browsers, ResetCookies(b) PROVE Authenticates(s, Live)
  BY <1>15, RefusedKept DEF ResetCookies
<1>16. ASSUME NEW b \in Browsers, DeleteBySession(b) PROVE Authenticates(s, Live)
  BY <1>16, <1>0, RefusedKept DEF DeleteBySession, Deleted
<1>17. ASSUME NEW b \in Browsers, PrepareReview(b) PROVE Authenticates(s, Live)
  BY <1>17, RefusedKept DEF PrepareReview
<1>18. ASSUME NEW b \in Browsers, NEW answered \in BOOLEAN, Logout(b, answered)
       PROVE  Authenticates(s, Live)
  <2>1. sessions'[d] = sessions[d] \/ sessions'[d] = Closed(sessions[d])
    BY <1>18, <1>0, AuthenticatedSession DEF Logout, SessionTypes
  <2>2. Closed(sessions[d]).state \notin Live
    BY <1>0 DEF Closed, Session, Live
  <2> QED
    BY <1>18, <1>0, <2>1, <2>2, RefusedKept DEF Logout
<1>19. ASSUME NEW c \in Claims, GraceEnds(c) PROVE Authenticates(s, Live)
  BY <1>19, <1>0, RefusedStep DEF GraceEnds, SessionTypes, Session
<1>20. ASSUME NEW c \in Claims, SessionIdles(c) PROVE Authenticates(s, Live)
  BY <1>20, <1>0, RefusedStep DEF SessionIdles, SessionTypes, Session
<1>21. ASSUME NEW c \in Claims, ClaimEnds(c) PROVE Authenticates(s, Live)
  BY <1>21, RefusedKept DEF ClaimEnds
<1>22. ASSUME NEW c \in Claims, KeyLost(c) PROVE Authenticates(s, Live)
  BY <1>22, <1>0, RefusedStep DEF KeyLost, SessionTypes, Session
<1>23. ASSUME NEW account \in Accounts, TombstoneExpires(account) PROVE Authenticates(s, Live)
  BY <1>23, RefusedKept DEF TombstoneExpires
<1>24. ASSUME DeleteExpiredSessions PROVE Authenticates(s, Live)
  <2>1. Closed(sessions[d]) \in Session /\ Closed(sessions[d]).state \notin Live
    BY <1>0, RowParts, ClosedSound DEF Bare, RowSound, Live
  <2>2. sessions'[d] = sessions[d]
    BY <1>24, <1>0, <2>1, SweptLive DEF DeleteExpiredSessions
  <2> QED
    BY <1>24, <2>2, RefusedKept DEF DeleteExpiredSessions
<1>25. ASSUME DeleteExpiredPredecessors PROVE Authenticates(s, Live)
  <2> DEFINE row == [sessions[d] EXCEPT !.slots = @ \ {"predecessor"}]
  <2>1. row \in Session /\ row.slots \subseteq sessions[d].slots
          /\ row = [sessions[d] EXCEPT !.slots = row.slots]
    BY <1>0 DEF Session
  <2>2. sessions'[d] = IF d \in PredecessorsDue THEN Swept(d, row, merges) ELSE sessions[d]
    BY <1>25, <1>0 DEF DeleteExpiredPredecessors
  <2> HIDE DEF row
  <2>3. sessions'[d] \in {sessions[d], row}
    BY <1>0, <2>1, <2>2, SweptLive
  <2> QED
    BY <1>25, <1>0, <2>1, <2>3, RefusedStep DEF DeleteExpiredPredecessors, Session
<1>26. ASSUME DeleteExpiredMerges PROVE Authenticates(s, Live)
  <2>1. sessions'[d] = sessions[d]
    BY <1>26, <1>0, SweptLive DEF DeleteExpiredMerges
  <2> QED
    BY <1>26, <2>1, RefusedKept DEF DeleteExpiredMerges
<1>27. ASSUME PurgeUnavailable PROVE Authenticates(s, Live)
  <2> DEFINE row == [sessions[d] EXCEPT !.slots = @ \ {"current"}, !.lost = {}, !.state = "revoked"]
  <2>1. row \in Session /\ row.state \notin Live
    BY <1>0 DEF Session, Live
  <2>2. sessions'[d] \in {sessions[d], Swept(d, row, merges)}
    BY <1>27, <1>0 DEF PurgeUnavailable
  <2> HIDE DEF row
  <2>3. sessions'[d] = sessions[d]
    BY <1>0, <2>1, <2>2, SweptLive
  <2> QED
    BY <1>27, <2>3, RefusedKept DEF PurgeUnavailable
<1>28. ASSUME UNCHANGED vars PROVE Authenticates(s, Live)
  BY <1>28, RefusedKept DEF vars
<1> QED
  BY <1>1, <1>2, <1>3, <1>4, <1>5, <1>6, <1>7, <1>8, <1>9, <1>10, <1>11, <1>12, <1>13, <1>14,
     <1>15, <1>16, <1>17, <1>18, <1>19, <1>20, <1>21, <1>22, <1>23, <1>24, <1>25, <1>26, <1>27,
       <1>28 DEF Next, Retention

-----------------------------------------------------------------------------
(* The theorems. *)

\* The invariant holds before there is a player.
LEMMA Initially == Init => IInv
<1> SUFFICES ASSUME Init PROVE IInv
  OBVIOUS
<1>1. AccountTypes /\ SessionTypes /\ SecretTypes
  BY PlayerAccountsAssumption DEF Init, AccountTypes, SessionTypes, SecretTypes, Challenge,
     Revisions
<1>2. \A c \in Claims : ~Exists(c)
  BY DEF Init, Exists
<1>3. ChallengesSigned /\ Named /\ AccountNamesOnePlayer /\ SessionsSound /\ NoSessionForgotten
  BY <1>2 DEF Init, ChallengesSigned, Named, AccountNamesOnePlayer, SessionsSound,
     NoSessionForgotten
<1>4. ClaimedOnce /\ Delivered
  BY <1>2 DEF Init, ClaimedOnce, Delivered, InUse
<1> QED
  BY <1>1, <1>3, <1>4, TypeParts DEF IInv

\* Every step preserves the invariant.
LEMMA Inductive == IInv /\ [Next]_vars => IInv'
<1> SUFFICES ASSUME IInv, [Next]_vars PROVE IInv'
  OBVIOUS
<1>1. AccountTypes /\ SessionTypes /\ SecretTypes
  BY TypeParts DEF IInv
<1>2. AccountTypes' /\ ChallengesSigned'
  BY <1>1, AccountsPreserved DEF IInv
<1>3. SessionTypes' /\ SessionsSound' /\ NoSessionForgotten'
  BY <1>1, SessionsPreserved DEF IInv
<1>4. SecretTypes'
  BY <1>1, SecretsPreserved
<1>5. Named' /\ AccountNamesOnePlayer'
  BY <1>1, NamesPreserved DEF IInv
<1>6. ClaimedOnce'
  BY <1>1, ClaimsPreserved DEF IInv
<1>7. Delivered'
  BY <1>1, DeliveriesPreserved DEF IInv
<1>8. TypeOK'
  BY <1>2, <1>3, <1>4, TypeParts, PTL
<1> QED
  BY <1>2, <1>3, <1>5, <1>6, <1>7, <1>8 DEF IInv

\* The inductive invariant holds in every state of account-claim.ts.
THEOREM AlwaysIInv == Spec => []IInv
  BY Initially, Inductive, PTL DEF Spec

\* Rows, cookies and answers keep their types.
THEOREM TypeCorrectness == Spec => []TypeOK
<1>1. IInv => TypeOK
  BY DEF IInv
<1> QED
  BY <1>1, AlwaysIInv, PTL

\* An account names one player, and what a claim left belongs to it (claimGuest).
THEOREM AccountsNameOnePlayer == Spec => []AccountNamesOnePlayer
<1>1. IInv => AccountNamesOnePlayer
  BY DEF IInv
<1> QED
  BY <1>1, AlwaysIInv, PTL

\* No retention job leaves a row that none removes (deleteExpiredMergeReceipts).
THEOREM NoSessionIsForgotten == Spec => []NoSessionForgotten
<1>1. IInv => NoSessionForgotten
  BY DEF IInv
<1> QED
  BY <1>1, AlwaysIInv, PTL

\* A delivery that is not acknowledged can be recovered by the account.
LEMMA PendingRecovers ==
  ASSUME IInv, NEW c \in Claims, Exists(c), sessions[c].state = "pending-delivery", c \notin ended
  PROVE  CanRecover(c)
<1>1. PlayerOf(c) \in WalletOf(intents[c].account)
  BY OwnerStands, TypeParts DEF IInv, AccountNamesOnePlayer, WalletOf
<1>2. "current" \in sessions[c].slots
  BY DEF IInv, SessionsSound, RowSound, Live
<1> QED
  BY <1>1, <1>2 DEF CanRecover

\* Whoever is told to reauthenticate can recover (claimGuestPublic, recoverClaimSession).
THEOREM ReauthenticationAlwaysRecovers == Spec => []ReauthenticationCanRecover
<1>1. IInv => ReauthenticationCanRecover
  BY PendingRecovers DEF ReauthenticationCanRecover, ToldToReauthenticate
<1> QED
  BY <1>1, AlwaysIInv, PTL

\* A browser whose secret is as young as the last proof can go on or recover.
LEMMA HolderGoesOn ==
  ASSUME IInv, NEW b \in Browsers, NEW c \in Claims, c = cookies[b][1], cookies[b] # NoSecret,
         Exists(c),
         sessions[c].state \in Live, cookies[b][2] >= sessions[c].proven, sessions[c].lost = {},
         ~sessions[c].idle, c \notin ended
  PROVE  Authenticates(cookies[b], Live) \/ CanRecover(c)
<1>1. CASE sessions[c].state = "pending-delivery"
  BY <1>1, PendingRecovers
<1>2. CASE sessions[c].state # "pending-delivery"
  <2>1. cookies[b] = <<c, cookies[b][2]>> /\ cookies[b][2] \in Generations
    BY SecretParts, TypeParts DEF IInv
  <2>2. DeliveredOf(c) /\ Recent(c, cookies[b][2])
    BY DEF IInv, Delivered, InUse, Recent
  <2>3. cookies[b][2] = sessions[c].generation
    BY <1>2, <2>1, <2>2 DEF DeliveredOf
  <2>4. "current" \in sessions[c].slots \ sessions[c].lost
    BY DEF IInv, SessionsSound, RowSound
  <2> QED
    BY <2>3, <2>4 DEF Authenticates, Matches
<1> QED
  BY <1>1, <1>2

\* No browser is locked out of a session in use (rotatePlayerSession, acknowledgeClaimDelivery).
THEOREM NobodyStranded == Spec => []NotStranded
<1>1. IInv => NotStranded
  <2> SUFFICES ASSUME IInv, NEW b \in Browsers, cookies[b] # NoSecret, Exists(cookies[b][1]),
                      sessions[cookies[b][1]].state \in Live,
                      cookies[b][2] >= sessions[cookies[b][1]].proven,
                        sessions[cookies[b][1]].lost = {},
                      ~sessions[cookies[b][1]].idle, cookies[b][1] \notin ended
               PROVE  Authenticates(cookies[b], Live) \/ CanRecover(cookies[b][1])
    BY DEF NotStranded
  <2>1. cookies[b][1] \in Claims
    BY SecretParts, TypeParts DEF IInv
  <2> QED
    BY <2>1, HolderGoesOn
<1> QED
  BY <1>1, AlwaysIInv, PTL

\* A secret that was handed out and is refused is never accepted again (the tombstones).
THEOREM RefusedSecretsStayRefused == Spec => DeadSecretsStayDead
<1>1. IInv /\ [Next]_vars => [\A s \in Issued : ~Authenticates(s, Live) => ~Authenticates(s, Live)']_vars
  BY TypeParts, RefusedStays DEF IInv
<1> QED
  BY <1>1, AlwaysIInv, PTL DEF Spec, DeadSecretsStayDead
=============================================================================
