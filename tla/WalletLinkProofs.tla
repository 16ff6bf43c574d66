-------------------------- MODULE WalletLinkProofs --------------------------
(***************************************************************************)
(* What TLAPS proves of WalletLink, for any number of players, sessions,   *)
(* accounts, links and credentials: the links a player is shown as linked  *)
(* have their authority, what the player was told stands as long as the    *)
(* coordinates do, and the schema never refuses what a call or a trigger   *)
(* writes.                                                                 *)
(*                                                                         *)
(* The argument has two parts.  A row by itself stays admitted by the      *)
(* schema, with the coordinates it still needs in reserve (RowSound); and  *)
(* every write of a row moves its revision on and never revives it         *)
(* (Advances), so that an answer with the revision of a link is one that   *)
(* nothing has happened to since.                                          *)
(***************************************************************************)
EXTENDS WalletLink, TLAPS, SequenceTheorems

-----------------------------------------------------------------------------
(* The inductive invariant. *)

\* A row that the schema admits, with the steps it still needs in reserve.
RowSound(link, challenge) ==
    /\ link \in Link /\ challenge \in Challenge
    /\ Admits(link, challenge)
    /\ link.state = "PERMISSIONED" => link.revision + 2 < MaxCoordinate
    /\ link.state = "CHALLENGE_ISSUED" => link.revision + 1 < MaxCoordinate

LinksSound == \A l \in DOMAIN links : RowSound(links[l], challenges[l])

\* The coordinates of a link only grow, and a link that lost its authority has
\* other ones than it was told under.
AnswersSound ==
    \A a \in answers :
        /\ a.link \in DOMAIN links
        /\ a.revision \in Nat /\ a.revision <= links[a.link].revision
        /\ a.revision = links[a.link].revision => links[a.link].state \in Linked

Tables ==
    /\ sessions \in [Sessions -> SessionStates]
    /\ links \in Seq(Link) /\ Len(links) <= MaxLinks
    /\ challenges \in Seq(Challenge) /\ Len(challenges) = Len(links)
    /\ credentials \in Seq([player : Players, account : Accounts, state : {"active", "revoked"}])
    /\ reviews \subseteq DOMAIN links

OneCredential == \A account \in Accounts : \A c, d \in ActiveFor(account) : c = d
OneCurrent == \A p \in Players : \A l, m \in Current(p) : l = m

\* Credentials are as many as links can name.
CredentialsNamed == Len(credentials) <= MaxCredentials

\* A link that is linked is authentic, by a credential that exists.
Backed(l) == links[l].credential \in DOMAIN credentials /\ Authentic(l)
LinksBacked == \A l \in DOMAIN links : links[l].state \in Linked => Backed(l)

IInv == TypeOK /\ CredentialsNamed /\ LinksSound /\ LinksBacked /\ AnswersSound

-----------------------------------------------------------------------------
(* Rows. *)

\* TypeOK by parts.
LEMMA TypeParts == TypeOK <=> Tables /\ OneCredential /\ OneCurrent
  BY DEF TypeOK, Tables, OneCredential, OneCurrent

\* Links and challenges are as many.
LEMMA RowTypes ==
  ASSUME Tables, NEW l \in DOMAIN links
  PROVE  /\ DOMAIN links = 1 .. Len(links) /\ DOMAIN challenges = DOMAIN links
         /\ links[l] \in Link /\ challenges[l] \in Challenge
  BY DEF Tables

\* A challenge that is moved or withdrawn is one.
LEMMA MovedTypes ==
  ASSUME NEW challenge \in Challenge, NEW link \in Link
  PROVE  /\ Moved(challenge, link) \in Challenge /\ Withdrawn(challenge) \in Challenge
         /\ Moved(challenge, link).state = challenge.state
         /\ Moved(challenge, link).credential = challenge.credential
         /\ challenge.state # "NONE" =>
                /\ Moved(challenge, link).generation = link.generation
                /\ Moved(challenge, link).revision = link.revision
         /\ Withdrawn(challenge).credential = challenge.credential
         /\ Withdrawn(challenge).state =
                IF challenge.state = "ISSUED" THEN "REVOKED" ELSE challenge.state
  BY DEF Moved, Withdrawn, Challenge, Link, ChallengeStates

\* A link can be revoked in any state (the triggers of migration 0007).
LEMMA RevokedSound ==
  ASSUME NEW l \in DOMAIN links, RowSound(links[l], challenges[l])
  PROVE  /\ RowSound(Revoked(l).link, Revoked(l).challenge)
         /\ Revoked(l).link.state = "REVOKED"
         /\ Revoked(l).link.session = links[l].session
         /\ Revoked(l).link.revision >= links[l].revision
         /\ links[l].state \in Linked => Revoked(l).link.revision > links[l].revision
<1> DEFINE link == Revoked(l).link
           withdrawn == Withdrawn(challenges[l])
<1>1. links[l] \in Link /\ challenges[l] \in Challenge /\ Admits(links[l], challenges[l])
  BY DEF RowSound
<1>2. \A n \in Coordinates : Bumped(n) \in Coordinates /\ Bumped(n) >= n /\ (n < MaxCoordinate => Bumped(n) > n)
  BY WalletLinkAssumption DEF Bumped, Coordinates
<1>3. /\ withdrawn \in Challenge /\ withdrawn.credential = challenges[l].credential
      /\ withdrawn.state = IF challenges[l].state = "ISSUED" THEN "REVOKED" ELSE challenges[l].state
  BY <1>1, MovedTypes
<1>4. withdrawn.state \in ChallengeStates
  BY <1>3 DEF Challenge
<1>5. /\ link \in Link /\ link.state = "REVOKED" /\ link.session = links[l].session
      /\ link.credential = links[l].credential
      /\ link.generation = Bumped(links[l].generation) /\ link.revision = Bumped(links[l].revision)
      /\ link.proof = IF links[l].proof = "NONE" THEN "NONE" ELSE withdrawn.state
  BY <1>1, <1>2, <1>4 DEF Revoked, Link, LinkStates, Ended
<1>6. Revoked(l).challenge = Moved(withdrawn, link)
  BY DEF Revoked
<1>7. Shape(link)
  BY <1>1, <1>2, <1>3, <1>5 DEF Shape, Admits, Link, Ended, Linked, ChallengeStates, LinkStates
<1> HIDE DEF link, withdrawn
<1>8. /\ Revoked(l).challenge \in Challenge /\ Revoked(l).challenge.state = withdrawn.state
      /\ Revoked(l).challenge.credential = withdrawn.credential
      /\ withdrawn.state # "NONE" => /\ Revoked(l).challenge.generation = link.generation
                                     /\ Revoked(l).challenge.revision = link.revision
  BY <1>3, <1>5, <1>6, MovedTypes
<1>9. Admits(link, Revoked(l).challenge)
  BY <1>1, <1>3, <1>5, <1>7, <1>8 DEF Admits
<1>10. links[l].state \in Linked => links[l].revision < MaxCoordinate
  BY <1>1 DEF Admits, Shape, Linked, Ended
<1> QED
  BY <1>1, <1>2, <1>5, <1>8, <1>9, <1>10 DEF RowSound, link, Link

\* A link that has not ended can be disconnected.
LEMMA DisconnectedSound ==
  ASSUME NEW l \in DOMAIN links, RowSound(links[l], challenges[l]), links[l].state # "REVOKED",
         links[l].generation < MaxCoordinate, links[l].revision < MaxCoordinate
  PROVE  /\ RowSound(Disconnected(l).link, Disconnected(l).challenge)
         /\ Disconnected(l).link.state = "DISCONNECTED"
         /\ Disconnected(l).link.session = links[l].session
         /\ Disconnected(l).link.revision > links[l].revision
<1> DEFINE link == Disconnected(l).link
           withdrawn == Withdrawn(challenges[l])
<1>1. links[l] \in Link /\ challenges[l] \in Challenge /\ Admits(links[l], challenges[l])
  BY DEF RowSound
<1>2. \A n \in Coordinates : n < MaxCoordinate => n + 1 \in Coordinates /\ n + 1 > n
  BY WalletLinkAssumption DEF Coordinates
<1>3. /\ withdrawn \in Challenge /\ withdrawn.credential = challenges[l].credential
      /\ withdrawn.state = IF challenges[l].state = "ISSUED" THEN "REVOKED" ELSE challenges[l].state
  BY <1>1, MovedTypes
<1>5. /\ link \in Link /\ link.state = "DISCONNECTED" /\ link.session = links[l].session
      /\ link.credential = links[l].credential
      /\ link.generation = links[l].generation + 1 /\ link.revision = links[l].revision + 1
      /\ link.proof = IF links[l].credential = 0 THEN "NONE" ELSE links[l].proof
  BY <1>1, <1>2 DEF Disconnected, Link, LinkStates, Ended, ChallengeStates
<1>6. Disconnected(l).challenge = Moved(withdrawn, link)
  BY DEF Disconnected
<1>7. Shape(link)
  BY <1>1, <1>2, <1>3, <1>5 DEF Shape, Admits, Link, Ended, Linked, ChallengeStates, LinkStates
<1> HIDE DEF link, withdrawn
<1>8. /\ Disconnected(l).challenge \in Challenge /\ Disconnected(l).challenge.state = withdrawn.state
      /\ Disconnected(l).challenge.credential = withdrawn.credential
      /\ withdrawn.state # "NONE" => /\ Disconnected(l).challenge.generation = link.generation
                                     /\ Disconnected(l).challenge.revision = link.revision
  BY <1>3, <1>5, <1>6, MovedTypes
<1>9. Admits(link, Disconnected(l).challenge)
  <2>1. link.proof # "NONE" => links[l].proof = "CONSUMED" /\ links[l].credential # 0
    BY <1>1, <1>5 DEF Admits, Shape, Linked, Ended, Link, LinkStates
  <2>2. link.proof # "NONE" => challenges[l].state = "CONSUMED" /\ withdrawn.state = "CONSUMED"
    BY <1>1, <1>3, <2>1 DEF Admits
  <2> QED
    BY <1>1, <1>3, <1>5, <1>7, <1>8, <2>1, <2>2 DEF Admits
<1> QED
  BY <1>1, <1>2, <1>5, <1>8, <1>9 DEF RowSound, link, Link

\* A link that was permitted can be challenged.
LEMMA ChallengedSound ==
  ASSUME NEW l \in DOMAIN links, RowSound(links[l], challenges[l]), links[l].state = "PERMISSIONED"
  PROVE  /\ RowSound(Challenged(l).link, Challenged(l).challenge)
         /\ Challenged(l).link.state = "CHALLENGE_ISSUED"
         /\ Challenged(l).link.session = links[l].session
         /\ Challenged(l).link.revision > links[l].revision
<1> DEFINE link == Challenged(l).link
           challenge == Challenged(l).challenge
<1>1. links[l] \in Link /\ Admits(links[l], challenges[l]) /\ links[l].credential = 0
      /\ links[l].generation < MaxCoordinate /\ links[l].revision + 2 < MaxCoordinate
  BY DEF RowSound, Admits, Shape, Ended
<1>2. links[l].revision + 1 \in Coordinates /\ links[l].revision + 2 < MaxCoordinate
      /\ links[l].revision \in Nat
  BY <1>1, WalletLinkAssumption DEF Link, Coordinates
<1>3. /\ link \in Link /\ link.state = "CHALLENGE_ISSUED" /\ link.session = links[l].session
      /\ link.credential = 0 /\ link.generation = links[l].generation
      /\ link.revision = links[l].revision + 1 /\ link.proof = "ISSUED"
  BY <1>1, <1>2 DEF Challenged, Link, LinkStates, ChallengeStates
<1>4. /\ challenge = [NoChallenge EXCEPT !.state = "ISSUED",
                          !.generation = link.generation, !.revision = link.revision,
                          !.issuedGeneration = link.generation, !.issuedRevision = link.revision]
      /\ link.generation \in Coordinates /\ link.revision \in Coordinates
  BY <1>1, <1>3 DEF Challenged, Link
<1> HIDE DEF link, challenge
<1>5. challenge \in Challenge /\ challenge.state = "ISSUED" /\ challenge.credential = 0
      /\ challenge.generation = link.generation /\ challenge.revision = link.revision
  <2>1. 0 \in 0 .. MaxCredentials /\ 0 \in Coordinates
    BY WalletLinkAssumption DEF Coordinates
  <2> QED
    BY <1>4, <2>1 DEF NoChallenge, Challenge, ChallengeStates
<1>6. Admits(link, challenge)
  <2>1. link.generation < MaxCoordinate /\ link.revision < MaxCoordinate
    BY <1>1, <1>2, <1>3, WalletLinkAssumption
  <2>2. Shape(link)
    BY <1>3, <1>4, <2>1 DEF Shape, Ended, Linked
  <2> QED
    BY <1>3, <1>5, <2>2 DEF Admits
<1> QED
  BY <1>2, <1>3, <1>5, <1>6 DEF RowSound, link, challenge

\* A link that is challenged can be proved.
LEMMA ProvenSound ==
  ASSUME NEW l \in DOMAIN links, RowSound(links[l], challenges[l]), links[l].state = "CHALLENGE_ISSUED",
         NEW c \in 1 .. MaxCredentials
  PROVE  /\ RowSound(Proven(l, c).link, Proven(l, c).challenge)
         /\ Proven(l, c).link.state = "LINKED" /\ Proven(l, c).link.credential = c
         /\ Proven(l, c).link.session = links[l].session /\ Proven(l, c).link.account = links[l].account
         /\ Proven(l, c).link.revision > links[l].revision
         /\ Proven(l, c).challenge.state = "CONSUMED" /\ Proven(l, c).challenge.credential = c
<1> DEFINE link == Proven(l, c).link
           consumed == [challenges[l] EXCEPT !.state = "CONSUMED", !.credential = c]
<1>1. links[l] \in Link /\ challenges[l] \in Challenge /\ Admits(links[l], challenges[l])
      /\ links[l].generation < MaxCoordinate /\ links[l].revision + 1 < MaxCoordinate
  BY DEF RowSound, Admits, Shape, Ended
<1>2. links[l].revision + 1 \in Coordinates /\ links[l].revision \in Nat
  BY <1>1, WalletLinkAssumption DEF Link, Coordinates
<1>3. /\ link \in Link /\ link.state = "LINKED" /\ link.session = links[l].session
      /\ link.account = links[l].account /\ link.credential = c /\ link.generation = links[l].generation
      /\ link.revision = links[l].revision + 1 /\ link.proof = "CONSUMED"
  <2>1. c \in 0 .. MaxCredentials
    BY WalletLinkAssumption
  <2> QED
    BY <1>1, <1>2, <2>1 DEF Proven, Link, LinkStates, Linked, ChallengeStates
<1>4. consumed \in Challenge /\ consumed.state = "CONSUMED" /\ consumed.credential = c
  <2>1. c \in 0 .. MaxCredentials
    BY WalletLinkAssumption
  <2> QED
    BY <1>1, <2>1 DEF Challenge, ChallengeStates
<1>5. Proven(l, c).challenge = Moved(consumed, link)
  BY DEF Proven
<1> HIDE DEF link, consumed
<1>6. /\ Proven(l, c).challenge \in Challenge /\ Proven(l, c).challenge.state = "CONSUMED"
      /\ Proven(l, c).challenge.credential = c
      /\ Proven(l, c).challenge.generation = link.generation
      /\ Proven(l, c).challenge.revision = link.revision
  BY <1>3, <1>4, <1>5, MovedTypes
<1>7. Admits(link, Proven(l, c).challenge)
  <2>1. link.generation \in Coordinates /\ c # 0
    BY <1>3, WalletLinkAssumption DEF Link
  <2> QED
    BY <1>1, <1>2, <1>3, <1>6, <2>1 DEF Admits, Shape, Ended, Linked
<1> QED
  BY <1>2, <1>3, <1>6, <1>7 DEF RowSound, link

-----------------------------------------------------------------------------
(* Steps that rewrite rows. *)

\* What each call and trigger does to a row: it stays sound and of its session,
\* an ended link does not come back, and a linked one moves its revision on.
Advances(l, row) ==
    /\ RowSound(row.link, row.challenge)
    /\ row.link.session = links[l].session
    /\ row.link.state \notin Ended => links[l].state \notin Ended
    /\ row.link.revision >= links[l].revision
    /\ links[l].state \in Linked => row.link = links[l] \/ row.link.revision > links[l].revision

\* Steps that rewrite rows and add none keep the tables, the one current link
\* of each player, and what the answers are worth.
LEMMA RowsRewritten ==
  ASSUME Tables, LinksSound, OneCurrent, AnswersSound, NEW new,
         links' = [l \in DOMAIN links |-> new[l].link],
         challenges' = [l \in DOMAIN links |-> new[l].challenge],
         \A l \in DOMAIN links : Advances(l, new[l])
  PROVE  /\ links' \in Seq(Link) /\ challenges' \in Seq(Challenge)
         /\ Len(links') = Len(links) /\ Len(challenges') = Len(links)
         /\ DOMAIN links' = DOMAIN links
         /\ LinksSound' /\ OneCurrent'
         /\ \A a \in answers :
                /\ a.link \in DOMAIN links'
                /\ a.revision \in Nat /\ a.revision <= links'[a.link].revision
                /\ a.revision = links'[a.link].revision => links'[a.link].state \in Linked
<1>1. DOMAIN links = 1 .. Len(links) /\ Len(links) \in Nat
  BY DEF Tables
<1>2. DOMAIN links' = DOMAIN links /\ \A l \in DOMAIN links : links'[l] = new[l].link
  OBVIOUS
<1>3. \A l \in DOMAIN links : challenges'[l] = new[l].challenge
  OBVIOUS
<1>4. \A l \in DOMAIN links : new[l].link \in Link /\ new[l].challenge \in Challenge
  BY DEF Advances, RowSound
<1>5. links' \in Seq(Link) /\ Len(links') = Len(links)
  <2>1. links' \in [1 .. Len(links) -> Link]
    BY <1>1, <1>4
  <2> QED
    BY <1>1, <2>1
<1>6. challenges' \in Seq(Challenge) /\ Len(challenges') = Len(links)
  <2>1. challenges' \in [1 .. Len(links) -> Challenge]
    BY <1>1, <1>4
  <2> QED
    BY <1>1, <2>1
<1>7. LinksSound'
  BY <1>2, <1>3 DEF LinksSound, Advances
<1>8. \A p \in Players : Current(p)' \subseteq Current(p)
  BY <1>2 DEF Current, PlayerOf, Advances
<1>9. OneCurrent'
  BY <1>8 DEF OneCurrent
<1>10. ASSUME NEW a \in answers
       PROVE  /\ a.link \in DOMAIN links'
              /\ a.revision \in Nat /\ a.revision <= links'[a.link].revision
              /\ a.revision = links'[a.link].revision => links'[a.link].state \in Linked
  <2>1. /\ a.link \in DOMAIN links /\ a.revision \in Nat /\ a.revision <= links[a.link].revision
        /\ a.revision = links[a.link].revision => links[a.link].state \in Linked
    BY <1>10 DEF AnswersSound
  <2>2. links[a.link] \in Link /\ links'[a.link] = new[a.link].link /\ new[a.link].link \in Link
    BY <1>1, <1>2, <1>4, <2>1, RowTypes
  <2>3. links[a.link].revision \in Nat /\ links'[a.link].revision \in Nat
    BY <2>2, WalletLinkAssumption DEF Link, Coordinates
  <2>4. Advances(a.link, new[a.link])
    BY <2>1
  <2>5. links'[a.link].revision >= links[a.link].revision
    BY <2>2, <2>4 DEF Advances
  <2>6. ASSUME a.revision = links'[a.link].revision PROVE links'[a.link].state \in Linked
    <3>1. a.revision = links[a.link].revision
      BY <2>1, <2>3, <2>5, <2>6
    <3>2. links[a.link].state \in Linked /\ ~(links'[a.link].revision > links[a.link].revision)
      BY <2>1, <2>3, <2>6, <3>1
    <3> QED
      BY <2>2, <2>4, <3>2 DEF Advances
  <2> QED
    BY <1>2, <2>1, <2>3, <2>5, <2>6
<1> QED
  BY <1>2, <1>5, <1>6, <1>7, <1>9, <1>10

\* A row that is not written stays as it is.
LEMMA RowKept ==
  ASSUME Tables, LinksSound, NEW l \in DOMAIN links
  PROVE  Advances(l, [link |-> links[l], challenge |-> challenges[l]])
<1>1. links[l] \in Link
  BY RowTypes
<1>2. links[l].revision >= links[l].revision
  BY <1>1, WalletLinkAssumption DEF Link, Coordinates
<1> QED
  BY <1>2 DEF Advances, LinksSound

\* One row is written.
LEMMA WriteAdvances ==
  ASSUME Tables, LinksSound, OneCurrent, AnswersSound,
         NEW l \in DOMAIN links, NEW row, Write(l, row), Advances(l, row)
  PROVE  /\ links' \in Seq(Link) /\ challenges' \in Seq(Challenge)
         /\ Len(links') = Len(links) /\ Len(challenges') = Len(links)
         /\ DOMAIN links' = DOMAIN links
         /\ LinksSound' /\ OneCurrent'
         /\ \A a \in answers :
                /\ a.link \in DOMAIN links'
                /\ a.revision \in Nat /\ a.revision <= links'[a.link].revision
                /\ a.revision = links'[a.link].revision => links'[a.link].state \in Linked
         /\ links'[l] = row.link /\ challenges'[l] = row.challenge
         /\ \A m \in DOMAIN links : m # l => links'[m] = links[m] /\ challenges'[m] = challenges[m]
<1> DEFINE new == [m \in DOMAIN links |-> IF m = l THEN row
                                         ELSE [link |-> links[m], challenge |-> challenges[m]]]
<1>1. DOMAIN challenges = DOMAIN links
  BY RowTypes
<1>2. links' = [m \in DOMAIN links |-> new[m].link]
  BY DEF Write
<1>3. challenges' = [m \in DOMAIN links |-> new[m].challenge]
  BY <1>1 DEF Write
<1>4. \A m \in DOMAIN links : Advances(m, new[m])
  BY RowKept
<1>5. /\ links'[l] = row.link /\ challenges'[l] = row.challenge
      /\ \A m \in DOMAIN links : m # l => links'[m] = links[m] /\ challenges'[m] = challenges[m]
  BY <1>2, <1>3
<1> HIDE DEF new
<1> QED
  BY <1>2, <1>3, <1>4, <1>5, RowsRewritten

\* A trigger revokes links.
LEMMA RevokeAllAdvances ==
  ASSUME Tables, LinksSound, OneCurrent, AnswersSound,
         NEW which \in SUBSET DOMAIN links, RevokeAll(which)
  PROVE  /\ links' \in Seq(Link) /\ challenges' \in Seq(Challenge)
         /\ Len(links') = Len(links) /\ Len(challenges') = Len(links)
         /\ DOMAIN links' = DOMAIN links
         /\ LinksSound' /\ OneCurrent'
         /\ \A a \in answers :
                /\ a.link \in DOMAIN links'
                /\ a.revision \in Nat /\ a.revision <= links'[a.link].revision
                /\ a.revision = links'[a.link].revision => links'[a.link].state \in Linked
         /\ \A l \in which : links'[l].state = "REVOKED"
         /\ \A l \in DOMAIN links : l \notin which => links'[l] = links[l] /\ challenges'[l] = challenges[l]
<1> DEFINE new == [l \in DOMAIN links |-> IF l \in which THEN Revoked(l)
                                         ELSE [link |-> links[l], challenge |-> challenges[l]]]
<1>1. links' = [l \in DOMAIN links |-> new[l].link]
  BY DEF RevokeAll
<1>2. challenges' = [l \in DOMAIN links |-> new[l].challenge]
  BY DEF RevokeAll
<1>3. \A l \in DOMAIN links : Advances(l, Revoked(l)) /\ Revoked(l).link.state = "REVOKED"
  BY RevokedSound DEF Advances, LinksSound, Ended
<1>4. \A l \in DOMAIN links : Advances(l, new[l])
  BY <1>3, RowKept
<1>5. /\ \A l \in which : links'[l].state = "REVOKED"
      /\ \A l \in DOMAIN links : l \notin which => links'[l] = links[l] /\ challenges'[l] = challenges[l]
  BY <1>1, <1>2, <1>3
<1> HIDE DEF new
<1> QED
  BY <1>1, <1>2, <1>4, <1>5, RowsRewritten

-----------------------------------------------------------------------------
(* One lemma per action that disturbs what links stand for. *)

\* A link that nothing happens to stays authentic.
LEMMA BackedKept ==
  ASSUME NEW l \in DOMAIN links, Backed(l), links'[l] = links[l],
         challenges'[l].state = challenges[l].state,
         challenges'[l].credential = challenges[l].credential,
         sessions'[links[l].session] = "active",
         credentials'[links[l].credential] = credentials[links[l].credential],
         links[l].credential \in DOMAIN credentials'
  PROVE  Backed(l)'
  BY DEF Backed, Authentic, Active, PlayerOf

\* What is told under a link that is linked is sound.
LEMMA TellSound ==
  ASSUME links' \in Seq(Link), NEW l \in DOMAIN links', NEW link, link = links'[l],
         link.state \in Linked, Tell(link, l),
         \A a \in answers :
             /\ a.link \in DOMAIN links'
             /\ a.revision \in Nat /\ a.revision <= links'[a.link].revision
             /\ a.revision = links'[a.link].revision => links'[a.link].state \in Linked
  PROVE  AnswersSound'
<1> DEFINE told == [link |-> l, generation |-> link.generation, revision |-> link.revision]
<1>1. link \in Link
  OBVIOUS
<1>2. link.revision \in Nat /\ link.revision <= link.revision
  BY <1>1, WalletLinkAssumption DEF Link, Coordinates
<1>3. answers' = answers \cup {told} /\ told.link = l /\ told.revision = link.revision
  BY DEF Tell
<1> HIDE DEF told
<1> QED
  BY <1>2, <1>3 DEF AnswersSound

\* Answers whose links did not move.
LEMMA AnswersKept ==
  ASSUME AnswersSound, links' = links
  PROVE  \A a \in answers :
             /\ a.link \in DOMAIN links'
             /\ a.revision \in Nat /\ a.revision <= links'[a.link].revision
             /\ a.revision = links'[a.link].revision => links'[a.link].state \in Linked
  BY DEF AnswersSound

\* A new link: linked to the credential of its player, or permitted.
LEMMA SyncRuntimeKeeps ==
  ASSUME IInv, NEW s \in Sessions, NEW account \in Accounts, NEW start \in Starts,
         SyncRuntime(s, account, start)
  PROVE  IInv'
<1> DEFINE own == {c \in ActiveFor(account) : credentials[c].player = Owner[s]}
           link == [session |-> s, account |-> account, proof |-> "NONE",
                    credential |-> IF own = {} THEN 0 ELSE CHOOSE c \in own : TRUE,
                    generation |-> start[1], revision |-> start[2] + 1,
                    state |-> IF own = {} THEN "PERMISSIONED" ELSE "LINKED_EXISTING"]
           new == Len(links) + 1
<1>1. /\ Tables /\ OneCredential /\ OneCurrent /\ CredentialsNamed
      /\ LinksSound /\ LinksBacked /\ AnswersSound
  BY TypeParts DEF IInv
<1>2. /\ sessions[s] = "active" /\ SafeStart(start) /\ Current(Owner[s]) = {} /\ Len(links) < MaxLinks
      /\ Shape(link) /\ links' = Append(links, link) /\ challenges' = Append(challenges, NoChallenge)
      /\ UNCHANGED <<sessions, credentials, reviews>>
      /\ IF own = {} THEN UNCHANGED answers ELSE Tell(link, new)
  BY DEF SyncRuntime
<1>3. /\ own # {} => (CHOOSE c \in own : TRUE) \in own
      /\ \A c \in own : /\ c \in DOMAIN credentials /\ c \in 1 .. MaxCredentials /\ Active(c)
                        /\ credentials[c].player = Owner[s] /\ credentials[c].account = account
  <2>1. DOMAIN credentials = 1 .. Len(credentials) /\ Len(credentials) \in Nat
    BY <1>1 DEF Tables
  <2>2. \A c \in DOMAIN credentials : c \in 1 .. MaxCredentials
    BY <1>1, <2>1, WalletLinkAssumption DEF CredentialsNamed
  <2> QED
    BY <2>2 DEF ActiveFor
<1>4. own # {} => link.credential \in own
  BY <1>3
<1>5. link.credential \in 0 .. MaxCredentials
  <2>1. 0 \in 0 .. MaxCredentials /\ 1 .. MaxCredentials \subseteq 0 .. MaxCredentials
    BY WalletLinkAssumption
  <2>2. CASE own = {}
    BY <2>1, <2>2
  <2>3. CASE own # {}
    BY <1>3, <1>4, <2>1, <2>3
  <2> QED
    BY <2>2, <2>3
<1>6. /\ start[1] \in Nat /\ start[2] \in Nat
      /\ start[1] <= MaxCoordinate - 1 /\ start[2] + 4 <= MaxCoordinate
      /\ start[1] \in Coordinates /\ start[2] + 1 \in Coordinates
      /\ start[2] + 1 + 2 < MaxCoordinate
  BY <1>2, WalletLinkAssumption DEF SafeStart, Coordinates
<1>7. /\ link.session = s /\ link.account = account /\ link.proof = "NONE"
      /\ link.state = IF own = {} THEN "PERMISSIONED" ELSE "LINKED_EXISTING"
      /\ link.revision = start[2] + 1
  OBVIOUS
<1>8. link \in Link
  BY <1>5, <1>6 DEF Link, LinkStates, Linked, ChallengeStates
<1> HIDE DEF link, own
<1>9. NoChallenge \in Challenge /\ NoChallenge.state = "NONE"
  <2>1. 0 \in Coordinates /\ 0 \in 0 .. MaxCredentials
    BY WalletLinkAssumption DEF Coordinates
  <2> QED
    BY <2>1 DEF NoChallenge, Challenge, ChallengeStates
<1>10. RowSound(link, NoChallenge)
  BY <1>2, <1>6, <1>7, <1>8, <1>9 DEF RowSound, Admits
<1>11. /\ DOMAIN links = 1 .. Len(links) /\ Len(links) \in Nat /\ links \in Seq(Link)
       /\ challenges \in Seq(Challenge) /\ Len(challenges) = Len(links)
  BY <1>1 DEF Tables
<1>12. /\ links' \in Seq(Link) /\ Len(links') = new
       /\ links'[new] = link /\ \A l \in DOMAIN links : links'[l] = links[l]
       /\ DOMAIN links' = 1 .. new
  BY <1>2, <1>8, <1>11
<1>13. /\ challenges' \in Seq(Challenge) /\ Len(challenges') = new
       /\ challenges'[new] = NoChallenge /\ \A l \in DOMAIN links : challenges'[l] = challenges[l]
  BY <1>2, <1>9, <1>11
<1>14. DOMAIN links' = DOMAIN links \cup {new} /\ new \notin DOMAIN links
  BY <1>11, <1>12
<1>15. Len(links') <= MaxLinks
  BY <1>2, <1>11, <1>12, WalletLinkAssumption
<1>16. Tables'
  BY <1>1, <1>2, <1>12, <1>13, <1>14, <1>15 DEF Tables
<1>17. OneCredential' /\ CredentialsNamed'
  BY <1>1, <1>2 DEF OneCredential, CredentialsNamed, ActiveFor, Active
<1>18. OneCurrent'
  <2>1. \A p \in Players : Current(p)' \subseteq Current(p) \cup (IF p = Owner[s] THEN {new} ELSE {})
    BY <1>7, <1>12, <1>14 DEF Current, PlayerOf
  <2> QED
    BY <1>1, <1>2, <2>1 DEF OneCurrent
<1>19. LinksSound'
  BY <1>1, <1>10, <1>12, <1>13, <1>14 DEF LinksSound
<1>20. LinksBacked'
  <2>1. ASSUME NEW l \in DOMAIN links, links[l].state \in Linked PROVE Backed(l)'
    <3>1. Backed(l) /\ sessions[links[l].session] = "active"
         /\ links[l].credential \in DOMAIN credentials
      BY <1>1, <2>1 DEF LinksBacked, Backed, Authentic
    <3> QED
      BY <1>2, <1>12, <1>13, <3>1, BackedKept
  <2>2. PICK n, c : n = new /\ c = link.credential
    OBVIOUS
  <2>3. ASSUME link.state \in Linked PROVE Backed(n)'
    <3>1. own # {} /\ link.state = "LINKED_EXISTING"
      BY <1>7, <2>3 DEF Linked
    <3>2. /\ c \in DOMAIN credentials' /\ Active(c)'
          /\ credentials'[c].player = Owner[s] /\ credentials'[c].account = account
      BY <1>2, <1>3, <1>4, <2>2, <3>1 DEF Active
    <3>3. /\ links'[n].session = s /\ links'[n].account = account /\ links'[n].credential = c
          /\ links'[n].state = "LINKED_EXISTING" /\ sessions'[s] = "active"
      BY <1>2, <1>7, <1>12, <2>2, <3>1
    <3> QED
      BY <3>2, <3>3 DEF Backed, Authentic, PlayerOf, Linked
  <2>4. ASSUME NEW l \in DOMAIN links', links'[l].state \in Linked PROVE Backed(l)'
    BY <1>12, <1>14, <2>1, <2>2, <2>3, <2>4
  <2> QED
    BY <2>4 DEF LinksBacked
<1>21. AnswersSound'
  <2>1. \A a \in answers :
             /\ a.link \in DOMAIN links'
             /\ a.revision \in Nat /\ a.revision <= links'[a.link].revision
             /\ a.revision = links'[a.link].revision => links'[a.link].state \in Linked
    BY <1>1, <1>12, <1>14 DEF AnswersSound
  <2>2. CASE own = {}
    BY <1>2, <2>1, <2>2 DEF AnswersSound
  <2>3. CASE own # {}
    <3>1. link.state \in Linked /\ new \in DOMAIN links' /\ Tell(link, new)
      BY <1>2, <1>7, <1>14, <2>3 DEF Linked
    <3> HIDE DEF new
    <3> QED
      BY <1>12, <2>1, <3>1, TellSound
  <2> QED
    BY <2>2, <2>3
<1> QED
  BY <1>16, <1>17, <1>18, <1>19, <1>20, <1>21, TypeParts, PTL DEF IInv

\* A challenge that expires is the same otherwise.
LEMMA ChallengeExpiresKeeps ==
  ASSUME IInv, NEW l \in DOMAIN links, ChallengeExpires(l)
  PROVE  IInv'
<1>1. /\ Tables /\ OneCredential /\ OneCurrent /\ CredentialsNamed
      /\ LinksSound /\ LinksBacked /\ AnswersSound
  BY TypeParts DEF IInv
<1>2. /\ UNCHANGED <<sessions, links, credentials, reviews, answers>>
      /\ challenges' = [challenges EXCEPT ![l].expired = TRUE]
  BY DEF ChallengeExpires
<1>3. DOMAIN challenges = DOMAIN links /\ challenges[l] \in Challenge
      /\ DOMAIN links = 1 .. Len(links) /\ Len(links) \in Nat
  BY <1>1, RowTypes DEF Tables
<1>4. /\ challenges'[l] = [challenges[l] EXCEPT !.expired = TRUE]
      /\ \A m \in DOMAIN links : m # l => challenges'[m] = challenges[m]
  BY <1>2, <1>3
<1>5. /\ challenges'[l] \in Challenge
      /\ challenges'[l].state = challenges[l].state
      /\ challenges'[l].credential = challenges[l].credential
      /\ challenges'[l].generation = challenges[l].generation
      /\ challenges'[l].revision = challenges[l].revision
  BY <1>3, <1>4 DEF Challenge
<1>6. challenges' \in Seq(Challenge) /\ Len(challenges') = Len(links)
  <2>1. challenges \in Seq(Challenge) /\ Len(challenges) = Len(links)
    BY <1>1 DEF Tables
  <2>2. [challenges[l] EXCEPT !.expired = TRUE] \in Challenge
    BY <1>4, <1>5
  <2> QED
    BY <1>2, <1>3, <2>1, <2>2
<1>7. Tables' /\ OneCredential' /\ CredentialsNamed'
  BY <1>1, <1>2, <1>6 DEF Tables, OneCredential, CredentialsNamed, ActiveFor, Active
<1>8. OneCurrent'
  BY <1>1, <1>2 DEF OneCurrent, Current, PlayerOf
<1>9. LinksSound'
  <2>1. RowSound(links[l], challenges'[l])
    BY <1>1, <1>5 DEF LinksSound, RowSound, Admits
  <2> QED
    BY <1>1, <1>2, <1>4, <2>1 DEF LinksSound
<1>10. LinksBacked'
  <2>1. ASSUME NEW m \in DOMAIN links, links[m].state \in Linked PROVE Backed(m)'
    <3>1. Backed(m) /\ sessions[links[m].session] = "active"
         /\ links[m].credential \in DOMAIN credentials
      BY <1>1, <2>1 DEF LinksBacked, Backed, Authentic
    <3>2. challenges'[m].state = challenges[m].state /\ challenges'[m].credential = challenges[m].credential
      BY <1>4, <1>5
    <3> QED
      BY <1>2, <3>1, <3>2, BackedKept
  <2> QED
    BY <1>2, <2>1 DEF LinksBacked
<1>11. AnswersSound'
  BY <1>1, <1>2 DEF AnswersSound
<1> QED
  BY <1>7, <1>8, <1>9, <1>10, <1>11, TypeParts, PTL DEF IInv

\* A challenge takes no authority and gives none.
LEMMA IssueChallengeKeeps ==
  ASSUME IInv, NEW s \in Sessions, NEW l \in DOMAIN links, IssueChallenge(s, l)
  PROVE  IInv'
<1>1. /\ Tables /\ OneCredential /\ OneCurrent /\ CredentialsNamed
      /\ LinksSound /\ LinksBacked /\ AnswersSound
  BY TypeParts DEF IInv
<1>2. /\ links[l].state = "PERMISSIONED" /\ Write(l, Challenged(l))
      /\ UNCHANGED <<sessions, credentials, reviews, answers>>
  BY DEF IssueChallenge
<1>3. RowSound(links[l], challenges[l]) /\ links[l] \in Link
  BY <1>1, RowTypes DEF LinksSound
<1>4. /\ RowSound(Challenged(l).link, Challenged(l).challenge)
      /\ Challenged(l).link.state = "CHALLENGE_ISSUED"
      /\ Challenged(l).link.session = links[l].session
      /\ Challenged(l).link.revision > links[l].revision
  BY <1>2, <1>3, ChallengedSound
<1>5. Advances(l, Challenged(l))
  <2>1. Challenged(l).link.revision \in Nat /\ links[l].revision \in Nat
    BY <1>3, <1>4, WalletLinkAssumption DEF RowSound, Link, Coordinates
  <2>2. Challenged(l).link.revision >= links[l].revision
    BY <1>4, <2>1
  <2> QED
    BY <1>2, <1>4, <2>2 DEF Advances, Ended
<1>6. /\ links' \in Seq(Link) /\ challenges' \in Seq(Challenge)
      /\ Len(links') = Len(links) /\ Len(challenges') = Len(links)
      /\ DOMAIN links' = DOMAIN links
      /\ LinksSound' /\ OneCurrent'
      /\ \A a \in answers :
             /\ a.link \in DOMAIN links'
             /\ a.revision \in Nat /\ a.revision <= links'[a.link].revision
             /\ a.revision = links'[a.link].revision => links'[a.link].state \in Linked
      /\ links'[l] = Challenged(l).link /\ challenges'[l] = Challenged(l).challenge
      /\ \A m \in DOMAIN links : m # l => links'[m] = links[m] /\ challenges'[m] = challenges[m]
  BY <1>1, <1>2, <1>5, WriteAdvances
<1>7. Tables' /\ OneCredential' /\ CredentialsNamed'
  BY <1>1, <1>2, <1>6 DEF Tables, OneCredential, CredentialsNamed, ActiveFor, Active
<1>8. LinksBacked'
  <2>1. ASSUME NEW m \in DOMAIN links, links'[m].state \in Linked PROVE Backed(m)'
    <3>1. m # l
      BY <1>4, <1>6, <2>1 DEF Linked
    <3>2. Backed(m) /\ sessions[links[m].session] = "active"
         /\ links[m].credential \in DOMAIN credentials
      BY <1>1, <1>6, <2>1, <3>1 DEF LinksBacked, Backed, Authentic
    <3> QED
      BY <1>2, <1>6, <3>1, <3>2, BackedKept
  <2> QED
    BY <1>6, <2>1 DEF LinksBacked
<1>9. AnswersSound'
  BY <1>2, <1>6 DEF AnswersSound
<1> QED
  BY <1>6, <1>7, <1>8, <1>9, TypeParts, PTL DEF IInv

\* A disconnected link is no authority, and the others stay.
LEMMA DisconnectKeeps ==
  ASSUME IInv, NEW s \in Sessions, NEW l \in DOMAIN links, Disconnect(s, l)
  PROVE  IInv'
<1>1. /\ Tables /\ OneCredential /\ OneCurrent /\ CredentialsNamed
      /\ LinksSound /\ LinksBacked /\ AnswersSound
  BY TypeParts DEF IInv
<1>2. /\ links[l].state # "REVOKED" /\ Write(l, Disconnected(l))
      /\ links[l].generation <= MaxCoordinate - 1 /\ links[l].revision <= MaxCoordinate - 1
      /\ UNCHANGED <<sessions, credentials, reviews, answers>>
  BY DEF Disconnect
<1>3. RowSound(links[l], challenges[l]) /\ links[l] \in Link
  BY <1>1, RowTypes DEF LinksSound
<1>4. /\ RowSound(Disconnected(l).link, Disconnected(l).challenge)
      /\ Disconnected(l).link.state = "DISCONNECTED"
      /\ Disconnected(l).link.session = links[l].session
      /\ Disconnected(l).link.revision > links[l].revision
  <2>1. links[l].generation < MaxCoordinate /\ links[l].revision < MaxCoordinate
    BY <1>2, <1>3, WalletLinkAssumption DEF Link, Coordinates
  <2> QED
    BY <1>2, <1>3, <2>1, DisconnectedSound
<1>5. Advances(l, Disconnected(l))
  <2>1. Disconnected(l).link.revision \in Nat /\ links[l].revision \in Nat
    BY <1>3, <1>4, WalletLinkAssumption DEF RowSound, Link, Coordinates
  <2>2. Disconnected(l).link.revision >= links[l].revision
    BY <1>4, <2>1
  <2> QED
    BY <1>2, <1>4, <2>2 DEF Advances, Ended
<1>6. /\ links' \in Seq(Link) /\ challenges' \in Seq(Challenge)
      /\ Len(links') = Len(links) /\ Len(challenges') = Len(links)
      /\ DOMAIN links' = DOMAIN links
      /\ LinksSound' /\ OneCurrent'
      /\ \A a \in answers :
             /\ a.link \in DOMAIN links'
             /\ a.revision \in Nat /\ a.revision <= links'[a.link].revision
             /\ a.revision = links'[a.link].revision => links'[a.link].state \in Linked
      /\ links'[l] = Disconnected(l).link /\ challenges'[l] = Disconnected(l).challenge
      /\ \A m \in DOMAIN links : m # l => links'[m] = links[m] /\ challenges'[m] = challenges[m]
  BY <1>1, <1>2, <1>5, WriteAdvances
<1>7. Tables' /\ OneCredential' /\ CredentialsNamed'
  BY <1>1, <1>2, <1>6 DEF Tables, OneCredential, CredentialsNamed, ActiveFor, Active
<1>8. LinksBacked'
  <2>1. ASSUME NEW m \in DOMAIN links, links'[m].state \in Linked PROVE Backed(m)'
    <3>1. m # l
      BY <1>4, <1>6, <2>1 DEF Linked
    <3>2. Backed(m) /\ sessions[links[m].session] = "active"
         /\ links[m].credential \in DOMAIN credentials
      BY <1>1, <1>6, <2>1, <3>1 DEF LinksBacked, Backed, Authentic
    <3> QED
      BY <1>2, <1>6, <3>1, <3>2, BackedKept
  <2> QED
    BY <1>6, <2>1 DEF LinksBacked
<1>9. AnswersSound'
  BY <1>2, <1>6 DEF AnswersSound
<1> QED
  BY <1>6, <1>7, <1>8, <1>9, TypeParts, PTL DEF IInv

\* A proof links to an active credential of the player for the account.
LEMMA ConsumeProofKeeps ==
  ASSUME IInv, NEW s \in Sessions, NEW l \in DOMAIN links, ConsumeProof(s, l)
  PROVE  IInv'
<1> DEFINE account == links[l].account
           after == CredentialsFor(Owner[s], account)
           own == {c \in DOMAIN after : after[c].account = account /\ after[c].state = "active"
                                           /\ after[c].player = Owner[s]}
<1>1. /\ Tables /\ OneCredential /\ OneCurrent /\ CredentialsNamed
      /\ LinksSound /\ LinksBacked /\ AnswersSound
  BY TypeParts DEF IInv
<1>2. /\ sessions[s] = "active" /\ links[l].state = "CHALLENGE_ISSUED" /\ CoordinatesMatch(s, l)
      /\ Len(after) <= MaxCredentials /\ credentials' = after
      /\ UNCHANGED <<sessions, reviews>>
      /\ \E c \in own : Write(l, Proven(l, c)) /\ Tell(Proven(l, c).link, l)
  BY DEF ConsumeProof
<1>3. PICK c \in own : Write(l, Proven(l, c)) /\ Tell(Proven(l, c).link, l)
  BY <1>2
<1>4. links[l].session = s
  BY <1>2 DEF CoordinatesMatch
<1>5. RowSound(links[l], challenges[l]) /\ links[l] \in Link
  BY <1>1, RowTypes DEF LinksSound
<1>6. /\ after \in Seq([player : Players, account : Accounts, state : {"active", "revoked"}])
      /\ \A d \in DOMAIN credentials : d \in DOMAIN after /\ after[d] = credentials[d]
      /\ \A d, e \in DOMAIN after :
             (after[d].state = "active" /\ after[e].state = "active"
              /\ after[d].account = after[e].account) => d = e
  <2> DEFINE row == [player |-> Owner[s], account |-> account, state |-> "active"]
             Row == [player : Players, account : Accounts, state : {"active", "revoked"}]
  <2>1. row \in Row
    BY <1>5, WalletLinkAssumption DEF Link
  <2>2. credentials \in Seq(Row) /\ Len(credentials) \in Nat
        /\ DOMAIN credentials = 1 .. Len(credentials)
    BY <1>1 DEF Tables
  <2>3. \A d, e \in DOMAIN credentials :
            (credentials[d].state = "active" /\ credentials[e].state = "active"
             /\ credentials[d].account = credentials[e].account) => d = e
    <3>1. ASSUME NEW d \in DOMAIN credentials PROVE credentials[d].account \in Accounts
      <4> HIDE DEF Row
      <4>1. credentials[d] \in Row
        BY <2>2, <3>1, ElementOfSeq
      <4> QED
        BY <4>1 DEF Row
    <3>2. ASSUME NEW d \in DOMAIN credentials, NEW e \in DOMAIN credentials,
                 credentials[d].state = "active", credentials[e].state = "active",
                 credentials[d].account = credentials[e].account
          PROVE  d = e
      <4>1. d \in ActiveFor(credentials[d].account) /\ e \in ActiveFor(credentials[d].account)
        BY <3>2 DEF ActiveFor, Active
      <4> QED
        BY <1>1, <3>1, <4>1 DEF OneCredential
    <3> QED
      BY <3>2
  <2>4. CASE ActiveFor(account) # {}
    BY <2>2, <2>3, <2>4 DEF CredentialsFor
  <2>5. CASE ActiveFor(account) = {}
    <3> HIDE DEF row, Row
    <3>1. after = Append(credentials, row)
      BY <2>5 DEF CredentialsFor, row
    <3>2. /\ after \in Seq(Row) /\ DOMAIN after = DOMAIN credentials \cup {Len(credentials) + 1}
          /\ after[Len(credentials) + 1] = row /\ \A d \in DOMAIN credentials : after[d] = credentials[d]
      BY <2>1, <2>2, <3>1
    <3>3. \A d \in DOMAIN credentials : credentials[d].state = "active" => credentials[d].account # account
      BY <2>5 DEF ActiveFor, Active
    <3>4. row.account = account
      BY DEF row
    <3> HIDE DEF after, account
    <3> QED
      BY <2>3, <3>2, <3>3, <3>4 DEF Row
  <2> QED
    BY <2>4, <2>5
<1> HIDE DEF after
<1>7. /\ c \in DOMAIN after /\ after[c].account = account /\ after[c].state = "active"
      /\ after[c].player = Owner[s] /\ c \in 1 .. MaxCredentials
  BY <1>2, <1>3, <1>6, WalletLinkAssumption
<1>8. /\ RowSound(Proven(l, c).link, Proven(l, c).challenge)
      /\ Proven(l, c).link.state = "LINKED" /\ Proven(l, c).link.credential = c
      /\ Proven(l, c).link.session = links[l].session /\ Proven(l, c).link.account = links[l].account
      /\ Proven(l, c).link.revision > links[l].revision
      /\ Proven(l, c).challenge.state = "CONSUMED" /\ Proven(l, c).challenge.credential = c
  BY <1>2, <1>5, <1>7, ProvenSound
<1>9. Advances(l, Proven(l, c))
  <2>1. Proven(l, c).link.revision \in Nat /\ links[l].revision \in Nat
    BY <1>5, <1>8, WalletLinkAssumption DEF RowSound, Link, Coordinates
  <2>2. Proven(l, c).link.revision >= links[l].revision
    BY <1>8, <2>1
  <2> QED
    BY <1>2, <1>8, <2>2 DEF Advances, Ended
<1>10. /\ links' \in Seq(Link) /\ challenges' \in Seq(Challenge)
       /\ Len(links') = Len(links) /\ Len(challenges') = Len(links)
       /\ DOMAIN links' = DOMAIN links
       /\ LinksSound' /\ OneCurrent'
       /\ \A a \in answers :
             /\ a.link \in DOMAIN links'
             /\ a.revision \in Nat /\ a.revision <= links'[a.link].revision
             /\ a.revision = links'[a.link].revision => links'[a.link].state \in Linked
       /\ links'[l] = Proven(l, c).link /\ challenges'[l] = Proven(l, c).challenge
       /\ \A m \in DOMAIN links : m # l => links'[m] = links[m] /\ challenges'[m] = challenges[m]
  BY <1>1, <1>3, <1>9, WriteAdvances
<1>11. Tables' /\ CredentialsNamed'
  BY <1>1, <1>2, <1>6, <1>10 DEF Tables, CredentialsNamed
<1>12. OneCredential'
  BY <1>2, <1>6 DEF OneCredential, ActiveFor, Active
<1>13. LinksBacked'
  <2>1. ASSUME NEW m \in DOMAIN links, links'[m].state \in Linked, m # l PROVE Backed(m)'
    <3>1. Backed(m) /\ sessions[links[m].session] = "active"
         /\ links[m].credential \in DOMAIN credentials
      BY <1>1, <1>10, <2>1 DEF LinksBacked, Backed, Authentic, Active
    <3> QED
      BY <1>2, <1>6, <1>10, <2>1, <3>1, BackedKept
  <2>2. Backed(l)'
    BY <1>2, <1>4, <1>7, <1>8, <1>10 DEF Backed, Authentic, Active, PlayerOf, Linked
  <2> QED
    BY <1>10, <2>1, <2>2 DEF LinksBacked
<1>14. AnswersSound'
  <2>1. Proven(l, c).link.state \in Linked
    BY <1>8 DEF Linked
  <2> QED
    BY <1>3, <1>10, <2>1, TellSound
<1> QED
  BY <1>10, <1>11, <1>12, <1>13, <1>14, TypeParts, PTL DEF IInv

\* The links that go with a credential are those it authorises.
LEMMA RevokeCredentialKeeps ==
  ASSUME IInv, NEW s \in Sessions, NEW l \in DOMAIN links, RevokeCredential(s, l)
  PROVE  IInv'
<1> DEFINE c == links[l].credential
<1>1. /\ Tables /\ OneCredential /\ OneCurrent /\ CredentialsNamed
      /\ LinksSound /\ LinksBacked /\ AnswersSound
  BY TypeParts DEF IInv
<1>2. /\ RevokeAll(LinksOf(c)) /\ credentials' = [credentials EXCEPT ![c].state = "revoked"]
      /\ UNCHANGED <<sessions, reviews, answers>> /\ links[l].state \in Linked
  BY DEF RevokeCredential
<1>3. LinksOf(c) \in SUBSET DOMAIN links
  BY DEF LinksOf
<1>4. /\ links' \in Seq(Link) /\ challenges' \in Seq(Challenge)
      /\ Len(links') = Len(links) /\ Len(challenges') = Len(links)
      /\ DOMAIN links' = DOMAIN links
      /\ LinksSound' /\ OneCurrent'
      /\ \A a \in answers :
             /\ a.link \in DOMAIN links'
             /\ a.revision \in Nat /\ a.revision <= links'[a.link].revision
             /\ a.revision = links'[a.link].revision => links'[a.link].state \in Linked
      /\ \A m \in LinksOf(c) : links'[m].state = "REVOKED"
      /\ \A m \in DOMAIN links : m \notin LinksOf(c) => links'[m] = links[m] /\ challenges'[m] = challenges[m]
  BY <1>1, <1>2, <1>3, RevokeAllAdvances
<1>5. c \in DOMAIN credentials
  BY <1>1, <1>2 DEF LinksBacked, Backed
<1>6. /\ credentials' \in Seq([player : Players, account : Accounts, state : {"active", "revoked"}])
      /\ DOMAIN credentials' = DOMAIN credentials /\ Len(credentials') = Len(credentials)
      /\ \A d \in DOMAIN credentials :
             /\ credentials'[d].account = credentials[d].account
             /\ credentials'[d].state = "active" => credentials[d].state = "active"
             /\ d # c => credentials'[d] = credentials[d]
  <2> DEFINE Row == [player : Players, account : Accounts, state : {"active", "revoked"}]
             row == [credentials[c] EXCEPT !.state = "revoked"]
  <2>1. credentials \in Seq(Row) /\ DOMAIN credentials = 1 .. Len(credentials)
    BY <1>1 DEF Tables
  <2>2. credentials' = [credentials EXCEPT ![c] = row]
    BY <1>2
  <2>3. credentials[c] \in Row
    <3> HIDE DEF Row, c
    <3> QED
      BY <1>5, <2>1, ElementOfSeq
  <2>4. row \in Row /\ row.account = credentials[c].account /\ row.state = "revoked"
    BY <2>3
  <2> HIDE DEF c, Row, row
  <2>5. /\ credentials'[c] = row /\ DOMAIN credentials' = DOMAIN credentials
        /\ \A d \in DOMAIN credentials : d # c => credentials'[d] = credentials[d]
    BY <1>5, <2>2
  <2>6. credentials' \in Seq(Row) /\ Len(credentials') = Len(credentials)
    BY <1>5, <2>1, <2>2, <2>4
  <2>7. credentials'[c].account = credentials[c].account /\ credentials'[c].state # "active"
    BY <2>4, <2>5
  <2> QED
    BY <2>5, <2>6, <2>7 DEF Row
<1>7. Tables' /\ CredentialsNamed'
  BY <1>1, <1>2, <1>4, <1>6 DEF Tables, CredentialsNamed
<1>8. OneCredential'
  <2>1. \A account \in Accounts : ActiveFor(account)' \subseteq ActiveFor(account)
    BY <1>6 DEF ActiveFor, Active
  <2> QED
    BY <1>1, <2>1 DEF OneCredential
<1>9. LinksBacked'
  <2>1. ASSUME NEW m \in DOMAIN links, links'[m].state \in Linked PROVE Backed(m)'
    <3>1. m \notin LinksOf(c)
      BY <1>4, <2>1 DEF Linked
    <3>2. links'[m] = links[m] /\ links[m].state \in Linked
      BY <1>4, <2>1, <3>1
    <3>3. Backed(m) /\ sessions[links[m].session] = "active"
         /\ links[m].credential \in DOMAIN credentials
      BY <1>1, <3>2 DEF LinksBacked, Backed, Authentic
    <3>4. links[m].credential # c
      BY <3>1, <3>2, <3>3 DEF Backed, Authentic, LinksOf, Linked
    <3> QED
      BY <1>2, <1>4, <1>6, <3>1, <3>3, <3>4, BackedKept
  <2> QED
    BY <1>4, <2>1 DEF LinksBacked
<1>10. AnswersSound'
  BY <1>2, <1>4 DEF AnswersSound
<1> QED
  BY <1>4, <1>7, <1>8, <1>9, <1>10, TypeParts, PTL DEF IInv

\* A session that changes takes its links with it.
LEMMA ChangeSessionKeeps ==
  ASSUME IInv, NEW s \in Sessions, NEW state \in SessionStates, ChangeSession(s, state)
  PROVE  IInv'
<1> DEFINE which == {l \in DOMAIN links : links[l].session = s /\ links[l].state # "REVOKED"}
<1>1. /\ Tables /\ OneCredential /\ OneCurrent /\ CredentialsNamed
      /\ LinksSound /\ LinksBacked /\ AnswersSound
  BY TypeParts DEF IInv
<1>2. /\ RevokeAll(which) /\ sessions' = [sessions EXCEPT ![s] = state]
      /\ UNCHANGED <<credentials, reviews, answers>>
  BY DEF ChangeSession
<1>3. which \in SUBSET DOMAIN links
  OBVIOUS
<1>4. /\ links' \in Seq(Link) /\ challenges' \in Seq(Challenge)
      /\ Len(links') = Len(links) /\ Len(challenges') = Len(links)
      /\ DOMAIN links' = DOMAIN links
      /\ LinksSound' /\ OneCurrent'
      /\ \A a \in answers :
             /\ a.link \in DOMAIN links'
             /\ a.revision \in Nat /\ a.revision <= links'[a.link].revision
             /\ a.revision = links'[a.link].revision => links'[a.link].state \in Linked
      /\ \A m \in which : links'[m].state = "REVOKED"
      /\ \A m \in DOMAIN links : m \notin which => links'[m] = links[m] /\ challenges'[m] = challenges[m]
  <2> HIDE DEF which
  <2> QED
    BY <1>1, <1>2, <1>3, RevokeAllAdvances
<1>5. Tables' /\ OneCredential' /\ CredentialsNamed'
  BY <1>1, <1>2, <1>4 DEF Tables, OneCredential, CredentialsNamed, ActiveFor, Active
<1>6. LinksBacked'
  <2>1. ASSUME NEW m \in DOMAIN links, links'[m].state \in Linked PROVE Backed(m)'
    <3>1. m \notin which
      BY <1>4, <2>1 DEF Linked
    <3>2. links'[m] = links[m] /\ links[m].state \in Linked /\ links[m].session # s
      BY <1>4, <2>1, <3>1 DEF Linked
    <3>3. Backed(m) /\ sessions[links[m].session] = "active"
         /\ links[m].credential \in DOMAIN credentials
      BY <1>1, <3>2 DEF LinksBacked, Backed, Authentic
    <3>4. sessions'[links[m].session] = "active"
      <4>1. links[m].session \in Sessions /\ sessions \in [Sessions -> SessionStates]
        BY <1>1, RowTypes DEF Tables, Link
      <4> QED
        BY <1>2, <3>2, <3>3, <4>1
    <3> QED
      BY <1>2, <1>4, <3>1, <3>3, <3>4, BackedKept
  <2> QED
    BY <1>4, <2>1 DEF LinksBacked
<1>7. AnswersSound'
  BY <1>2, <1>4 DEF AnswersSound
<1> QED
  BY <1>4, <1>5, <1>6, <1>7, TypeParts, PTL DEF IInv

\* A delivery that is acknowledged takes nothing.
LEMMA AcknowledgeKeeps ==
  ASSUME IInv, NEW s \in Sessions, Acknowledge(s)
  PROVE  IInv'
<1>1. /\ Tables /\ OneCredential /\ OneCurrent /\ CredentialsNamed
      /\ LinksSound /\ LinksBacked /\ AnswersSound
  BY TypeParts DEF IInv
<1>2. /\ sessions' = [sessions EXCEPT ![s] = "active"]
      /\ UNCHANGED <<links, challenges, credentials, reviews, answers>>
  BY DEF Acknowledge
<1>3. sessions' \in [Sessions -> SessionStates]
  BY <1>1, <1>2 DEF Tables, SessionStates
<1>4. Tables' /\ OneCredential' /\ CredentialsNamed' /\ OneCurrent'
  BY <1>1, <1>2, <1>3 DEF Tables, OneCredential, CredentialsNamed, ActiveFor, Active,
                          OneCurrent, Current, PlayerOf
<1>5. LinksSound' /\ AnswersSound'
  BY <1>1, <1>2 DEF LinksSound, AnswersSound
<1>6. LinksBacked'
  <2>1. ASSUME NEW m \in DOMAIN links, links[m].state \in Linked PROVE Backed(m)'
    <3>1. Backed(m) /\ sessions[links[m].session] = "active"
         /\ links[m].credential \in DOMAIN credentials
      BY <1>1, <2>1 DEF LinksBacked, Backed, Authentic
    <3>2. sessions'[links[m].session] = "active"
      <4>1. links[m].session \in Sessions /\ sessions \in [Sessions -> SessionStates]
        BY <1>1, RowTypes DEF Tables, Link
      <4> QED
        BY <1>2, <3>1, <4>1
    <3> QED
      BY <1>2, <3>1, <3>2, BackedKept
  <2> QED
    BY <1>2, <2>1 DEF LinksBacked
<1> QED
  BY <1>4, <1>5, <1>6, TypeParts, PTL DEF IInv

\* Preparing a review touches no link.
LEMMA PrepareReviewKeeps ==
  ASSUME IInv, NEW s \in Sessions, NEW l \in DOMAIN links, PrepareReview(s, l)
  PROVE  IInv'
<1>1. /\ Tables /\ OneCredential /\ OneCurrent /\ CredentialsNamed
      /\ LinksSound /\ LinksBacked /\ AnswersSound
  BY TypeParts DEF IInv
<1>2. /\ reviews' = reviews \cup {l}
      /\ UNCHANGED <<sessions, links, challenges, credentials, answers>>
  BY DEF PrepareReview
<1>3. Tables' /\ OneCredential' /\ CredentialsNamed' /\ OneCurrent'
  BY <1>1, <1>2 DEF Tables, OneCredential, CredentialsNamed, ActiveFor, Active,
                    OneCurrent, Current, PlayerOf
<1>4. LinksSound' /\ AnswersSound' /\ LinksBacked'
  BY <1>1, <1>2 DEF LinksSound, AnswersSound, LinksBacked, Backed, Authentic, Active, PlayerOf
<1> QED
  BY <1>3, <1>4, TypeParts, PTL DEF IInv

\* An answer about a ready link is sound.
LEMMA TellKeeps ==
  ASSUME IInv, NEW s \in Sessions, NEW l \in DOMAIN links, Ready(s, l), Tell(links[l], l),
         UNCHANGED <<sessions, links, challenges, credentials, reviews>>
  PROVE  IInv'
<1>1. /\ Tables /\ OneCredential /\ OneCurrent /\ CredentialsNamed
      /\ LinksSound /\ LinksBacked /\ AnswersSound
  BY TypeParts DEF IInv
<1>2. Tables' /\ OneCredential' /\ CredentialsNamed' /\ OneCurrent'
  BY <1>1 DEF Tables, OneCredential, CredentialsNamed, ActiveFor, Active,
              OneCurrent, Current, PlayerOf
<1>3. LinksSound' /\ LinksBacked'
  BY <1>1 DEF LinksSound, LinksBacked, Backed, Authentic, Active, PlayerOf
<1>4. AnswersSound'
  <2>1. PICK link : link = links'[l]
    OBVIOUS
  <2>2. link.state \in Linked /\ Tell(link, l) /\ l \in DOMAIN links' /\ links' \in Seq(Link)
    BY <1>1, <2>1 DEF Ready, Tables
  <2>3. /\ links' = links
        /\ \A a \in answers :
             /\ a.link \in DOMAIN links'
             /\ a.revision \in Nat /\ a.revision <= links'[a.link].revision
             /\ a.revision = links'[a.link].revision => links'[a.link].state \in Linked
    BY <1>1, AnswersKept
  <2> QED
    BY <2>1, <2>2, <2>3, TellSound
<1> QED
  BY <1>2, <1>3, <1>4, TypeParts, PTL DEF IInv

-----------------------------------------------------------------------------
(* The invariant holds always. *)

\* The initial states satisfy the invariant.
LEMMA InitIInv == Init => IInv
<1> SUFFICES ASSUME Init PROVE IInv
  OBVIOUS
<1>1. links = << >> /\ challenges = << >> /\ reviews = {} /\ answers = {}
      /\ sessions \in [Sessions -> {"pending-delivery", "active"}]
  BY DEF Init
<1>2. /\ credentials \in Seq([player : Players, account : Accounts, state : {"active", "revoked"}])
      /\ Len(credentials) <= 1 /\ Len(credentials) \in Nat /\ DOMAIN credentials = 1 .. Len(credentials)
  <2>1. CASE credentials = << >>
    BY <2>1
  <2>2. ASSUME NEW p \in Players, NEW account \in Accounts,
               credentials = <<[player |-> p, account |-> account, state |-> "active"]>>
        PROVE  <1>2
    BY <2>2
  <2> QED
    BY <2>1, <2>2 DEF Init
<1>3. Tables
  BY <1>1, <1>2, WalletLinkAssumption DEF Tables, SessionStates
<1>4. OneCredential
  BY <1>2 DEF OneCredential, ActiveFor
<1>5. CredentialsNamed
  BY <1>2, WalletLinkAssumption DEF CredentialsNamed
<1>6. DOMAIN links = {}
  BY <1>1
<1>7. OneCurrent /\ LinksSound /\ LinksBacked /\ AnswersSound
  BY <1>1, <1>6 DEF OneCurrent, Current, LinksSound, LinksBacked, AnswersSound
<1> QED
  BY <1>3, <1>4, <1>5, <1>7, TypeParts DEF IInv

\* Every step keeps the invariant.
LEMMA NextIInv == IInv /\ [Next]_vars => IInv'
<1> SUFFICES ASSUME IInv, [Next]_vars PROVE IInv'
  OBVIOUS
<1>1. ASSUME NEW s \in Sessions, NEW account \in Accounts, NEW start \in Starts,
             SyncRuntime(s, account, start)
      PROVE  IInv'
  BY <1>1, SyncRuntimeKeeps
<1>2. ASSUME NEW l \in DOMAIN links, ChallengeExpires(l) PROVE IInv'
  BY <1>2, ChallengeExpiresKeeps
<1>3. ASSUME NEW s \in Sessions, NEW l \in DOMAIN links, IssueChallenge(s, l) PROVE IInv'
  BY <1>3, IssueChallengeKeeps
<1>4. ASSUME NEW s \in Sessions, NEW l \in DOMAIN links, ConsumeProof(s, l) PROVE IInv'
  BY <1>4, ConsumeProofKeeps
<1>5. ASSUME NEW s \in Sessions, NEW l \in DOMAIN links, Disconnect(s, l) PROVE IInv'
  BY <1>5, DisconnectKeeps
<1>6. ASSUME NEW s \in Sessions, NEW l \in DOMAIN links, RevokeCredential(s, l) PROVE IInv'
  BY <1>6, RevokeCredentialKeeps
<1>7. ASSUME NEW s \in Sessions, NEW l \in DOMAIN links, PrepareReview(s, l) PROVE IInv'
  BY <1>7, PrepareReviewKeeps
<1>8. ASSUME NEW s \in Sessions, NEW l \in DOMAIN links, Preflight(s, l) PROVE IInv'
  BY <1>8, TellKeeps DEF Preflight
<1>9. ASSUME NEW s \in Sessions, NEW l \in DOMAIN links, Restore(s, l) PROVE IInv'
  BY <1>9, TellKeeps DEF Restore, Validated
<1>10. ASSUME NEW s \in Sessions, NEW state \in SessionStates, ChangeSession(s, state) PROVE IInv'
  BY <1>10, ChangeSessionKeeps
<1>11. ASSUME NEW s \in Sessions, Acknowledge(s) PROVE IInv'
  BY <1>11, AcknowledgeKeeps
<1>12. ASSUME UNCHANGED vars PROVE IInv'
  <2>1. UNCHANGED <<sessions, links, challenges, credentials, reviews, answers>>
    BY <1>12 DEF vars
  <2> QED
    BY <2>1 DEF IInv, TypeOK, CredentialsNamed, LinksSound, LinksBacked, Backed, Authentic, Active,
                PlayerOf, AnswersSound, ActiveFor, Current
<1> QED
  BY <1>1, <1>2, <1>3, <1>4, <1>5, <1>6, <1>7, <1>8, <1>9, <1>10, <1>11, <1>12 DEF Next

\* The invariant holds in every reachable state.
THEOREM AlwaysIInv == Spec => []IInv
  BY InitIInv, NextIInv, PTL DEF Spec

-----------------------------------------------------------------------------
(* The results. *)

\* Rows keep the types and the unique indexes of the schema: an account has one
\* active credential and a player one current link (migration 0007).
THEOREM TypeCorrectness == Spec => []TypeOK
<1>1. IInv => TypeOK
  BY DEF IInv
<1> QED
  BY <1>1, AlwaysIInv, PTL

\* A link that is shown as linked always has its authority: an active credential
\* of its player, a delivered session, a consumed challenge (readyRuntime).
THEOREM LinkedAlwaysAuthentic == Spec => []LinkedIsAuthentic
<1>1. IInv => LinkedIsAuthentic
  BY DEF IInv, LinksBacked, Backed, LinkedIsAuthentic
<1> QED
  BY <1>1, AlwaysIInv, PTL

\* An answer stands as long as the link has the coordinates it was told, for
\* whatever takes its authority moves them (preflight, restoreRuntime).
THEOREM AnswersAlwaysStand == Spec => []AnswersStandWhileCurrent
<1>1. IInv => AnswersStandWhileCurrent
  BY DEF IInv, LinksBacked, Backed, AnswersSound, AnswersStandWhileCurrent
<1> QED
  BY <1>1, AlwaysIInv, PTL

\* What a call or a trigger writes is never refused by the schema, up to the
\* last coordinate (safeCoordinate, migration 0007).
THEOREM WritesAlwaysAdmitted == Spec => []WritesAdmitted
<1>1. ASSUME IInv, NEW l \in DOMAIN links
      PROVE  /\ RowAdmitted(Revoked(l))
             /\ links[l].state = "PERMISSIONED" => RowAdmitted(Challenged(l))
             /\ links[l].state = "CHALLENGE_ISSUED" => RowAdmitted(Proven(l, MaxCredentials))
             /\ links[l].state \notin Ended => RowAdmitted(Disconnected(l))
  <2>1. RowSound(links[l], challenges[l])
    BY <1>1 DEF IInv, LinksSound
  <2>2. MaxCredentials \in 1 .. MaxCredentials
    BY WalletLinkAssumption
  <2>3. links[l].state \notin Ended =>
            /\ links[l].state # "REVOKED"
            /\ links[l].generation < MaxCoordinate /\ links[l].revision < MaxCoordinate
    BY <2>1 DEF RowSound, Admits, Shape, Ended
  <2>4. RowAdmitted(Revoked(l))
    BY <2>1, RevokedSound DEF RowAdmitted, RowSound
  <2>5. links[l].state = "PERMISSIONED" => RowAdmitted(Challenged(l))
    BY <2>1, ChallengedSound DEF RowAdmitted, RowSound
  <2>6. links[l].state = "CHALLENGE_ISSUED" => RowAdmitted(Proven(l, MaxCredentials))
    BY <2>1, <2>2, ProvenSound DEF RowAdmitted, RowSound
  <2>7. links[l].state \notin Ended => RowAdmitted(Disconnected(l))
    BY <2>1, <2>3, DisconnectedSound DEF RowAdmitted, RowSound
  <2> QED
    BY <2>4, <2>5, <2>6, <2>7
<1>2. IInv => WritesAdmitted
  BY <1>1 DEF WritesAdmitted
<1> QED
  BY <1>2, AlwaysIInv, PTL
=============================================================================
