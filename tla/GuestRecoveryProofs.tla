------------------------- MODULE GuestRecoveryProofs -------------------------
(***************************************************************************)
(* Theorems of GuestRecovery, for any number of browsers, saves, secrets   *)
(* and answers.  The invariant adds to the properties what the secrets     *)
(* ever stored and the receipts of imports know of the current secret.     *)
(***************************************************************************)
EXTENDS GuestRecovery, TLAPS

-----------------------------------------------------------------------------
(* The inductive invariant. *)

\* The three parts of TypeOK.
CredentialTypes ==
    /\ guest \in Guest
    /\ current \in Secrets \cup {NoSecret} /\ (current # NoSecret <=> guest.state = "live")
    /\ predecessor \in [secret : Secrets \cup {NoSecret}, grace : BOOLEAN]
    /\ capability \in BOOLEAN
    /\ drawn \in 0 .. MaxLineages
    /\ known \subseteq Secrets

SaveTypes ==
    /\ exports \in [ExportIds -> Envelope \cup {NoExport}]
    /\ receipts \in [ImportIds -> Receipt \cup {NoReceipt}]
    /\ spent \subseteq ImportIds \X ExportIds
    /\ over \subseteq ExportIds /\ unsound \subseteq ExportIds

BrowserTypes ==
    /\ cookies \in [Browsers -> Secrets \cup {NoSecret}]
    /\ claimants \subseteq Browsers /\ (claimants # {} => capability)
    /\ answers \subseteq Answer
    /\ acted \subseteq Lineages

\* Nobody is on the way to a claim capability that is not stored.
ClaimsStored == \A a \in answers : a.claim => capability

\* The current secret is the last of the lineage drawn last, so that one derived
\* from it, or drawn anew, was never stored before.
Lineage ==
    /\ predecessor.grace => predecessor.secret # NoSecret
    /\ predecessor.secret # NoSecret => guest.state = "live"
    /\ guest.state = "none" => known = {}
    /\ \A s \in known :
           /\ s[1] <= drawn
           /\ current # NoSecret /\ s[1] = current[1] => s[2] <= current[2]
    /\ current # NoSecret => current[1] <= drawn

\* At most one import waits for somebody to use its secret; it is the current one,
\* and no file is left that another import could take.
Delivery ==
    /\ \A i \in ImportIds : receipts[i] # NoReceipt =>
           /\ guest.state = "live"
           /\ receipts[i].issued[1] <= drawn
           /\ receipts[i].issued[1] \notin acted =>
                  /\ receipts[i].revision = guest.revision
                  /\ predecessor = NoPredecessor
                  /\ current = receipts[i].issued
    /\ \A i, j \in ImportIds :
           receipts[i] # NoReceipt /\ receipts[j] # NoReceipt
             /\ receipts[i].issued[1] = receipts[j].issued[1] => i = j
    /\ \A e \in ExportIds, i \in ImportIds :
           exports[e] # NoExport /\ receipts[i] # NoReceipt => receipts[i].issued[1] \in acted

IInv == TypeOK /\ RotationConverges /\ ClaimsStored /\ Lineage /\ Delivery

-----------------------------------------------------------------------------
(* Secrets and answers. *)

\* TypeOK by parts.
LEMMA TypeParts == TypeOK <=> CredentialTypes /\ SaveTypes /\ BrowserTypes
  BY DEF TypeOK, CredentialTypes, SaveTypes, BrowserTypes

\* An empty cookie is no secret.
LEMMA SecretsDiffer == NoSecret \notin Secrets
  BY GuestRecoveryAssumption DEF Secrets, Lineages

\* An answer that is told has the type of one.
LEMMA TellTypes ==
  ASSUME BrowserTypes, NEW b \in Browsers, NEW secret \in Secrets \cup {NoSecret}, NEW claim \in BOOLEAN,
         Tell(b, secret, claim)
  PROVE  answers' \subseteq Answer
<1> [to |-> b, guest |-> secret, claim |-> claim] \in Answer
  BY DEF Answer
<1> QED
  BY DEF BrowserTypes, Tell

\* Answers that lose their capability keep their type, and have none.
LEMMA SupersededTypes ==
  ASSUME BrowserTypes
  PROVE  Superseded \subseteq Answer /\ \A a \in Superseded : a.claim = FALSE
<1> SUFFICES ASSUME NEW x \in answers
             PROVE  LET a == [x EXCEPT !.claim = FALSE] IN a \in Answer /\ a.claim = FALSE
  BY DEF Superseded
<1> QED
  BY DEF BrowserTypes, Answer

\* A rotation within its bound derives a secret.
LEMMA DerivedSecret ==
  ASSUME CredentialTypes, Alive, CanDerive
  PROVE  /\ current \in Secrets /\ Derived(current) \in Secrets
         /\ Derived(current)[1] = current[1] /\ Derived(current)[2] = current[2] + 1
<1>1. current \in Secrets
  BY DEF CredentialTypes, Alive
<1>2. current[1] \in Lineages /\ current[2] \in 0 .. MaxPosition
  BY <1>1 DEF Secrets
<1>3. current[2] + 1 \in 0 .. MaxPosition
  BY <1>2, GuestRecoveryAssumption DEF CanDerive
<1> QED
  BY <1>1, <1>2, <1>3 DEF Secrets, Derived

\* An import within its bound draws a secret.
LEMMA DrawnSecret ==
  ASSUME CredentialTypes, drawn < MaxLineages
  PROVE  <<drawn + 1, 0>> \in Secrets
  BY GuestRecoveryAssumption DEF CredentialTypes, Secrets, Lineages

\* Resume and Rotate make the current secret the predecessor of the one derived from it.
LEMMA RotationTypes ==
  ASSUME CredentialTypes, Lineage, Alive, CanDerive, RotateTo(Derived(current)),
         UNCHANGED <<capability, drawn>>
  PROVE  CredentialTypes' /\ RotationConverges' /\ Lineage'
<1> DEFINE next == Derived(current)
<1>1. current \in Secrets /\ next \in Secrets /\ next[1] = current[1] /\ next[2] = current[2] + 1
  BY DerivedSecret
<1>2. current # NoSecret /\ next # NoSecret
  BY <1>1, SecretsDiffer
<1>3. /\ current' = next /\ predecessor' = [secret |-> current, grace |-> TRUE]
      /\ known' = known \cup {next} /\ guest' = [guest EXCEPT !.due = FALSE]
  BY DEF RotateTo
<1>4. guest.state = "live" /\ guest' \in Guest /\ guest'.state = "live"
  BY <1>3 DEF Alive, CredentialTypes, Guest
<1>5. RotationConverges'
  BY <1>3 DEF RotationConverges, Derived
<1> HIDE DEF next
<1>6. CredentialTypes'
  BY <1>1, <1>2, <1>3, <1>4 DEF CredentialTypes
<1>7. Lineage'
  <2>1. current[1] \in Nat /\ current[2] \in Nat
    BY <1>1, GuestRecoveryAssumption DEF Secrets, Lineages
  <2>2. \A s \in known : s[1] \in Nat /\ s[2] \in Nat
    BY GuestRecoveryAssumption DEF CredentialTypes, Secrets, Lineages
  <2>3. ASSUME NEW s \in known'
        PROVE  s[1] <= drawn /\ (s[1] = next[1] => s[2] <= next[2])
    BY <1>1, <1>2, <1>3, <2>1, <2>2 DEF Lineage
  <2> QED
    BY <1>1, <1>2, <1>3, <1>4, <2>3 DEF Lineage
<1> QED
  BY <1>5, <1>6, <1>7

\* Import and ReplayImport leave one secret, of a lineage of its own.
LEMMA RedrawTypes ==
  ASSUME CredentialTypes, Lineage, Alive, NEW b, Redraw(b)
  PROVE  CredentialTypes' /\ RotationConverges' /\ Lineage'
<1>1. <<drawn + 1, 0>> \in Secrets /\ <<drawn + 1, 0>> # NoSecret
  BY DrawnSecret, SecretsDiffer DEF Redraw
<1>2. /\ current' = <<drawn + 1, 0>> /\ drawn' = drawn + 1 /\ known' = known \cup {<<drawn + 1, 0>>}
      /\ predecessor' = NoPredecessor /\ guest' = [guest EXCEPT !.due = FALSE]
      /\ drawn < MaxLineages /\ capability' = capability
  BY DEF Redraw
<1>3. guest.state = "live" /\ guest' \in Guest /\ guest'.state = "live"
  BY <1>2 DEF Alive, CredentialTypes, Guest
<1>4. drawn \in Nat /\ drawn + 1 \in 0 .. MaxLineages
  BY <1>2, GuestRecoveryAssumption DEF CredentialTypes
<1>5. CredentialTypes'
  BY <1>1, <1>2, <1>3, <1>4 DEF CredentialTypes, NoPredecessor
<1>6. RotationConverges'
  BY <1>2 DEF RotationConverges, NoPredecessor
<1>7. Lineage'
  <2>1. ASSUME NEW s \in known'
        PROVE  s[1] <= drawn + 1 /\ (s[1] = drawn + 1 => s[2] <= 0)
    <3>1. CASE s = <<drawn + 1, 0>>
      BY <3>1, <1>4
    <3>2. CASE s \in known
      <4>1. s[1] \in Nat /\ s[1] <= drawn
        BY <3>2, GuestRecoveryAssumption DEF CredentialTypes, Secrets, Lineages, Lineage
      <4> QED
        BY <4>1, <1>4
    <3> QED
      BY <1>2, <3>1, <3>2
  <2> QED
    BY <1>1, <1>2, <1>3, <1>4, <2>1 DEF Lineage, NoPredecessor
<1> QED
  BY <1>5, <1>6, <1>7

-----------------------------------------------------------------------------
(* Every action preserves the parts. *)

\* The rows of the guest and its secrets.
LEMMA CredentialsPreserved ==
  ASSUME CredentialTypes, RotationConverges, Lineage, [Next]_vars
  PROVE  CredentialTypes' /\ RotationConverges' /\ Lineage'
<1> USE DEF CredentialTypes, Guest, RotationConverges, Lineage
<1>1. ASSUME NEW b \in Browsers, Issue(b) PROVE CredentialTypes' /\ RotationConverges' /\ Lineage'
  BY <1>1, SecretsDiffer, GuestRecoveryAssumption DEF Issue, FreshCapability, Secrets, Lineages
<1>2. ASSUME NEW b \in Browsers, Resume(b) PROVE CredentialTypes' /\ RotationConverges' /\ Lineage'
  BY <1>2, RotationTypes DEF Resume
<1>3. ASSUME NEW b \in Browsers, Rotate(b) PROVE CredentialTypes' /\ RotationConverges' /\ Lineage'
  BY <1>3, RotationTypes DEF Rotate
<1>4. ASSUME NEW b \in Browsers, RotateAgain(b)
      PROVE  CredentialTypes' /\ RotationConverges' /\ Lineage'
  BY <1>4 DEF RotateAgain, Alive, credentials
<1>5. ASSUME NEW b \in Browsers, RotateClaimCapability(b)
      PROVE  CredentialTypes' /\ RotationConverges' /\ Lineage'
  BY <1>5 DEF RotateClaimCapability, Alive, FreshCapability
<1>6. ASSUME NEW b \in Browsers, Play(b) PROVE CredentialTypes' /\ RotationConverges' /\ Lineage'
  BY <1>6, GuestRecoveryAssumption DEF Play, Alive, Revisions, credentials
<1>7. ASSUME NEW b \in Browsers, Delete(b) PROVE CredentialTypes' /\ RotationConverges' /\ Lineage'
  BY <1>7 DEF Delete, Alive, Gone, NoPredecessor
<1>8. ASSUME NEW b \in Browsers, Claimed(b) PROVE CredentialTypes' /\ RotationConverges' /\ Lineage'
  BY <1>8 DEF Claimed, Alive, Gone, NoPredecessor
<1>9. ASSUME NEW b \in Browsers, ResetCookies(b)
      PROVE  CredentialTypes' /\ RotationConverges' /\ Lineage'
  BY <1>9 DEF ResetCookies, credentials
<1>10. ASSUME NEW b \in Browsers, NEW e \in ExportIds, CreateExport(b, e)
       PROVE  CredentialTypes' /\ RotationConverges' /\ Lineage'
  BY <1>10 DEF CreateExport, Alive, credentials
<1>11. ASSUME NEW b \in Browsers, NEW i \in ImportIds, NEW e \in ExportIds, Import(b, i, e)
       PROVE  CredentialTypes' /\ RotationConverges' /\ Lineage'
  BY <1>11, RedrawTypes DEF Import, CanImport
<1>12. ASSUME NEW b \in Browsers, NEW i \in ImportIds, ReplayImport(b, i)
       PROVE  CredentialTypes' /\ RotationConverges' /\ Lineage'
  BY <1>12, RedrawTypes DEF ReplayImport, CanReplay
<1>13. ASSUME NEW e \in ExportIds, ExportExpires(e)
       PROVE  CredentialTypes' /\ RotationConverges' /\ Lineage'
  BY <1>13 DEF ExportExpires, credentials
<1>14. ASSUME NEW e \in ExportIds, IntegrityKeyLost(e)
       PROVE  CredentialTypes' /\ RotationConverges' /\ Lineage'
  BY <1>14 DEF IntegrityKeyLost, credentials
<1>15. ASSUME NEW a \in answers, Receive(a) PROVE CredentialTypes' /\ RotationConverges' /\ Lineage'
  BY <1>15 DEF Receive, credentials
<1>16. ASSUME NEW a \in answers, Lose(a) PROVE CredentialTypes' /\ RotationConverges' /\ Lineage'
  BY <1>16 DEF Lose, credentials
<1>17. ASSUME GraceEnds PROVE CredentialTypes' /\ RotationConverges' /\ Lineage'
  BY <1>17 DEF GraceEnds
<1>18. ASSUME BecomesDue PROVE CredentialTypes' /\ RotationConverges' /\ Lineage'
  BY <1>18 DEF BecomesDue, credentials
<1>19. ASSUME GuestExpires PROVE CredentialTypes' /\ RotationConverges' /\ Lineage'
  BY <1>19 DEF GuestExpires, credentials
<1>20. ASSUME DeleteExpiredGuest PROVE CredentialTypes' /\ RotationConverges' /\ Lineage'
  BY <1>20 DEF DeleteExpiredGuest, Gone, NoPredecessor
<1>21. ASSUME DeleteExpiredPredecessor PROVE CredentialTypes' /\ RotationConverges' /\ Lineage'
  BY <1>21 DEF DeleteExpiredPredecessor, NoPredecessor
<1>22. ASSUME PurgeClaimCapability PROVE CredentialTypes' /\ RotationConverges' /\ Lineage'
  BY <1>22 DEF PurgeClaimCapability
<1>23. ASSUME DeleteExpiredExports PROVE CredentialTypes' /\ RotationConverges' /\ Lineage'
  BY <1>23 DEF DeleteExpiredExports, credentials
<1>24. ASSUME DeleteExpiredReceipts PROVE CredentialTypes' /\ RotationConverges' /\ Lineage'
  BY <1>24 DEF DeleteExpiredReceipts, credentials
<1>25. ASSUME PurgeIntegrityReferences PROVE CredentialTypes' /\ RotationConverges' /\ Lineage'
  BY <1>25 DEF PurgeIntegrityReferences, credentials
<1>26. ASSUME UNCHANGED vars PROVE CredentialTypes' /\ RotationConverges' /\ Lineage'
  BY <1>26 DEF vars, credentials
<1> QED
  BY <1>1, <1>2, <1>3, <1>4, <1>5, <1>6, <1>7, <1>8, <1>9, <1>10, <1>11, <1>12, <1>13, <1>14,
     <1>15, <1>16, <1>17, <1>18, <1>19, <1>20, <1>21, <1>22, <1>23, <1>24, <1>25, <1>26 DEF Next

\* The rows of exports and imports.
LEMMA SavesPreserved ==
  ASSUME CredentialTypes, CredentialTypes', SaveTypes, [Next]_vars
  PROVE  SaveTypes'
<1> USE DEF CredentialTypes, Guest, SaveTypes, Receipt
<1>1. ASSUME NEW b \in Browsers, Issue(b) PROVE SaveTypes'
  BY <1>1 DEF Issue, saves
<1>2. ASSUME NEW b \in Browsers, Resume(b) PROVE SaveTypes'
  BY <1>2 DEF Resume, saves
<1>3. ASSUME NEW b \in Browsers, Rotate(b) PROVE SaveTypes'
  BY <1>3 DEF Rotate, saves
<1>4. ASSUME NEW b \in Browsers, RotateAgain(b) PROVE SaveTypes'
  BY <1>4 DEF RotateAgain, saves
<1>5. ASSUME NEW b \in Browsers, RotateClaimCapability(b) PROVE SaveTypes'
  BY <1>5 DEF RotateClaimCapability, saves
<1>6. ASSUME NEW b \in Browsers, Play(b) PROVE SaveTypes'
  BY <1>6 DEF Play, saves
<1>7. ASSUME NEW b \in Browsers, Delete(b) PROVE SaveTypes'
  BY <1>7 DEF Delete, Gone, Spend
<1>8. ASSUME NEW b \in Browsers, Claimed(b) PROVE SaveTypes'
  BY <1>8 DEF Claimed, Gone, Spend
<1>9. ASSUME NEW b \in Browsers, ResetCookies(b) PROVE SaveTypes'
  BY <1>9 DEF ResetCookies, saves
<1>10. ASSUME NEW b \in Browsers, NEW e \in ExportIds, CreateExport(b, e) PROVE SaveTypes'
  BY <1>10 DEF CreateExport, Envelope
<1>11. ASSUME NEW b \in Browsers, NEW i \in ImportIds, NEW e \in ExportIds, Import(b, i, e)
       PROVE  SaveTypes'
  BY <1>11 DEF Import, Redraw, Spend
<1>12. ASSUME NEW b \in Browsers, NEW i \in ImportIds, ReplayImport(b, i) PROVE SaveTypes'
  BY <1>12 DEF ReplayImport, CanReplay, Redraw
<1>13. ASSUME NEW e \in ExportIds, ExportExpires(e) PROVE SaveTypes'
  BY <1>13 DEF ExportExpires
<1>14. ASSUME NEW e \in ExportIds, IntegrityKeyLost(e) PROVE SaveTypes'
  BY <1>14 DEF IntegrityKeyLost
<1>15. ASSUME NEW a \in answers, Receive(a) PROVE SaveTypes'
  BY <1>15 DEF Receive, saves
<1>16. ASSUME NEW a \in answers, Lose(a) PROVE SaveTypes'
  BY <1>16 DEF Lose, saves
<1>17. ASSUME GraceEnds PROVE SaveTypes'
  BY <1>17 DEF GraceEnds, saves
<1>18. ASSUME BecomesDue PROVE SaveTypes'
  BY <1>18 DEF BecomesDue, saves
<1>19. ASSUME GuestExpires PROVE SaveTypes'
  BY <1>19 DEF GuestExpires, saves
<1>20. ASSUME DeleteExpiredGuest PROVE SaveTypes'
  BY <1>20 DEF DeleteExpiredGuest, Gone, Spend
<1>21. ASSUME DeleteExpiredPredecessor PROVE SaveTypes'
  BY <1>21 DEF DeleteExpiredPredecessor, saves
<1>22. ASSUME PurgeClaimCapability PROVE SaveTypes'
  BY <1>22 DEF PurgeClaimCapability, saves
<1>23. ASSUME DeleteExpiredExports PROVE SaveTypes'
  BY <1>23 DEF DeleteExpiredExports
<1>24. ASSUME DeleteExpiredReceipts PROVE SaveTypes'
  BY <1>24 DEF DeleteExpiredReceipts
<1>25. ASSUME PurgeIntegrityReferences PROVE SaveTypes'
  <2>1. \A i \in UNION {ReceiptsOf(e) : e \in unsound} : <<i, receipts[i].export>> \in ImportIds \X ExportIds
    BY DEF ReceiptsOf
  <2>2. spent' \subseteq ImportIds \X ExportIds
    BY <1>25, <2>1 DEF PurgeIntegrityReferences, Spend
  <2> QED
    BY <1>25, <2>2 DEF PurgeIntegrityReferences
<1>26. ASSUME UNCHANGED vars PROVE SaveTypes'
  BY <1>26 DEF vars, saves
<1> QED
  BY <1>1, <1>2, <1>3, <1>4, <1>5, <1>6, <1>7, <1>8, <1>9, <1>10, <1>11, <1>12, <1>13, <1>14,
     <1>15, <1>16, <1>17, <1>18, <1>19, <1>20, <1>21, <1>22, <1>23, <1>24, <1>25, <1>26 DEF Next

\* Cookies and answers.  A retried rotation tells the current secret, which is known
\* to be one because rotations converge.
LEMMA BrowsersPreserved ==
  ASSUME CredentialTypes, BrowserTypes, ClaimsStored, RotationConverges, Lineage, [Next]_vars
  PROVE  BrowserTypes' /\ ClaimsStored'
<1> USE SecretsDiffer DEF CredentialTypes, BrowserTypes, ClaimsStored
<1>1. ASSUME NEW b \in Browsers, Issue(b) PROVE BrowserTypes' /\ ClaimsStored'
  <2>1. <<1, 0>> \in Secrets
    BY GuestRecoveryAssumption DEF Secrets, Lineages
  <2>2. answers' \subseteq Answer
    BY <1>1, <2>1, TellTypes DEF Issue
  <2>3. ClaimsStored'
    BY <1>1 DEF Issue, FreshCapability
  <2> QED
    BY <1>1, <2>2, <2>3 DEF Issue, FreshCapability
<1>2. ASSUME NEW b \in Browsers, Resume(b) PROVE BrowserTypes' /\ ClaimsStored'
  <2>1. answers' \subseteq Answer
    BY <1>2, TellTypes, DerivedSecret DEF Resume
  <2>2. ClaimsStored'
    BY <1>2 DEF Resume, Tell, RotateTo, browsers
  <2>3. acted' \subseteq Lineages
    BY <1>2, DerivedSecret DEF Resume, RotateTo, Secrets
  <2> QED
    BY <1>2, <2>1, <2>2, <2>3 DEF Resume, RotateTo, browsers
<1>3. ASSUME NEW b \in Browsers, Rotate(b) PROVE BrowserTypes' /\ ClaimsStored'
  <2>1. answers' \subseteq Answer
    BY <1>3, TellTypes, DerivedSecret DEF Rotate
  <2>2. ClaimsStored'
    BY <1>3 DEF Rotate, Tell, RotateTo, browsers
  <2>3. acted' \subseteq Lineages
    BY <1>3, DerivedSecret DEF Rotate, RotateTo, Secrets
  <2> QED
    BY <1>3, <2>1, <2>2, <2>3 DEF Rotate, RotateTo, browsers
<1>4. ASSUME NEW b \in Browsers, RotateAgain(b) PROVE BrowserTypes' /\ ClaimsStored'
  <2>1. Derived(cookies[b]) \in Secrets \cup {NoSecret}
    BY <1>4 DEF RotateAgain, Lineage, RotationConverges
  <2>2. answers' \subseteq Answer
    BY <1>4, <2>1, TellTypes DEF RotateAgain
  <2>3. ClaimsStored'
    BY <1>4 DEF RotateAgain, Tell, credentials
  <2> QED
    BY <1>4, <2>2, <2>3 DEF RotateAgain, credentials, browsers
<1>5. ASSUME NEW b \in Browsers, RotateClaimCapability(b) PROVE BrowserTypes' /\ ClaimsStored'
  <2>1. [to |-> b, guest |-> NoSecret, claim |-> TRUE] \in Answer
    BY DEF Answer
  <2>2. answers' \subseteq Answer
    BY <1>5, <2>1, SupersededTypes DEF RotateClaimCapability
  <2>3. ClaimsStored'
    BY <1>5 DEF RotateClaimCapability, FreshCapability
  <2> QED
    BY <1>5, <2>2, <2>3 DEF RotateClaimCapability, FreshCapability
<1>6. ASSUME NEW b \in Browsers, Play(b) PROVE BrowserTypes' /\ ClaimsStored'
  <2>1. cookies[b] \in Secrets
    BY <1>6 DEF Play, Resumes, Alive, Lineage
  <2>2. acted' \subseteq Lineages
    BY <1>6, <2>1 DEF Play, Secrets
  <2> QED
    BY <1>6, <2>2 DEF Play, credentials, browsers
<1>7. ASSUME NEW b \in Browsers, Delete(b) PROVE BrowserTypes' /\ ClaimsStored'
  BY <1>7, SupersededTypes DEF Delete, Gone
<1>8. ASSUME NEW b \in Browsers, Claimed(b) PROVE BrowserTypes' /\ ClaimsStored'
  BY <1>8, SupersededTypes DEF Claimed, Gone
<1>9. ASSUME NEW b \in Browsers, ResetCookies(b) PROVE BrowserTypes' /\ ClaimsStored'
  BY <1>9 DEF ResetCookies, credentials
<1>10. ASSUME NEW b \in Browsers, NEW e \in ExportIds, CreateExport(b, e)
       PROVE  BrowserTypes' /\ ClaimsStored'
  <2>1. cookies[b] \in Secrets
    BY <1>10 DEF CreateExport, Resumes, Alive, Lineage
  <2>2. acted' \subseteq Lineages
    BY <1>10, <2>1 DEF CreateExport, Secrets
  <2> QED
    BY <1>10, <2>2 DEF CreateExport, credentials, browsers
<1>11. ASSUME NEW b \in Browsers, NEW i \in ImportIds, NEW e \in ExportIds, Import(b, i, e)
       PROVE  BrowserTypes' /\ ClaimsStored'
  <2>1. <<drawn + 1, 0>> \in Secrets
    BY <1>11, DrawnSecret DEF Import, Redraw
  <2>2. answers' \subseteq Answer
    BY <1>11, <2>1, TellTypes DEF Import, Redraw
  <2>3. ClaimsStored'
    BY <1>11 DEF Import, Redraw, Tell
  <2> QED
    BY <1>11, <2>2, <2>3 DEF Import, Redraw, browsers
<1>12. ASSUME NEW b \in Browsers, NEW i \in ImportIds, ReplayImport(b, i)
       PROVE  BrowserTypes' /\ ClaimsStored'
  <2>1. <<drawn + 1, 0>> \in Secrets
    BY <1>12, DrawnSecret DEF ReplayImport, Redraw
  <2>2. answers' \subseteq Answer
    BY <1>12, <2>1, TellTypes DEF ReplayImport, Redraw
  <2>3. ClaimsStored'
    BY <1>12 DEF ReplayImport, Redraw, Tell
  <2>4. acted' \subseteq Lineages
    BY <1>12, <2>1 DEF ReplayImport, Redraw, Secrets
  <2> QED
    BY <1>12, <2>2, <2>3, <2>4 DEF ReplayImport, Redraw, browsers
<1>13. ASSUME NEW e \in ExportIds, ExportExpires(e) PROVE BrowserTypes' /\ ClaimsStored'
  BY <1>13 DEF ExportExpires, credentials, browsers
<1>14. ASSUME NEW e \in ExportIds, IntegrityKeyLost(e) PROVE BrowserTypes' /\ ClaimsStored'
  BY <1>14 DEF IntegrityKeyLost, credentials, browsers
<1>15. ASSUME NEW a \in answers, Receive(a) PROVE BrowserTypes' /\ ClaimsStored'
  BY <1>15 DEF Receive, Answer, credentials
<1>16. ASSUME NEW a \in answers, Lose(a) PROVE BrowserTypes' /\ ClaimsStored'
  BY <1>16 DEF Lose, credentials, browsers
<1>17. ASSUME GraceEnds PROVE BrowserTypes' /\ ClaimsStored'
  BY <1>17 DEF GraceEnds, browsers
<1>18. ASSUME BecomesDue PROVE BrowserTypes' /\ ClaimsStored'
  BY <1>18 DEF BecomesDue, credentials, browsers
<1>19. ASSUME GuestExpires PROVE BrowserTypes' /\ ClaimsStored'
  BY <1>19 DEF GuestExpires, credentials, browsers
<1>20. ASSUME DeleteExpiredGuest PROVE BrowserTypes' /\ ClaimsStored'
  BY <1>20, SupersededTypes DEF DeleteExpiredGuest, Gone
<1>21. ASSUME DeleteExpiredPredecessor PROVE BrowserTypes' /\ ClaimsStored'
  BY <1>21 DEF DeleteExpiredPredecessor, browsers
<1>22. ASSUME PurgeClaimCapability PROVE BrowserTypes' /\ ClaimsStored'
  BY <1>22, SupersededTypes DEF PurgeClaimCapability
<1>23. ASSUME DeleteExpiredExports PROVE BrowserTypes' /\ ClaimsStored'
  BY <1>23 DEF DeleteExpiredExports, credentials, browsers
<1>24. ASSUME DeleteExpiredReceipts PROVE BrowserTypes' /\ ClaimsStored'
  BY <1>24 DEF DeleteExpiredReceipts, credentials, browsers
<1>25. ASSUME PurgeIntegrityReferences PROVE BrowserTypes' /\ ClaimsStored'
  BY <1>25 DEF PurgeIntegrityReferences, credentials, browsers
<1>26. ASSUME UNCHANGED vars PROVE BrowserTypes' /\ ClaimsStored'
  BY <1>26 DEF vars, credentials, browsers
<1> QED
  BY <1>1, <1>2, <1>3, <1>4, <1>5, <1>6, <1>7, <1>8, <1>9, <1>10, <1>11, <1>12, <1>13, <1>14,
     <1>15, <1>16, <1>17, <1>18, <1>19, <1>20, <1>21, <1>22, <1>23, <1>24, <1>25, <1>26 DEF Next

\* Whoever plays, rotates or exports uses the secret of the import that waits; an
\* import takes all files, and a replay is of the import that waits or of none.
LEMMA DeliveryPreserved ==
  ASSUME CredentialTypes, SaveTypes, Lineage, Delivery, [Next]_vars
  PROVE  Delivery'
<1> USE SecretsDiffer, GuestRecoveryAssumption
      DEF CredentialTypes, Guest, Secrets, Lineages, SaveTypes, Receipt, Lineage, Delivery
<1>1. ASSUME NEW b \in Browsers, Issue(b) PROVE Delivery'
  BY <1>1 DEF Issue, saves
<1>2. ASSUME NEW b \in Browsers, Resume(b) PROVE Delivery'
  BY <1>2 DEF Resume, Alive, RotateTo, saves
<1>3. ASSUME NEW b \in Browsers, Rotate(b) PROVE Delivery'
  BY <1>3 DEF Rotate, Alive, RotateTo, saves
<1>4. ASSUME NEW b \in Browsers, RotateAgain(b) PROVE Delivery'
  BY <1>4 DEF RotateAgain, Alive, credentials, saves
<1>5. ASSUME NEW b \in Browsers, RotateClaimCapability(b) PROVE Delivery'
  BY <1>5 DEF RotateClaimCapability, Alive, saves
<1>6. ASSUME NEW b \in Browsers, Play(b) PROVE Delivery'
  BY <1>6 DEF Play, Resumes, Alive, credentials, saves, NoPredecessor
<1>7. ASSUME NEW b \in Browsers, Delete(b) PROVE Delivery'
  BY <1>7 DEF Delete, Alive, Gone
<1>8. ASSUME NEW b \in Browsers, Claimed(b) PROVE Delivery'
  BY <1>8 DEF Claimed, Alive, Gone
<1>9. ASSUME NEW b \in Browsers, ResetCookies(b) PROVE Delivery'
  BY <1>9 DEF ResetCookies, credentials, saves
<1>10. ASSUME NEW b \in Browsers, NEW e \in ExportIds, CreateExport(b, e) PROVE Delivery'
  BY <1>10 DEF CreateExport, Resumes, Alive, credentials, NoPredecessor
<1>11. ASSUME NEW b \in Browsers, NEW i \in ImportIds, NEW e \in ExportIds, Import(b, i, e)
       PROVE  Delivery'
  <2>1. /\ current' = <<drawn + 1, 0>> /\ drawn' = drawn + 1 /\ predecessor' = NoPredecessor
        /\ guest' = [guest EXCEPT !.due = FALSE] /\ acted' = acted
    BY <1>11 DEF Import, Redraw
  <2>2. /\ receipts' = [receipts EXCEPT ![i] =
               [export |-> e, revision |-> guest.revision, issued |-> <<drawn + 1, 0>>]]
        /\ exports' = [x \in ExportIds |-> NoExport]
    BY <1>11, <2>1 DEF Import
  <2>3. guest.state = "live" /\ guest'.state = "live" /\ guest'.revision = guest.revision
    BY <1>11, <2>1 DEF Import, CanImport, Alive
  <2>4. \A j \in ImportIds : receipts[j] # NoReceipt => receipts[j].issued[1] \in acted
    BY <1>11 DEF Import, CanImport, StoredEnvelope
  <2>5. \A j \in ImportIds : receipts[j] # NoReceipt =>
            receipts[j].issued[1] \in Nat /\ receipts[j].issued[1] <= drawn
    OBVIOUS
  <2>6. drawn \in Nat /\ i \in DOMAIN receipts
    OBVIOUS
  <2> QED
    BY <2>1, <2>2, <2>3, <2>4, <2>5, <2>6
<1>12. ASSUME NEW b \in Browsers, NEW i \in ImportIds, ReplayImport(b, i) PROVE Delivery'
  <2>1. /\ current' = <<drawn + 1, 0>> /\ drawn' = drawn + 1 /\ predecessor' = NoPredecessor
        /\ guest' = [guest EXCEPT !.due = FALSE]
        /\ acted' = IF current[1] \in acted THEN acted \cup {drawn + 1} ELSE acted
    BY <1>12 DEF ReplayImport, Redraw
  <2>2. /\ receipts' = [receipts EXCEPT ![i].issued = <<drawn + 1, 0>>]
        /\ exports' = exports
    BY <1>12, <2>1 DEF ReplayImport
  <2>3. /\ guest.state = "live" /\ guest'.state = "live" /\ guest'.revision = guest.revision
        /\ receipts[i] # NoReceipt /\ receipts[i].revision = guest.revision
        /\ current = receipts[i].issued
    BY <1>12, <2>1 DEF ReplayImport, CanReplay, Alive
  <2>4. \A j \in ImportIds : receipts[j] # NoReceipt =>
            receipts[j].issued[1] \in Nat /\ receipts[j].issued[1] <= drawn
    OBVIOUS
  <2>5. drawn \in Nat /\ receipts[i] \in Receipt
    BY <2>3
  <2>6. \A j \in ImportIds \ {i} : receipts[j] # NoReceipt => receipts[j].issued[1] \in acted
    BY <2>3
  <2>7. /\ receipts'[i] = [receipts[i] EXCEPT !.issued = <<drawn + 1, 0>>]
        /\ \A j \in ImportIds \ {i} : receipts'[j] = receipts[j]
    BY <2>2
  <2>8. receipts'[i] # NoReceipt /\ receipts'[i].issued = <<drawn + 1, 0>> /\ receipts'[i].revision = guest.revision
    BY <2>3, <2>5, <2>7 DEF NoReceipt
  <2> QED
    BY <2>1, <2>2, <2>3, <2>4, <2>5, <2>6, <2>7, <2>8
<1>13. ASSUME NEW e \in ExportIds, ExportExpires(e) PROVE Delivery'
  BY <1>13 DEF ExportExpires, credentials
<1>14. ASSUME NEW e \in ExportIds, IntegrityKeyLost(e) PROVE Delivery'
  BY <1>14 DEF IntegrityKeyLost, credentials
<1>15. ASSUME NEW a \in answers, Receive(a) PROVE Delivery'
  BY <1>15 DEF Receive, credentials, saves
<1>16. ASSUME NEW a \in answers, Lose(a) PROVE Delivery'
  BY <1>16 DEF Lose, credentials, saves
<1>17. ASSUME GraceEnds PROVE Delivery'
  BY <1>17 DEF GraceEnds, saves, NoPredecessor
<1>18. ASSUME BecomesDue PROVE Delivery'
  BY <1>18 DEF BecomesDue, credentials, saves
<1>19. ASSUME GuestExpires PROVE Delivery'
  BY <1>19 DEF GuestExpires, credentials, saves
<1>20. ASSUME DeleteExpiredGuest PROVE Delivery'
  BY <1>20 DEF DeleteExpiredGuest, Gone
<1>21. ASSUME DeleteExpiredPredecessor PROVE Delivery'
  BY <1>21 DEF DeleteExpiredPredecessor, saves
<1>22. ASSUME PurgeClaimCapability PROVE Delivery'
  BY <1>22 DEF PurgeClaimCapability, saves
<1>23. ASSUME DeleteExpiredExports PROVE Delivery'
  BY <1>23 DEF DeleteExpiredExports, credentials
<1>24. ASSUME DeleteExpiredReceipts PROVE Delivery'
  BY <1>24 DEF DeleteExpiredReceipts, credentials
<1>25. ASSUME PurgeIntegrityReferences PROVE Delivery'
  BY <1>25 DEF PurgeIntegrityReferences, credentials
<1>26. ASSUME UNCHANGED vars PROVE Delivery'
  BY <1>26 DEF vars, credentials, saves
<1> QED
  BY <1>1, <1>2, <1>3, <1>4, <1>5, <1>6, <1>7, <1>8, <1>9, <1>10, <1>11, <1>12, <1>13, <1>14,
     <1>15, <1>16, <1>17, <1>18, <1>19, <1>20, <1>21, <1>22, <1>23, <1>24, <1>25, <1>26 DEF Next

-----------------------------------------------------------------------------
(* Secrets that are refused. *)

\* No secret that was stored is drawn or derived again.
LEMMA LineageBound ==
  ASSUME CredentialTypes, Lineage, NEW s \in known
  PROVE  /\ s[1] \in Nat /\ s[2] \in Nat /\ s[1] <= drawn /\ drawn \in Nat
         /\ s # <<drawn + 1, 0>>
         /\ current # NoSecret => s # <<current[1], current[2] + 1>>
<1>1. s[1] \in Nat /\ s[2] \in Nat /\ s[1] <= drawn /\ drawn \in Nat
  BY GuestRecoveryAssumption DEF CredentialTypes, Lineage, Secrets, Lineages
<1>2. ASSUME current # NoSecret PROVE s # <<current[1], current[2] + 1>>
  <2>1. current[1] \in Nat /\ current[2] \in Nat
    BY <1>2, GuestRecoveryAssumption DEF CredentialTypes, Secrets, Lineages
  <2> QED
    BY <1>1, <1>2, <2>1 DEF Lineage
<1> QED
  BY <1>1, <1>2

\* Only an issue, a rotation and an import store a secret, and always a new one.
LEMMA RefusedStays ==
  ASSUME CredentialTypes, Lineage, [Next]_vars, NEW s \in known, ~Resumes(s)
  PROVE  ~Resumes(s)'
<1> USE SecretsDiffer
<1>1. ASSUME NEW b \in Browsers, Issue(b) PROVE ~Resumes(s)'
  BY <1>1 DEF Issue, Lineage
<1>2. ASSUME NEW b \in Browsers, Resume(b) PROVE ~Resumes(s)'
  <2>1. s # Derived(current)
    BY <1>2, DerivedSecret, LineageBound DEF Resume, Derived
  <2> QED
    BY <1>2, <2>1 DEF Resume, RotateTo, Resumes, Alive
<1>3. ASSUME NEW b \in Browsers, Rotate(b) PROVE ~Resumes(s)'
  <2>1. s # Derived(current)
    BY <1>3, DerivedSecret, LineageBound DEF Rotate, Derived
  <2> QED
    BY <1>3, <2>1 DEF Rotate, RotateTo, Resumes, Alive
<1>4. ASSUME NEW b \in Browsers, RotateAgain(b) PROVE ~Resumes(s)'
  BY <1>4 DEF RotateAgain, Alive, credentials, Resumes
<1>5. ASSUME NEW b \in Browsers, RotateClaimCapability(b) PROVE ~Resumes(s)'
  BY <1>5 DEF RotateClaimCapability, Alive, Resumes
<1>6. ASSUME NEW b \in Browsers, Play(b) PROVE ~Resumes(s)'
  BY <1>6 DEF Play, Resumes, Alive, credentials
<1>7. ASSUME NEW b \in Browsers, Delete(b) PROVE ~Resumes(s)'
  BY <1>7 DEF Delete, Alive, Gone, NoPredecessor, Resumes
<1>8. ASSUME NEW b \in Browsers, Claimed(b) PROVE ~Resumes(s)'
  BY <1>8 DEF Claimed, Alive, Gone, NoPredecessor, Resumes
<1>9. ASSUME NEW b \in Browsers, ResetCookies(b) PROVE ~Resumes(s)'
  BY <1>9 DEF ResetCookies, credentials, Resumes, Alive
<1>10. ASSUME NEW b \in Browsers, NEW e \in ExportIds, CreateExport(b, e) PROVE ~Resumes(s)'
  BY <1>10 DEF CreateExport, Resumes, Alive, credentials
<1>11. ASSUME NEW b \in Browsers, NEW i \in ImportIds, NEW e \in ExportIds, Import(b, i, e)
       PROVE  ~Resumes(s)'
  <2>1. s # <<drawn + 1, 0>>
    BY LineageBound
  <2> QED
    BY <1>11, <2>1 DEF Import, Redraw, NoPredecessor, Resumes
<1>12. ASSUME NEW b \in Browsers, NEW i \in ImportIds, ReplayImport(b, i) PROVE ~Resumes(s)'
  <2>1. s # <<drawn + 1, 0>>
    BY LineageBound
  <2> QED
    BY <1>12, <2>1 DEF ReplayImport, Redraw, NoPredecessor, Resumes
<1>13. ASSUME NEW e \in ExportIds, ExportExpires(e) PROVE ~Resumes(s)'
  BY <1>13 DEF ExportExpires, credentials, Resumes, Alive
<1>14. ASSUME NEW e \in ExportIds, IntegrityKeyLost(e) PROVE ~Resumes(s)'
  BY <1>14 DEF IntegrityKeyLost, credentials, Resumes, Alive
<1>15. ASSUME NEW a \in answers, Receive(a) PROVE ~Resumes(s)'
  BY <1>15 DEF Receive, credentials, Resumes, Alive
<1>16. ASSUME NEW a \in answers, Lose(a) PROVE ~Resumes(s)'
  BY <1>16 DEF Lose, credentials, Resumes, Alive
<1>17. ASSUME GraceEnds PROVE ~Resumes(s)'
  BY <1>17 DEF GraceEnds, Resumes, Alive
<1>18. ASSUME BecomesDue PROVE ~Resumes(s)'
  BY <1>18 DEF BecomesDue, credentials, Resumes, Alive
<1>19. ASSUME GuestExpires PROVE ~Resumes(s)'
  BY <1>19 DEF GuestExpires, credentials, Resumes, Alive
<1>20. ASSUME DeleteExpiredGuest PROVE ~Resumes(s)'
  BY <1>20 DEF DeleteExpiredGuest, Gone, NoPredecessor, Resumes, Alive
<1>21. ASSUME DeleteExpiredPredecessor PROVE ~Resumes(s)'
  BY <1>21 DEF DeleteExpiredPredecessor, NoPredecessor, Resumes, Alive
<1>22. ASSUME PurgeClaimCapability PROVE ~Resumes(s)'
  BY <1>22 DEF PurgeClaimCapability, Resumes, Alive
<1>23. ASSUME DeleteExpiredExports PROVE ~Resumes(s)'
  BY <1>23 DEF DeleteExpiredExports, credentials, Resumes, Alive
<1>24. ASSUME DeleteExpiredReceipts PROVE ~Resumes(s)'
  BY <1>24 DEF DeleteExpiredReceipts, credentials, Resumes, Alive
<1>25. ASSUME PurgeIntegrityReferences PROVE ~Resumes(s)'
  BY <1>25 DEF PurgeIntegrityReferences, credentials, Resumes, Alive
<1>26. ASSUME UNCHANGED vars PROVE ~Resumes(s)'
  BY <1>26 DEF vars, credentials, Resumes, Alive
<1> QED
  BY <1>1, <1>2, <1>3, <1>4, <1>5, <1>6, <1>7, <1>8, <1>9, <1>10, <1>11, <1>12, <1>13, <1>14,
     <1>15, <1>16, <1>17, <1>18, <1>19, <1>20, <1>21, <1>22, <1>23, <1>24, <1>25, <1>26 DEF Next

-----------------------------------------------------------------------------
(* The theorems. *)

\* The invariant holds before the guest is issued.
LEMMA Initially == Init => IInv
<1> SUFFICES ASSUME Init PROVE IInv
  OBVIOUS
<1>1. CredentialTypes
  <2>1. guest \in Guest /\ guest.state = "none" /\ drawn \in 0 .. MaxLineages
    BY GuestRecoveryAssumption DEF Init, Guest, Revisions
  <2> QED
    BY <2>1 DEF Init, CredentialTypes, NoPredecessor
<1>2. SaveTypes /\ BrowserTypes
  BY DEF Init, SaveTypes, BrowserTypes
<1>3. RotationConverges /\ ClaimsStored /\ Lineage /\ Delivery
  BY DEF Init, RotationConverges, ClaimsStored, Lineage, Delivery, NoPredecessor, NoReceipt, NoExport
<1> QED
  BY <1>1, <1>2, <1>3, TypeParts DEF IInv

\* Every step preserves the invariant.
LEMMA Inductive == IInv /\ [Next]_vars => IInv'
<1> SUFFICES ASSUME IInv, [Next]_vars PROVE IInv'
  OBVIOUS
<1>1. CredentialTypes /\ SaveTypes /\ BrowserTypes
  BY TypeParts DEF IInv
<1>2. CredentialTypes' /\ RotationConverges' /\ Lineage'
  BY <1>1, CredentialsPreserved DEF IInv
<1>3. SaveTypes'
  BY <1>1, <1>2, SavesPreserved
<1>4. BrowserTypes' /\ ClaimsStored'
  BY <1>1, BrowsersPreserved DEF IInv
<1>5. Delivery'
  BY <1>1, DeliveryPreserved DEF IInv
<1>6. TypeOK'
  BY <1>2, <1>3, <1>4, TypeParts, PTL
<1> QED
  BY <1>2, <1>4, <1>5, <1>6 DEF IInv

\* The inductive invariant holds in every state of guest-sessions.ts and portable-recovery.ts.
THEOREM AlwaysIInv == Spec => []IInv
  BY Initially, Inductive, PTL DEF Spec

\* Rows, cookies and answers keep their types.
THEOREM TypeCorrectness == Spec => []TypeOK
<1>1. IInv => TypeOK
  BY DEF IInv
<1> QED
  BY <1>1, AlwaysIInv, PTL

\* A rotation that is answered from the predecessor tells the current secret
\* (rotate of guest-sessions.ts).
THEOREM RotationsAlwaysConverge == Spec => []RotationConverges
<1>1. IInv => RotationConverges
  BY DEF IInv
<1> QED
  BY <1>1, AlwaysIInv, PTL

\* An import whose answer was lost can be retried until its secret is used
\* (import and replayImport of portable-recovery.ts).
THEOREM LostImportsStayRetryable == Spec => []LostImportRetryable
<1>1. IInv => LostImportRetryable
  BY DEF IInv, Delivery, LostImportRetryable, CanReplay, Alive
<1> QED
  BY <1>1, AlwaysIInv, PTL

\* A secret that was stored and is refused is never accepted again (resume).
THEOREM RefusedSecretsStayRefused == Spec => DeadSecretsStayDead
<1>1. IInv /\ [Next]_vars => [\A s \in known : ~Resumes(s) => ~Resumes(s)']_vars
  BY TypeParts, RefusedStays DEF IInv
<1> QED
  BY <1>1, AlwaysIInv, PTL DEF Spec, DeadSecretsStayDead
=============================================================================
