# Samurai Sushi in TLA+

This directory specifies, model-checks and proves properties of the program kept in this
repository: the first-evening service and the PostgreSQL authority that runs it, the outbox behind
it and the browser shell in front of it, the credentials and accounts of its guests and players, and
the receipts and wallet links of settled services.  Paths below are relative to the root of the
repository; `persistence/` and `domain/` stand for `packages/persistence/src/` and
`packages/domain/src/`.

| File | What it is |
|---|---|
| `EveningService.tla` | the reducer, the decoder, the projection and the claim merge of the service |
| `CommandLog.tla` | what the command authority promises: a log of effects for each subject |
| `ServiceAuthority.tla` | the command authority, in the steps of its transactions; it implements `CommandLog` |
| `Outbox.tla` | the delivery of domain events |
| `CounterShell.tla` | the tabs of a browser, the network and the HTTP boundary, over `CommandLog` |
| `GuestRecovery.tla` | the credentials and portable saves of one guest |
| `PlayerAccounts.tla` | claims, player sessions, deletion and retention |
| `ReceiptObservation.tla` | the reducer of chain observations, a pure function |
| `ReceiptLifecycle.tla` | a receipt intent, its attempts, reconciliation jobs and incidents, over `ReceiptObservation` |
| `WalletLink.tla` | wallet links, their challenges and credentials |
| `*Proofs.tla` | theorems of the module they are named after |
| `MC*.tla` | constants and symmetry sets for TLC |
| `*.cfg` | one question each, see "Runs" |
| `PROJECT.json` | components, map to the source, runs, mutants, hazards, findings, theorems |

To run: `tlc -config MCOutbox.cfg MCOutbox` for a run (the module of each is in the table of
runs), `tlapm OutboxProofs.tla` for the proofs of a module.

## Inventory

| Component | State | Operations | Hard behaviour |
|---|---|---|---|
| First-evening reducer, `domain/evening-service.ts` | none: it maps a checkpoint to the next | eleven commands, decoder, projection, merge for a claim | fields that outlive the phase they belong to; the decoder re-checks every result and throws |
| Command authority, `persistence/service-authority.ts` | `player_progress`/`guest_progress`, `domain_events`, `outbox_deliveries`, `command_receipts` | `query`, `execute`, `runSettledTransaction` | concurrent requests, retries, expiry and rotation between an unlocked read and a lock, crashes |
| Guest sessions, `persistence/guest-sessions.ts` | `guest_sessions`, resume digests, claim capabilities, tombstones | issue, resume, rotate, delete, capability rotation, purges | grace of the predecessor secret, replay fences, expiry |
| Account claim and player sessions, `persistence/account-claim.ts` | players, wallet identities, challenges, merge receipts, player sessions | claim, recovery, acknowledgement, rotation, logout, deletion | several locks in order, exact replay, delivery generations |
| Outbox, `persistence/outbox.ts` | `outbox_deliveries` | claim, markDelivered, recordFailure | leases that run out under a working worker, last attempts |
| Counter shell, `apps/web/app/counter-shell.tsx` | phase, view, pending intent, request number | query, execute, reconcile, recover authority | lost and late answers, two tabs, aborted requests |
| Service HTTP boundary, `packages/account-http-runtime/src/http.ts` | none but the cookie it sets | routes, credential refresh, error mapping | rotation inside another request; every inner error is a 409 |
| Portable recovery, `persistence/portable-recovery.ts` | exports, imports, consumption tombstones | createExport, import, purges | an import replayed after the guest it made was used |
| Receipt lifecycle, `persistence/receipt-lifecycle-authority.ts`, `packages/receipt-lifecycle` | intents, attempts, observations, reconciliation jobs, incidents | prepare, register, replace, retry, observe | reorganisations, two observers, leases, expiry |
| Review and wallet link, `persistence/receipt-review-wallet-authority.ts`, `packages/wallet-link` | runtime links, challenges | sync, challenge, proof, disconnect, preflight | generations, consumption of a challenge once |
| Receipt contract, `contracts/receipt` | receipts, used nonces and commitments, issuer policies | submit_receipt, set_paused, revoke_issuer | half-open time windows, uniqueness |
| Key inventory, `persistence/key-inventory.ts` | key metadata, replay fences | bootstrap, reference check | none: it reads and reports |
| Content compiler, network policy, codecs, proof verifier, migrations, scripts | none at run time | | pure or build-time |

How they interact.  A tab posts a command with the expected revision and an idempotency key; the
cookie jar adds the guest secret.  The HTTP boundary refreshes the credential, which may rotate
the secret, and calls the authority.  The authority opens a transaction, resolves the secret
without a lock, locks the session's row, and either replays the receipt of the key, refuses a
stale revision, or runs the reducer on the progress row and writes progress, event, outbox row and
receipt.  Workers claim outbox rows later.  A claim turns a guest into a player: the merge of
their checkpoints is the reducer's, the rest the claim service's.  Receipts and wallet links run in
the envelope of the authority (`runSettledTransaction`) and refer to a settled service.

What makes each part correct:

- reducer: a stored row always decodes; the projection offers what the reducer accepts; no step is
  skipped or repeated; components are only consumed; earned facts survive claims;
- authority: the four tables agree revision by revision; a key has one effect, told again to every
  retry; an answer rests on a session that holds; no request waits forever;
- outbox: attempts are counted exactly and bounded; a settled event stays settled, by a living
  claim; every event ends;
- shell: what is shown was saved; what the player is told of an intent is true; an intent resolves;
- guest credentials and saves: rotations converge on the current secret; a secret once refused stays
  refused; an import whose answer is lost can be retried until its secret is used;
- accounts: an account names one player; a holder of a good secret is never locked out of a session in
  use; a browser told to reauthenticate can; the jobs that run apart leave no row that none removes;
- receipts: one attempt of an intent can settle; attempt, receipt, intent and log agree; what is final
  stays final; a lease excludes everyone else; what may still be included is looked after;
- wallet links: a link never outlives the session, credential or proof it rests on; an answer holds as
  long as its coordinates do; nothing that a logout or revocation has to write is refused by a CHECK.

## Modules and code

### EveningService

One record for each subject, a guest or a player, is the row `EveningServiceCheckpoint`; `None`
is no row.  Each command is a pair of operators, `...Admitted` with the guard of its case in
`reduceEveningService` and `...Change` with the record it builds.  A command has three outcomes in
the code, and in the model: it is *accepted* when the guard holds and the result decodes, it is
*corrected* when the guard fails (the same checkpoint comes back, nothing is stored), and it
*throws* when the result does not decode.  `Decodes` and `Consistent` are
`decodeEveningServiceCheckpoint` and `assertEveningServiceInvariants`.  `IssueGuest` is
`guest.issue`, `Claim` the merge `mergeFirstEveningCheckpointForClaim` with the rebase of
`rebaseEveningServiceCheckpointForClaim` and the disappearance of the guest's row.  The orders,
steps, components and cosmetic choices are constants; `MCEveningService` gives the authored ones.
`acceptedInRun` is a history variable.  Wording, cues, ids and feedback texts are left out.

### CommandLog and ServiceAuthority

`CommandLog` is the abstract specification: for each live subject a sequence of effects, one
receipt for each key, and the receipts that clients were told.  `Settle` appends an effect (or
records a correction) for a new key at the current revision; `Replay` tells an old outcome again.

`ServiceAuthority` follows a request `tx[t]` through the awaits of `query` and `execute`:

| Stage | Action | Code |
|---|---|---|
| idle → match | `Begin` | the request arrives |
| match → lock / answer | `Match` | `findResumeMatchUnlocked`, the slot of the secret |
| lock → receipt / answer | `Lock`, which may `Refuse` | the row lock, then the checks repeated under it |
| receipt → answer | `Query` | the read of the progress |
| receipt → decide / answer | `Replay` | `#replay`, and the conflict of a reused key |
| decide → commit / answer | `Decide` | the expected revision, the outcome of the reducer |
| commit → answer | `Commit` | the writes, seen at COMMIT, which frees the lock |
| answer → idle | `Respond` | the client hears of it |
| any → idle | `Crash` | the process or connection dies, PostgreSQL rolls back |

Beside the requests, sessions are issued, rotated, acknowledged, logged out and removed, and
receipts and graces run out (`Issue`, `Rotate`, `Acknowledge`, `Logout`, `Remove`, `ExpireReceipt`,
`Pass`).  Locks are rows of `holder`; the advisory and progress locks taken later in the same
transaction are always free once the parent row is held and are left out.  The refinement mapping
(`Log` in the module) reads effects off the events and receipts tables.

### Outbox

`delivery[e]` is the row of event `e`; `issued` are the claims workers hold, alive or not, and
`published` those whose worker did its work.  `Claim(batch, token)` is the whole statement of
`claim`: it buries the exhausted rows and takes a batch of candidates, and SKIP LOCKED makes it
one step.  `LiveClaim` is `lockLiveClaim`.  `LeaseEnds` and `BackoffEnds` are the two times that
pass.  The worker (`Publish`) is not in the repository and is external.

### CounterShell

`tab[t]` has the phase, view and pending intent of the React component, and `call`, the one request
the tab waits for, with the continuation it resumes (`query`, `execute`, `requery`, `retry`, `reset`,
`issue`).  `After...` operators are what the code does after each of these awaits.  A call that is
overtaken (`beginRequest` aborts it) moves to `floating`: the server may still serve it and the jar
still takes its cookie, and nobody looks at its answer.  The server side of a request is one step of
`CommandLog`, together with the refresh of the credential that precedes it; `Fault` is the catch
block that answers 409 or an error, and `Lose` the network.  `told` is the history of what the
player was told.

A choice of the view waits for the phase `ready`.  "End shift" in the modal dialog does not: the dialog stays
open while a query is under way (`Visible`), and `Choose` then overtakes that query.  While it is open the page
behind takes no clicks.  `EnvelopeFails` is a browser that cannot make an idempotency key; a request the tab
waits for goes on.

A guest secret that is due sends the request back to `resume` (`Refresh`), for the current secret only
(`MustRotate`).  While its predecessor is in its grace, which happens when another key became the active one,
`resume` answers "refreshed" without a cookie and rotates nothing; otherwise it rotates.  The refusal and the
resume are two transactions in the code and one step here, so a request that is refused as the current secret and
resumed as the predecessor, because another rotated in between, is served at once here, where the code answers
"refreshed" without a cookie once more and the shell asks again with the cookie it has.  `GuestRecovery`
has what happens to that predecessor.

### GuestRecovery

One guest.  A resume secret is `<<lineage, position>>`: a rotation *derives* the next position, so
that its retry derives the same, and an issue or an import *draws* a new lineage.  `current` and
`predecessor` are the two slots of `guest_resume_digests`; `predecessor.grace` says that its sixty
seconds run.  The grace is a flag apart from the row, because only the calls that resume look at it:
deletion, the rotation of the capability and a claim accept any digest that is stored (`Stored`), and
a predecessor row stays until a rotation or `deleteExpired` removes it.  `exports`, `receipts` and
`spent` are `save_exports`, `recovery_imports` and the tombstones of import ids; `over` and `unsound`
the exports whose time, or whose integrity key, is gone.  The owner of a save is looked up before
the lock and decided again under it, so that an import is one action.  `answers` are the answers with
`Set-Cookie` on their way: they may come late, in any order, or not at all.  `known` and `acted` are
history.  No HTTP route reaches portable recovery; the model starts at its service methods.  Not
modelled here: the compromise of a resume key, last-seen writes, the cap on exports per guest.

### PlayerAccounts

A player is named by the claim that created it (`linked_claim_id` of its credential), a session by the
claim that issued it, a secret by its session and delivery generation.  `Claim` is `claimGuestInternal`
with everything it writes: player or rebase, wallet identity, session, merge receipt, disappearance of the guest.
`Recover`, `Rotate`, `RotateAgain`, `Acknowledge` and `Logout` are the session methods; the latter three are
told apart by the slot the secret matches.  `DeleteBySession` and `DeleteByWallet` share `Deleted`.  The four
retention jobs share `Swept`, the rule that a revoked row without a digest and without a merge
receipt goes, and `Admitted`, the foreign key that forbids it.  `Logout(b, answered)` has the answer that is
lost.  Each call locks what it reads before it decides, so each is one action: calls, answers, time and jobs
are what is interleaved.

Assumed: an answer takes less than the sixty seconds of a predecessor, or is lost (`GraceEnds`,
`SessionIdles`), and a browser's calls are over before it starts a recovery.  Tombstones of sessions and
claim ids outlive the model, that of the account expires.  Guests are claimed at revision 0
(a bound; the schema admits any).  Whether a player with wallet links can be deleted depends on the order in
which PostgreSQL cascades (`migrations/0007_receipt_review_wallet_link.sql:147`); the model admits it.

### ReceiptObservation and ReceiptLifecycle

`ReceiptObservation` is `packages/receipt-lifecycle`: blocks are levels on two forks, a report tells the
head, the sequence and the block that includes the operation, and `Reduce` returns a disposition (apply,
hint, stale, duplicate, incident or throw) and the path of states to write.  `ReceiptLifecycle` is one
intent: `attempts` and `jobs` are sequences in insertion order, `holding[w]` the claim worker `w` holds,
which may be dead (`LeaseEnds`).  The CHECKs and the deferred lineage trigger of migration 0006 are
`ShapeAdmits` and `LineageAdmits`; a transaction they refuse changes nothing.  `ObserveOperation` is the
whole of `#applyObservation`: the recorded report, the reducer, divergence and conflict incidents, the
attempt, receipt, intent and events, and the end of the claim.  `DoneAfter` says whether that end completes
the job, arm by arm: a report of either source that diverges on a FINALIZED attempt does, a mere hint or a stale
report does not.  `Conflicts`, an inclusion while another attempt holds the receipt, is refused as the code
does, though `OneLiveAttempt` shows that it never happens.

### WalletLink

`links` and `challenges` are the rows of migration 0007, each link with at most one challenge; `Shape` and
`Admits` are its CHECKs and deferred keys, `Revoked` and `RevokeAll` its triggers.  A link has a generation
and a revision, its *coordinates*, which every loss of authority moves.  Coordinates start at 0 or near the
largest safe integer, here 5, where the triggers saturate (`Bumped`).  `answers` is the history of what
browsers were told with which coordinates.  An expired challenge leaves its link in CHALLENGE_ISSUED
until it is disconnected; the credential stays active after a disconnection; both are the code's.

## Runs

| Run (module) | Question | Bounds |
|---|---|---|
| `MCEveningService` (MCEveningService) | a guest plays, abandons, starts anew and is claimed at any moment into a player who plays on: rows decode, the prompt is exact, no step is skipped, nothing consumed comes back, nothing earned is lost | 2 orders (of two steps and one), 1 rice beat, 14 revisions, 16 of guest and player together, 1 rerun |
| `MCServiceGuest` (MCServiceAuthority) | two requests of a guest: exact tables, decisions that stand, and `ServiceAuthority` implements `CommandLog` | 2 requests, 2 keys, 2 revisions, 1 rotation |
| `MCServicePlayer` (MCServiceAuthority) | two requests of a player, delivered, acknowledged and logged out: authority, and every request ends | 2 requests, 1 key, 2 revisions, 1 rotation |
| `MCOutbox` (MCOutbox) | attempts accounted, settled once, every event ends | 2 events, 2 attempts, batches of 2, 4 tokens |
| `MCShellTabs` (MCCounterShell) | two tabs of one guest: views saved, fates told truly | 2 keys, 2 revisions, 2 failures |
| `MCShellLive` (MCCounterShell) | a guest rotates, expires and is replaced; intents that are not stranded resolve | 1 tab, 2 guests, 2 keys, 2 revisions of which the second is terminal, 2 rotations of the first guest, 1 failure |
| `MCGuestRecovery` (MCGuestRecovery) | rotations converge, lost imports can be retried, refused secrets stay refused | 1 browser, 2 exports, 2 imports, 3 lineages, 1 rotation of each, 2 answers under way |
| `MCPlayerAccounts` (MCPlayerAccounts) | accounts name one player, nobody is stranded, nothing is forgotten | 2 guests, 2 claims, 1 account, 1 browser, 3 secrets, 2 challenges |
| `MCReceiptLifecycle` (MCReceiptLifecycle) | one attempt settles, the projections agree, finality stands, leases exclude | 2 workers, 3 attempts, 2 levels on 2 forks, 3 claims, 3 reports, 2 failures |
| `MCWalletLink` (MCWalletLink) | links are authentic, answers stand, writes are admitted | 2 players, 3 sessions, 1 account, 2 links, 2 credentials, coordinates to 5 |
| `RetryLineage` (MCReceiptLifecycle), `RetentionBlocked` (MCPlayerAccounts) | see "Findings" | the least that shows it |

Why the bounds suffice.  An evening of two orders and one rice beat has every kind of step, and both a first
and a later order; fourteen revisions let a guest settle it, or abandon it and start anew, be claimed and play
on, and also meet the bound, which stands for the largest safe integer.  The row of the guest and the row of the player meet only
in a claim, so pairs of two late rows are left out (`NotBothLate`); the theorems have no such bound.  Two requests, two keys and two
revisions are the least with which a request overtakes another, reuses its key, is stale, or is replayed
after the subject moved on; a third request would wait for the same row lock.  One body is enough: a key that
is reused with another expected revision is refused on the same path as one with another body.  Two attempts of a delivery
have a first, a last and one too many; four tokens name every claim that two events of two attempts can have.
Two failures lose a request and the answer of its retry.  In the shell every key is used up before the
last revision is reached, so that no intent is refused for the bound alone, and at most `MaxFloating` = 1 request
nobody waits for is under way; it is enough for each late answer to be overtaken.  `Rotating` has the one guest whose secret falls due; the
other only replaces it.  `MCShellTabs` rotates nothing, since the tellings do not depend on the secret.

Of a guest's secrets, the bounds have the first, a rotation, an import and the import that follows or repeats
it; two exports are a file and its sibling, two answers come in either order.  Two claims of one account are a
player and the claim that joins it, or that follows its deletion; three secrets are a delivery and two that
supersede it.  Two guests lose no generality: nothing relates guests but the account they prove.  Three attempts
are a root, its replacement or retry and one more; two levels on two forks have inclusion, confirmation and
reorganisation; two failures exhaust a job.  Two links of two players contend for one account, and
three sessions give a player a second one to disconnect through.

`CHECK_DEADLOCK FALSE` is in the runs of the outbox, the guest, the accounts, the receipts and the links, where
everything may be settled, deleted or at its bound and nothing is left to do.  Symmetry is used in runs without
liveness.

`MCShellTabs` checks `FatesTold` for one guest.  With two the retry of an intent may carry the cookie
of another guest than its requery, if a late `guest.issue` of the other tab lands between; the
intent is then executed for that guest, and "what became of it" has two answers.  It is listed as
a hazard.  The run has no `Fault`: a retry that fails inside the server is answered 409, which the shell tells as
superseded though the intent was saved (see "Findings").  "Superseded" is true when the guest is past the revision that the intent
expected, or when that is the last revision, at which no command is admitted (`Past`).

Every property of a passing run has a mutant in `PROJECT.json`: an operator in the
module that changes one definition as a plausible mistake would, under which the run fails.

## Fairness

- `ServiceAuthority!FairSpec`: a request that has begun goes on, each step weakly fair, since the
  process and PostgreSQL do.  The wait for the row lock is strongly fair: PostgreSQL queues the
  waiters of a row, so a waiter cannot be overtaken forever.  Nothing makes requests begin and
  crashes may happen at any time.
- `Outbox!FairSpec`: time passes, so leases and backoffs end, and some worker keeps claiming an
  event that is claimable (the poll of the worker).  No fairness at all of its publishing or
  reporting: a worker may always die.
- `CounterShell!FairSpec`: awaited requests are served and answered, strongly, because a page that
  becomes visible again replaces the request each time and need not stop; the player uses a recovery
  button that stays on the screen; time passes, so a grace ends.  Failures are bounded by `MaxFailures`, so the network is not down
  forever.

- `PlayerAccounts!Spec`: the jobs for expired sessions and merge receipts run again and again.  Nothing under
  the sources schedules them; ADR 0003 line 469 speaks of "the same scheduled job", and the operator is trusted
  to run it.  Only the finding `RetentionBlocked` rests on it.

## Proofs

`tlapm` checks these for every value of the constants that satisfies the named assumptions of the
modules (disjoint guests and players, authored orders with at least one step, some presentation and some
restoration to choose from, naturals as bounds, of which some must be positive, `None` outside the sets it is
added to).  Every invariant of every passing run is proved, and every action property and the refinement
(`FatesTold` under the two hypotheses under which it is run: one guest, no `Fault`).

**EveningServiceProofs.**  `IInv == TypeOK /\ RowsSound`.  `RowsSound` says that a row satisfies what
the decoder checks (`Consistent`) and that a plated first order has its presentation chosen
(`FirstPlateChosen`).  The second conjunct is not in the decoder, and without it the invariant is not
inductive: serving a first plate without a presentation builds a row that does not decode.  There is
one lemma for each command, which says its change keeps a sound row sound up to the revision, one
for a claim, and one for a new row.  `StoredRowsSound`, `TypeCorrectness`,
`AdmittedCommandsAlwaysCommit` and `RevisionCountsChanges` follow from it.

Four more properties rest on the same invariant.  `PromptIsAlwaysExact`: what the projection offers satisfies the
guard of the command it names, the guards of two commands exclude one another but for the abandonment, and a row
that decodes and is not settled has something to offer.  `NoStepIsSkipped`: its own invariant is the property, and
every accepted command other than a new evening and an abandonment adds exactly one act.  Acts of the orders are
counted as a set of pairs (`OrderActs`), so that "exactly one more" is a fact of cardinality and no sum has to
be unfolded.  `ComponentsAreOnlyConsumed` counts in the same way: a ledger row is made of the cardinalities of the uses
of a component that are done, served and discarded (`LedgerRowCounts`), and when no order goes back
(`OrdersForward`) these sets only grow.  `EarnedFactsAlwaysSurvive` needs of a claim that its rebase joins the unlocks.

**ServiceAuthorityProofs.**  `IInv` joins `TypeOK`, `LockDiscipline`, `DecisionStands` and
`LedgerExact` with three facts of transactions under way: `GuestStanding` (only players await a
delivery), `Prepared` (what a transaction prepared at its stage) and `CredentialStands` (a session that
was matched under the lock stays as it was while the lock is held).  The last is what makes
`AnsweredUnderAuthority` hold, and it holds because every operation that changes a session takes the
same lock; `DecisionStands` and `LedgerExact` need each other, since a commit is exact only if what
it decided still holds.

`TablesImplementLog` is the refinement: the tables, with every race, retry, crash, rotation and removal, implement
`CommandLog`.  The mapping reads the log off the rows: its effects from the committed events
(`LogEffects`), its receipts from the receipt rows, expired ones
included (`LogReceipts`), and who is there from the session
(`LogStanding`).  Initial states map to initial states; a commit maps to `Settle`, a replay to `Replay`, an issue to
`Admit`, a removal to `Remove`, and every other step, a crash included, to a stutter.  Nothing is assumed beyond
`IInv`: from `LedgerExact` the events of a subject are numbered without a gap, so the mapped log is a sequence,
and from `DecisionStands` the commit finds the key and revision as they were when it decided.

**OutboxProofs.**  `IInv == TypeOK /\ AttemptsAccounted`: the claims of an event are numbered 1 to its
attempts, one alive at most.  `DeliveriesSettleOnce` is an action property from it.

**GuestRecoveryProofs.**  `IInv == TypeOK /\ RotationConverges /\ ClaimsStored /\ Lineage /\ Delivery`.
`Lineage` says that the current secret is the last one of the lineage drawn last, so a secret that is
derived from it or drawn anew was never stored, and what was refused stays refused.  `Delivery` says that
at most one import waits for somebody to use its secret; that secret is then current and has no predecessor,
and no file is left that another import could take.  Without `RotationConverges` the type of the answer
to a repeated rotation does not follow.  All four properties of the module's run are proved from it.

**PlayerAccountsProofs.**  The guests, claims, accounts and browsers are any sets, the claims a finite one.
`IInv` joins `TypeOK`, `AccountNamesOnePlayer` and `NoSessionForgotten` with facts of the code that the
properties need and no row states by itself.  `ClaimedOnce`: the guest of a claim that was made is gone, so
the claim is not made again; without it a retry could name a second player.  `ChallengesSigned` and `Named`:
challenges, sessions, merge receipts and players exist only for claim ids that were signed.  `SessionsSound`: a
live session has a current digest, a predecessor is never older than the last wallet proof, and a claim that is not
over has its merge receipt.  `Delivered` is the
argument for the browsers: secrets younger than the last wallet proof are in one browser only, and its cookie is
the current secret, or one rotation behind it as long as the delivery has not been acknowledged.  All invariants of
the module's run and `DeadSecretsStayDead` are proved from it.

**WalletLinkProofs.**  The argument has two parts.  A row by itself stays one that the schema admits
(`RowSound`), with two revisions in reserve while it can still be challenged and one while it can be proved, which is
why no write is refused; and every write of a row moves its revision on and never revives it (`Advances`), so
that an answer that names the revision of a link is one that nothing has happened to since.  What a link
stands for (`Backed`) is kept because each way to lose it revokes the link in the same step.  All properties of the
module's run are proved.

**ReceiptLifecycleProofs.**  The attempts of an intent are one line (`Line`): the first is the root, and each
other follows the one before it, which failed, was dropped or was replaced.  The schema's unique lineage
and the guards of replacing and retrying make it so, and from it `OneLiveAttempt` follows: whatever is not gone is
the last attempt.  A report that moves an attempt moves the last one, so its receipt is the only one there is
(`ProjectionsAgree`).  Of a final attempt the reducer lets through only a report of the same inclusion from a
proof that contains the durable head (`ReduceSound`), and with the CHECK on confirmations (`Shaped`) these
cannot fall.  `ClaimsSound`, that a claim is never younger than its job and is held by one worker, is the argument
for the leases.  `TypesAlwaysHold` adds the bounds (`Bounds`) relative to `IInv`.  The one that is not local is that no
generation is above the number of claims: the guard bounds the claims of all jobs together, and a generation is one of
the claims counted (`ClaimBound`).  All properties of the module's run are proved.

**CounterShellProofs.**  `IInv` joins `TypeOK` with what is on its way.  `TabsTrue`: the view a tab shows, the view its
retry was decided on and the view in an answer not yet read are all known to the server, and an answer that says a
command was saved names a guest that has its receipt; the shape of a tab (`Shape`) says which continuation waits for which
answer, also while a dialog is open.  A step never takes anything of it back (`Forward`), so an answer may be as late as it likes.
`ViewsAreAlwaysSaved` and `SavedFatesAreTrue` (who is told "saved" has the receipt, for any number of guests and
with faults) follow.  `FatesAreAlwaysTold` adds what makes "superseded" true, with a second invariant `SInv`: a
key is bound to the revision its intent expected wherever that intent still is (`KeysBind`), no intent expects more than its
guest has reached (`IntentsReached`), and an intent that was refused on retry is lost (`RefusalsTrue`,
`SupersededFates`): its guest is past it without it, so a copy of the request that is still under way settles
nothing.  The theorem assumes one guest and no `Fault`, and both are needed: without either, TLC finds the tellings
described under "Runs".  An earlier form of the property was not inductive at one point, which corrected it:
an intent at the last revision there is can be refused without anybody having passed it, because
`service-authority.ts:353` admits no command there.  It can never be saved either, and `Past` counts it.

Only model-checked: the three liveness properties `EventuallySettled`, `EveryRequestEnds` and `IntentsResolve`
(fairness and ENABLED are outside the prover) and the two findings, which are violations.  `LockDiscipline` and
`TypeOK` of `ServiceAuthority`, `ChangesAdvanceRevision` of `EveningService` and `SavedFates` of `CounterShell` are
proved and not listed in a run.

## Findings

Each is a run in which TLC finds the property violated.

| Run | Property | What happens |
|---|---|---|
| `RetryLineage` | `SubmittedCanBeIncluded` | the lineage trigger (`migrations/0006_receipt_lifecycle_authority.sql:207`) wants a retried attempt to be SUBMITTED at every later write too, so an independent retry can never be recorded as included, failed, dropped or replaced |
| `RetentionBlocked` | `ExpiryCleanupRemoves` | a session under which a review was prepared cannot be removed, and the job aborts with its whole batch each time (`account-claim.ts:1831`, `migrations/0007_receipt_review_wallet_link.sql:324`) |

Also met while modelling and not kept as runs of their own:

- An open service cannot be abandoned from the choice of the presentation to the serving of the first plate:
  `evening-service.ts:556` keeps `presentationChoice`, and the decoder (`:410`) throws, where `TECHNICAL_SPEC.md:217`
  and ADR 0004 line 14 let any open service be abandoned.  `AdmittedCommandsCommit` excepts exactly that.
- A saved intent whose answer was lost is retried forever once another tab has moved on (`counter-shell.tsx:175`;
  `GAME_DESIGN_SPEC.md:124`).  It is the second case of `Stranded`.
- The fresh service that a recovery opens at revision 0 is dropped by `publishView` as older than the lost one
  (`counter-shell.tsx:84`, `:347`).
- Any 409 on a retry is told as superseded, though the intent may have been saved (`counter-shell.tsx:151`,
  `http.ts:541`); `MCShellTabs` runs without `Fault`.
- The recovery button is drawn only inside a block that a SETTLED or ABANDONED view hides
  (`counter-shell.tsx:391`): an intent whose outcome is unknown behind such a view has no recovery.
  It is the first case of `Stranded`; its last is a jar that names another, younger guest.
- A guest on the predecessor is served without the rotated secret (`guest-sessions.ts:255`): of all calls only
  the rotation route, inside the grace, tells it again.  A browser that loses the one answer and merely plays on loses
  its guest when the grace ends, where ADR 0003 line 88 says a lost response converges.
- Deletion, the rotation of the capability and a claim accept a predecessor whose sixty seconds are over
  until a job removes its row; ADR 0003 line 84 gives it sixty seconds.
- A request that matched its secret as the current one and then waited for the row while a rotation
  committed is refused (`service-authority.ts:242`), where ADR 0003 line 94 says that predecessor
  requests inside the grace remain admissible.
- After a logout, or when a key is compromised, a player of an acknowledged session has no way back by wallet
  proof except to claim another guest into the player.
- A claim of an abandoned guest into a player with the unlock stores an ABANDONED row that holds it,
  where `docs/DOMAIN_SPEC.md:158` says that it cannot.
- A report of a REPLACED attempt as failed or dropped opens CHAIN_OR_MANIFEST_DRIFT; a restoration past the expiry
  rolls the recorded expiry back; a pending report with a higher head on an included attempt aborts on a CHECK.

## Not modelled

- The receipt contract (`contracts/receipt`): each operation is checked by itself and atomic, and its tests enumerate
  the time bounds.  The key inventory reads and reports; what the loss of a key does is in `GuestRecovery` and
  `PlayerAccounts`.
- `runSettledTransaction`, the envelope of the receipt and wallet handlers: it locks the session and the
  progress as a query does and is one step with the handler it runs.
- The order of row locks inside a claim, and deadlocks that PostgreSQL would break by an abort.
- Replays by idempotency key in the wallet routes (they tell the stored answer), the public projection and texts
  of receipts, the fields of a permit, wallet HTTP routes that only pass their arguments on, the review page.
- `persistence/command-executor.ts`: an older executor of the same shape that the application does not mount.
- Digests, signatures, canonical JSON, strict parsing, headers, configuration: pure, and tested as such.
- Content compiler, generated inventories, network policy, migrations, scripts: no state at run time.
- In the shell: focus, announcements except what they claim of an intent, images, player credentials.

## Plan

What an extension would take up next, most useful first:

1. `FatesTold` for several guests, once the shell binds the retry of an intent to the guest of its requery; until
   then "what became of it" has two answers.
2. `ReceiptContract`: nonces and commitments are unique; the windows of time compose with the permit's.
3. The claim in the steps of its locks, against concurrent commands of the guest and the player.
4. Composition: the shell over `GuestRecovery` in place of its one-step credentials.
