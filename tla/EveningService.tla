--------------------------- MODULE EveningService ---------------------------
(***************************************************************************)
(* The first-evening service: the pure reducer, the checkpoint decoder,    *)
(* the claim rebase and the projector of                                   *)
(* packages/domain/src/evening-service.ts, over the canonical checkpoint   *)
(* rows of guests and players.                                             *)
(*                                                                         *)
(* The reducer decides a command in three ways.  It accepts it and returns *)
(* a checkpoint one revision later; it corrects it and returns the very    *)
(* same checkpoint; or it throws, because nextCheckpoint re-decodes what   *)
(* it built and the decoder found it inconsistent.  Nothing is written     *)
(* when it throws.                                                         *)
(*                                                                         *)
(* The authored evening (orders, steps, rice beats, choices) is a          *)
(* parameter: the runs use the authored one, the theorems hold of any.     *)
(* Prompts, cue wording and hashes are left out.                           *)
(***************************************************************************)
EXTENDS Integers, Sequences, FiniteSets

CONSTANTS
    Guests,        \* guest sessions
    Players,       \* player accounts
    NumOrders,     \* authored orders of the evening (3)
    Steps,         \* authored steps of each order: a sequence of [id, component]
    MaxSteps,      \* length of the longest of those sequences
    Components,    \* components the steps consume
    RiceBeats,     \* rice beats (3): wash, steam, season
    Presentations, \* cosmetic choices of the first plate
    Restorations,  \* cosmetic choices of the settlement
    Sashimi,       \* the settlement unlock
    None,          \* null, and a subject with no progress row
    MaxRevision,   \* Number.MAX_SAFE_INTEGER
    MaxGeneration  \* Number.MAX_SAFE_INTEGER

OrderIndex == 0 .. NumOrders - 1
Subjects   == Guests \cup Players

ASSUME SubjectAssumption == Guests \cap Players = {}

ASSUME AuthoredAssumption ==
    /\ NumOrders \in Nat \ {0}
    /\ RiceBeats \in Nat \ {0}
    /\ MaxSteps \in Nat
    /\ DOMAIN Steps = OrderIndex
    /\ \A i \in OrderIndex : Len(Steps[i]) \in 1 .. MaxSteps
    /\ Presentations # {} /\ None \notin Presentations
    /\ Restorations # {} /\ None \notin Restorations
    /\ None \notin {"IDLE", "OPEN", "CLOSING", "SETTLED", "ABANDONED"}

ASSUME BoundAssumption == MaxRevision \in Nat /\ MaxGeneration \in Nat

VARIABLES
    progress,      \* canonical checkpoint row of each subject, or None
    acceptedInRun  \* history: commands accepted since the subject's run began

vars == <<progress, acceptedInRun>>

-----------------------------------------------------------------------------
(* The checkpoint *)

Phases      == {"IDLE", "OPEN", "CLOSING", "SETTLED", "ABANDONED"}
OrderStates == {"OFFERED", "ACCEPTED", "PREPARING", "READY_TO_PLATE",
                "PLATED", "SERVED", "DISCARDED"}

\* A feedback reference is null or the authored one: a Boolean says which.
Order == [state            : OrderStates,
          stepIndex        : Nat,
          plateFeedbackRef : BOOLEAN,
          serveFeedbackRef : BOOLEAN]

Checkpoint == [revision           : 0 .. MaxRevision,
               generation         : 0 .. MaxGeneration,
               phase              : Phases,
               riceBeatIndex      : 0 .. RiceBeats,
               presentationChoice : Presentations \cup {None},
               restorationChoice  : Restorations \cup {None},
               activeOrderIndex   : 0 .. NumOrders,
               orders             : [OrderIndex -> Order],
               storyFlags         : Seq(OrderIndex),
               unlocks            : SUBSET {Sashimi}]

ASSUME NoneAssumption == None \notin Checkpoint

OfferedOrder == [state |-> "OFFERED", stepIndex |-> 0,
                 plateFeedbackRef |-> FALSE, serveFeedbackRef |-> FALSE]

InitialCheckpoint ==
    [revision |-> 0, generation |-> 0, phase |-> "IDLE", riceBeatIndex |-> 0,
     presentationChoice |-> None, restorationChoice |-> None,
     activeOrderIndex |-> 0, orders |-> [i \in OrderIndex |-> OfferedOrder],
     storyFlags |-> <<>>, unlocks |-> {}]

Served(c)  == {i \in OrderIndex : c.orders[i].state = "SERVED"}
Flagged(c) == {c.storyFlags[k] : k \in 1 .. Len(c.storyFlags)}

(***************************************************************************)
(* What the decoder requires of every checkpoint it lets through           *)
(* (assertEveningServiceInvariants), one definition per concern.           *)
(***************************************************************************)
ServedMatchActive(c) == Cardinality(Served(c)) = c.activeOrderIndex

StoryIsAuthoredPrefix(c) ==
    /\ Len(c.storyFlags) <= NumOrders
    /\ \A k \in 1 .. Len(c.storyFlags) : c.storyFlags[k] = k - 1
    /\ 0 .. c.activeOrderIndex - 1 \subseteq Flagged(c)

QueueShape(c) ==
    \A i \in OrderIndex :
        /\ i < c.activeOrderIndex => c.orders[i].state = "SERVED"
        /\ c.phase = "ABANDONED" /\ i >= c.activeOrderIndex
               => c.orders[i].state = "DISCARDED"
        /\ c.phase # "ABANDONED" /\ i > c.activeOrderIndex
               => c.orders[i].state = "OFFERED"

OrderShape(c) ==
    \A i \in OrderIndex :
        LET o == c.orders[i] IN
        /\ o.stepIndex \in 0 .. Len(Steps[i])
        /\ o.state \in {"OFFERED", "ACCEPTED"} => o.stepIndex = 0
        /\ o.state = "PREPARING" => o.stepIndex \in 1 .. Len(Steps[i]) - 1
        /\ o.state \in {"READY_TO_PLATE", "PLATED", "SERVED"}
               => o.stepIndex = Len(Steps[i])
        /\ o.plateFeedbackRef <=> o.state \in {"PLATED", "SERVED"}
        /\ o.serveFeedbackRef <=> o.state = "SERVED"

PresentationShape(c) ==
    c.presentationChoice # None
        => c.orders[0].state \in {"READY_TO_PLATE", "PLATED", "SERVED"}

RestorationShape(c) == (c.phase = "SETTLED") <=> (c.restorationChoice # None)

Untouched(c) ==
    /\ c.activeOrderIndex = 0
    /\ c.presentationChoice = None
    /\ \A i \in OrderIndex : c.orders[i].state = "OFFERED"

PhaseShape(c) ==
    /\ c.phase = "IDLE" =>
           /\ Untouched(c)
           /\ c.generation = 0 /\ c.riceBeatIndex = 0 /\ c.storyFlags = <<>>
    /\ c.phase = "OPEN" =>
           /\ c.revision # 0
           /\ c.riceBeatIndex < RiceBeats => Untouched(c)
           /\ c.activeOrderIndex < NumOrders
                  => c.orders[c.activeOrderIndex].state \notin {"SERVED", "DISCARDED"}
           /\ c.activeOrderIndex > 0 => c.presentationChoice # None
    /\ c.phase \in {"CLOSING", "SETTLED"} =>
           /\ c.activeOrderIndex = NumOrders
           /\ c.riceBeatIndex = RiceBeats
           /\ c.presentationChoice # None
    /\ c.phase = "SETTLED" => Sashimi \in c.unlocks

Consistent(c) ==
    /\ ServedMatchActive(c)
    /\ StoryIsAuthoredPrefix(c)
    /\ QueueShape(c)
    /\ OrderShape(c)
    /\ PresentationShape(c)
    /\ RestorationShape(c)
    /\ PhaseShape(c)

-----------------------------------------------------------------------------
(***************************************************************************)
(* The commands.  <Command>Admitted is the condition under which the       *)
(* reducer does not return a correction; <Command>Change is what it then   *)
(* hands to nextCheckpoint.                                                *)
(***************************************************************************)
StartAdmitted(c) == c.phase = "IDLE"
StartChange(c)   == [c EXCEPT !.phase = "OPEN"]

\* Mutants: a new evening that keeps the old presentation, or the old rice.
StartNewKeepsPresentation(c) ==
    [c EXCEPT !.generation = @ + 1, !.phase = "OPEN", !.riceBeatIndex = 0,
              !.restorationChoice = None, !.activeOrderIndex = 0,
              !.orders = [i \in OrderIndex |-> OfferedOrder]]

StartNewKeepsRice(c) ==
    [c EXCEPT !.generation = @ + 1, !.phase = "OPEN", !.presentationChoice = None,
              !.restorationChoice = None, !.activeOrderIndex = 0,
              !.orders = [i \in OrderIndex |-> OfferedOrder]]

StartNewAdmitted(c) == c.phase = "ABANDONED"
StartNewChange(c) ==
    [c EXCEPT !.generation = @ + 1,
              !.phase = "OPEN",
              !.riceBeatIndex = 0,
              !.presentationChoice = None,
              !.restorationChoice = None,
              !.activeOrderIndex = 0,
              !.orders = [i \in OrderIndex |-> OfferedOrder]]

PrepareRiceAdmitted(c, beat) ==
    /\ c.phase = "OPEN"
    /\ c.activeOrderIndex = 0
    /\ c.orders[0].state = "OFFERED"
    /\ c.riceBeatIndex < RiceBeats
    /\ beat = c.riceBeatIndex
PrepareRiceChange(c) == [c EXCEPT !.riceBeatIndex = @ + 1]

\* The command names the active order, and there still is one.
ForActiveOrder(c, order) ==
    /\ c.phase = "OPEN"
    /\ c.activeOrderIndex < NumOrders
    /\ order = c.activeOrderIndex

AcceptOrderAdmitted(c, order) ==
    /\ ForActiveOrder(c, order)
    /\ c.riceBeatIndex = RiceBeats
    /\ c.orders[order].state = "OFFERED"
AcceptOrderChange(c, order) == [c EXCEPT !.orders[order].state = "ACCEPTED"]

PerformStepAdmitted(c, order, step) ==
    /\ ForActiveOrder(c, order)
    /\ c.orders[order].state \in {"ACCEPTED", "PREPARING"}
    /\ c.orders[order].stepIndex < Len(Steps[order])
    /\ step = Steps[order][c.orders[order].stepIndex + 1].id
PerformStepChange(c, order) ==
    LET done == c.orders[order].stepIndex + 1 IN
    [c EXCEPT !.orders[order] =
        [@ EXCEPT !.stepIndex = done,
                  !.state = IF done = Len(Steps[order]) THEN "READY_TO_PLATE"
                                                         ELSE "PREPARING"]]

\* Mutant: the presentation can be chosen again.
ChoosePresentationAgain(c, order, choice) ==
    /\ ForActiveOrder(c, order)
    /\ c.activeOrderIndex = 0
    /\ c.orders[0].state = "READY_TO_PLATE"
    /\ choice \in Presentations

ChoosePresentationAdmitted(c, order, choice) ==
    /\ ForActiveOrder(c, order)
    /\ c.activeOrderIndex = 0
    /\ c.orders[0].state = "READY_TO_PLATE"
    /\ c.presentationChoice = None
    /\ choice \in Presentations
ChoosePresentationChange(c, choice) == [c EXCEPT !.presentationChoice = choice]

\* Mutant: the first plate is plated without a presentation.
PlateOrderUnchosen(c, order) ==
    ForActiveOrder(c, order) /\ c.orders[order].state = "READY_TO_PLATE"

PlateOrderAdmitted(c, order) ==
    /\ ForActiveOrder(c, order)
    /\ c.orders[order].state = "READY_TO_PLATE"
    /\ order = 0 => c.presentationChoice # None
PlateOrderChange(c, order) ==
    [c EXCEPT !.orders[order] = [@ EXCEPT !.state = "PLATED",
                                          !.plateFeedbackRef = TRUE]]

ServeOrderAdmitted(c, order) ==
    /\ ForActiveOrder(c, order)
    /\ c.orders[order].state = "PLATED"
ServeOrderChange(c, order) ==
    [c EXCEPT !.orders[order] = [@ EXCEPT !.state = "SERVED",
                                          !.serveFeedbackRef = TRUE],
              !.activeOrderIndex = @ + 1,
              !.storyFlags = IF order \in Flagged(c) THEN @ ELSE Append(@, order)]

CloseLedgerAdmitted(c) == c.phase = "OPEN" /\ c.activeOrderIndex = NumOrders
CloseLedgerChange(c)   == [c EXCEPT !.phase = "CLOSING"]

ChooseRestorationAdmitted(c, choice) ==
    c.phase = "CLOSING" /\ choice \in Restorations
ChooseRestorationChange(c, choice) ==
    [c EXCEPT !.phase = "SETTLED",
              !.restorationChoice = choice,
              !.unlocks = @ \cup {Sashimi}]

\* Mutant: discarding an order gives its components back.
AbandonGivesBack(c) ==
    [c EXCEPT !.phase = "ABANDONED",
              !.orders = [i \in OrderIndex |->
                  IF c.orders[i].state = "SERVED" THEN c.orders[i]
                  ELSE [OfferedOrder EXCEPT !.state = "DISCARDED"]]]

AbandonAdmitted(c) == c.phase \in {"OPEN", "CLOSING"}
AbandonChange(c) ==
    [c EXCEPT !.phase = "ABANDONED",
              !.orders = [i \in OrderIndex |->
                  IF c.orders[i].state = "SERVED" THEN c.orders[i]
                  ELSE [c.orders[i] EXCEPT !.state = "DISCARDED",
                                           !.plateFeedbackRef = FALSE,
                                           !.serveFeedbackRef = FALSE]]]

-----------------------------------------------------------------------------
(* Dispatch: the payload carries only the fields its command name allows. *)

StepIds == UNION {{Steps[i][k].id : k \in 1 .. Len(Steps[i])} : i \in OrderIndex}

Commands ==
    [name : {"start", "start-new", "close-ledger", "abandon"}]
    \cup [name : {"prepare-rice"}, beat : 0 .. RiceBeats - 1]
    \cup [name : {"accept-order", "plate-order", "serve-order"}, order : OrderIndex]
    \cup [name : {"perform-step"}, order : OrderIndex, step : StepIds]
    \cup [name : {"choose-presentation"}, order : OrderIndex, choice : Presentations]
    \cup [name : {"choose-restoration"}, choice : Restorations]

Admitted(c, cmd) ==
    CASE cmd.name = "start"               -> StartAdmitted(c)
      [] cmd.name = "start-new"           -> StartNewAdmitted(c)
      [] cmd.name = "prepare-rice"        -> PrepareRiceAdmitted(c, cmd.beat)
      [] cmd.name = "accept-order"        -> AcceptOrderAdmitted(c, cmd.order)
      [] cmd.name = "perform-step"        -> PerformStepAdmitted(c, cmd.order, cmd.step)
      [] cmd.name = "choose-presentation" -> ChoosePresentationAdmitted(c, cmd.order, cmd.choice)
      [] cmd.name = "plate-order"         -> PlateOrderAdmitted(c, cmd.order)
      [] cmd.name = "serve-order"         -> ServeOrderAdmitted(c, cmd.order)
      [] cmd.name = "close-ledger"        -> CloseLedgerAdmitted(c)
      [] cmd.name = "choose-restoration"  -> ChooseRestorationAdmitted(c, cmd.choice)
      [] cmd.name = "abandon"             -> AbandonAdmitted(c)

Change(c, cmd) ==
    CASE cmd.name = "start"               -> StartChange(c)
      [] cmd.name = "start-new"           -> StartNewChange(c)
      [] cmd.name = "prepare-rice"        -> PrepareRiceChange(c)
      [] cmd.name = "accept-order"        -> AcceptOrderChange(c, cmd.order)
      [] cmd.name = "perform-step"        -> PerformStepChange(c, cmd.order)
      [] cmd.name = "choose-presentation" -> ChoosePresentationChange(c, cmd.choice)
      [] cmd.name = "plate-order"         -> PlateOrderChange(c, cmd.order)
      [] cmd.name = "serve-order"         -> ServeOrderChange(c, cmd.order)
      [] cmd.name = "close-ledger"        -> CloseLedgerChange(c)
      [] cmd.name = "choose-restoration"  -> ChooseRestorationChange(c, cmd.choice)
      [] cmd.name = "abandon"             -> AbandonChange(c)

\* nextCheckpoint: the change, one revision later, before it is re-decoded.
Advanced(c, cmd) == [Change(c, cmd) EXCEPT !.revision = @ + 1]

\* decodeEveningServiceCheckpoint throws on anything inconsistent.
Decodes(c) == Consistent(c)

\* Mutant: the revision's bound is off by one.
AdvanceablePastBound(c, cmd) ==
    /\ c.revision <= MaxRevision
    /\ cmd.name = "start-new" => c.generation < MaxGeneration

\* The reducer's own refusals: a counter it cannot advance safely.
Advanceable(c, cmd) ==
    /\ c.revision < MaxRevision
    /\ cmd.name = "start-new" => c.generation < MaxGeneration

Accepts(c, cmd) ==
    Admitted(c, cmd) /\ Advanceable(c, cmd) /\ Decodes(Advanced(c, cmd))

-----------------------------------------------------------------------------
(***************************************************************************)
(* conservedComponents: how the uses of a component, one for each authored *)
(* step that consumes it, stand in a checkpoint.                           *)
(***************************************************************************)
Uses == [x \in Components |->
            {u \in OrderIndex \X (1 .. MaxSteps) :
                u[2] <= Len(Steps[u[1]]) /\ Steps[u[1]][u[2]].component = x}]

LedgerRow(c, x) ==
    LET done      == {u \in Uses[x] : u[2] <= c.orders[u[1]].stepIndex}
        served    == {u \in done : c.orders[u[1]].state = "SERVED"}
        discarded == {u \in done : c.orders[u[1]].state = "DISCARDED"}
        placed    == done \ (served \cup discarded)
    IN  [total     |-> Cardinality(Uses[x]),
         placed    |-> Cardinality(placed),
         served    |-> Cardinality(served),
         discarded |-> Cardinality(discarded),
         available |-> Cardinality(Uses[x]) - Cardinality(placed)
                           - Cardinality(served) - Cardinality(discarded)]

-----------------------------------------------------------------------------
(* The claim's merge of a guest checkpoint into a player's. *)

\* Mutant: the player's own unlocks are forgotten.
RebasedForgetting(guest, player, revision) == [guest EXCEPT !.revision = revision]

(***************************************************************************)
(* rebaseEveningServiceCheckpointForClaim: the guest's history wins whole, *)
(* only the unlocks of both are united.                                    *)
(***************************************************************************)
Rebased(guest, player, revision) ==
    [guest EXCEPT !.revision = revision,
                  !.unlocks = @ \cup (IF player = None THEN {} ELSE player.unlocks)]

CommittedRevision(guest, player) ==
    IF player = None THEN guest.revision ELSE player.revision + 1

-----------------------------------------------------------------------------
(***************************************************************************)
(* projectEveningService: the commands the projection offers, its primary  *)
(* command with each of its allowed choices.                               *)
(***************************************************************************)
ActiveOrderState(c) ==
    IF c.activeOrderIndex < NumOrders THEN c.orders[c.activeOrderIndex].state ELSE "NONE"

Prompted(c) ==
    LET a     == c.activeOrderIndex
        state == ActiveOrderState(c)
    IN
    CASE c.phase = "IDLE" -> {[name |-> "start"]}
      [] c.phase = "OPEN" /\ c.riceBeatIndex < RiceBeats ->
             {[name |-> "prepare-rice", beat |-> c.riceBeatIndex]}
      [] c.phase = "OPEN" /\ c.riceBeatIndex = RiceBeats /\ state = "OFFERED" ->
             {[name |-> "accept-order", order |-> a]}
      [] c.phase = "OPEN" /\ c.riceBeatIndex = RiceBeats /\ state \in {"ACCEPTED", "PREPARING"} ->
             {[name |-> "perform-step", order |-> a,
               step |-> Steps[a][c.orders[a].stepIndex + 1].id]}
      [] c.phase = "OPEN" /\ c.riceBeatIndex = RiceBeats /\ state = "READY_TO_PLATE" ->
             IF a = 0 /\ c.presentationChoice = None
             THEN [name : {"choose-presentation"}, order : {a}, choice : Presentations]
             ELSE {[name |-> "plate-order", order |-> a]}
      [] c.phase = "OPEN" /\ c.riceBeatIndex = RiceBeats /\ state = "PLATED" ->
             {[name |-> "serve-order", order |-> a]}
      [] c.phase = "OPEN" /\ c.riceBeatIndex = RiceBeats
            /\ state \in {"NONE", "SERVED", "DISCARDED"} -> {[name |-> "close-ledger"]}
      [] c.phase = "CLOSING" -> [name : {"choose-restoration"}, choice : Restorations]
      [] c.phase = "SETTLED" -> {}
      [] c.phase = "ABANDONED" -> {[name |-> "start-new"]}

-----------------------------------------------------------------------------
(* Behaviour *)

Init ==
    /\ progress = [s \in Subjects |-> None]
    /\ acceptedInRun = [s \in Subjects |-> 0]

\* guest.issue from the browser: a guest row with the initial checkpoint.
IssueGuest(g) ==
    /\ progress[g] = None
    /\ progress' = [progress EXCEPT ![g] = InitialCheckpoint]
    /\ acceptedInRun' = [acceptedInRun EXCEPT ![g] = 0]

(***************************************************************************)
(* reduceEveningService on a subject's row.  A correction, and a throw,    *)
(* leave the row as it is.                                                 *)
(***************************************************************************)
Execute(s, cmd) ==
    /\ progress[s] # None
    /\ \/ /\ Accepts(progress[s], cmd)
          /\ progress' = [progress EXCEPT ![s] = Advanced(progress[s], cmd)]
          /\ acceptedInRun' = [acceptedInRun EXCEPT
                 ![s] = IF cmd.name = "start-new" THEN 1 ELSE @ + 1]
       \/ /\ ~Accepts(progress[s], cmd)
          /\ UNCHANGED vars

Start(s)       == Execute(s, [name |-> "start"])
StartNew(s)    == Execute(s, [name |-> "start-new"])
PrepareRice(s) == \E b \in 0 .. RiceBeats - 1 :
                      Execute(s, [name |-> "prepare-rice", beat |-> b])
AcceptOrder(s) == \E i \in OrderIndex :
                      Execute(s, [name |-> "accept-order", order |-> i])
PerformStep(s) == \E i \in OrderIndex, id \in StepIds :
                      Execute(s, [name |-> "perform-step", order |-> i, step |-> id])
ChoosePresentation(s) == \E i \in OrderIndex, p \in Presentations :
                      Execute(s, [name |-> "choose-presentation", order |-> i, choice |-> p])
PlateOrder(s)  == \E i \in OrderIndex :
                      Execute(s, [name |-> "plate-order", order |-> i])
ServeOrder(s)  == \E i \in OrderIndex :
                      Execute(s, [name |-> "serve-order", order |-> i])
CloseLedger(s) == Execute(s, [name |-> "close-ledger"])
ChooseRestoration(s) == \E r \in Restorations :
                      Execute(s, [name |-> "choose-restoration", choice |-> r])
Abandon(s)     == Execute(s, [name |-> "abandon"])

(***************************************************************************)
(* The claim transaction, as far as the checkpoint goes: a new player gets *)
(* the guest's revision, an existing one the revision after its own, and   *)
(* the guest's row is gone.  The rebased checkpoint is decoded again.      *)
(***************************************************************************)
Claim(g, p) ==
    LET guest  == progress[g]
        player == progress[p]
        merged == Rebased(guest, player, CommittedRevision(guest, player))
    IN
    /\ guest # None
    /\ merged.revision <= MaxRevision
    /\ Decodes(merged)
    /\ progress' = [progress EXCEPT ![g] = None, ![p] = merged]
    /\ acceptedInRun' = [acceptedInRun EXCEPT ![g] = 0, ![p] = acceptedInRun[g]]

Command(s) ==
    \/ Start(s) \/ StartNew(s) \/ PrepareRice(s) \/ AcceptOrder(s)
    \/ PerformStep(s) \/ ChoosePresentation(s) \/ PlateOrder(s) \/ ServeOrder(s)
    \/ CloseLedger(s) \/ ChooseRestoration(s) \/ Abandon(s)

Next ==
    \/ \E g \in Guests : IssueGuest(g)
    \/ \E s \in Subjects : Command(s)
    \/ \E g \in Guests, p \in Players : Claim(g, p)

Spec == Init /\ [][Next]_vars

-----------------------------------------------------------------------------
(* Properties *)

Live(s) == progress[s] # None

\* Every stored row is a checkpoint record.
TypeOK ==
    /\ progress \in [Subjects -> Checkpoint \cup {None}]
    /\ acceptedInRun \in [Subjects -> Nat]

(***************************************************************************)
(* The projection and the reducer agree.  Whatever the projection offers   *)
(* is accepted; what the reducer accepts is offered, or is the abandonment *)
(* that the browser offers beside it; and the projection offers something  *)
(* until the service is settled.                                           *)
(***************************************************************************)
PromptIsExact ==
    \A s \in Subjects : Live(s) /\ progress[s].revision < MaxRevision
                                /\ progress[s].generation < MaxGeneration =>
        /\ \A cmd \in Prompted(progress[s]) : Accepts(progress[s], cmd)
        /\ \A cmd \in Commands :
               Accepts(progress[s], cmd) => cmd \in Prompted(progress[s])
                                            \/ cmd.name = "abandon"
        /\ progress[s].phase # "SETTLED" => Prompted(progress[s]) # {}

(***************************************************************************)
(* Every stored row decodes: no command and no claim ever leaves a subject *)
(* with a checkpoint that the next query or command would throw on.  And   *)
(* it holds what the decoder does not check, that the first plate is not   *)
(* plated before its presentation is chosen: without it the serving of     *)
(* that plate would build a checkpoint that does not decode.               *)
(***************************************************************************)
FirstPlateChosen(c) ==
    c.orders[0].state \in {"PLATED", "SERVED"} => c.presentationChoice # None

Sound(c) == Consistent(c) /\ FirstPlateChosen(c)

RowsSound == \A s \in Subjects : Live(s) => Sound(progress[s])

(***************************************************************************)
(* A command the reducer's guards admit is never thrown away by the        *)
(* re-decoding of its result, except an abandonment between the choice of  *)
(* the first plate's presentation and the serving of that plate: the       *)
(* choice is kept while the order it belongs to is discarded.              *)
(***************************************************************************)
AdmittedCommandsCommit ==
    \A s \in Subjects : Live(s) =>
        \A cmd \in Commands :
            /\ Admitted(progress[s], cmd)
            /\ Advanceable(progress[s], cmd)
            /\ cmd.name = "abandon" => \/ progress[s].presentationChoice = None
                                       \/ 0 \in Served(progress[s])
            => Decodes(Advanced(progress[s], cmd))

\* How many accepted commands of the current run an order, and the whole
\* checkpoint, stand for.
OrderLength(o) ==
    IF o.state = "OFFERED" THEN 0
    ELSE 1 + o.stepIndex + (IF o.plateFeedbackRef THEN 1 ELSE 0)
           + (IF o.serveFeedbackRef THEN 1 ELSE 0)

OrderActs(c) ==
    {act \in OrderIndex \X (1 .. MaxSteps + 3) : act[2] <= OrderLength(c.orders[act[1]])}

RunLength(c) ==
    (IF c.phase = "IDLE" THEN 0 ELSE 1)
    + c.riceBeatIndex
    + Cardinality(OrderActs(c))
    + (IF c.presentationChoice = None THEN 0 ELSE 1)
    + (IF c.phase \in {"CLOSING", "SETTLED"} THEN 1 ELSE 0)
    + (IF c.phase = "SETTLED" THEN 1 ELSE 0)

(***************************************************************************)
(* No step of the evening is skipped, repeated or lost: outside            *)
(* abandonment the checkpoint accounts for exactly the commands accepted   *)
(* in its run, through corrections, restarts and claims alike.             *)
(***************************************************************************)
NoStepSkipped ==
    \A s \in Subjects : Live(s) /\ progress[s].phase # "ABANDONED"
        => RunLength(progress[s]) = acceptedInRun[s]

(***************************************************************************)
(* Within a run a component only moves forward: what was taken is never    *)
(* available again, what was served stays served, and what was discarded   *)
(* stays discarded.  (Guests only: a claim replaces a player's run.)       *)
(***************************************************************************)
ComponentsOnlyConsumed ==
    [][\A g \in Guests, x \in Components :
           /\ Live(g) /\ Live(g)' /\ progress'[g] # progress[g]
           /\ progress'[g].generation = progress[g].generation
           => LET now == LedgerRow(progress[g], x)
                  new == LedgerRow(progress'[g], x)
              IN  /\ new.available \in 0 .. now.available
                  /\ new.served >= now.served
                  /\ new.discarded >= now.discarded
                  /\ new.total = now.total]_vars

(***************************************************************************)
(* What a subject has earned is kept: an unlock survives every command,    *)
(* restart and claim, on the player's row and from the guest's row into    *)
(* the player's; a guest's story facts only grow.                          *)
(***************************************************************************)
EarnedFactsSurvive ==
    [][/\ \A s \in Subjects :
              Live(s) /\ Live(s)' => progress[s].unlocks \subseteq progress'[s].unlocks
       /\ \A g \in Guests :
              Live(g) /\ Live(g)' => /\ Flagged(progress[g]) \subseteq Flagged(progress'[g])
                                     /\ progress'[g].generation >= progress[g].generation
       /\ \A g \in Guests : Live(g) /\ ~Live(g)' =>
              \E p \in Players : Live(p)' /\ progress[g].unlocks \subseteq progress'[p].unlocks]_vars

(***************************************************************************)
(* A row that changes under its subject moves to the next revision,        *)
(* whether a command or a claim changed it: two readers that saw the same  *)
(* revision saw the same checkpoint.                                       *)
(***************************************************************************)
ChangesAdvanceRevision ==
    [][\A s \in Subjects :
           Live(s) /\ Live(s)' /\ progress'[s] # progress[s]
               => progress'[s].revision = progress[s].revision + 1]_vars
=============================================================================
