------------------------ MODULE EveningServiceProofs ------------------------
(***************************************************************************)
(* Proofs about EveningService for every authored evening.                 *)
(*                                                                         *)
(* The argument: Consistent, what the decoder requires, is preserved by    *)
(* the change of every command its guard admits (one lemma per command;    *)
(* abandonment needs one more hypothesis), so re-decoding the result of an *)
(* admitted command never throws.  The claim's rebase preserves it too.    *)
(***************************************************************************)
EXTENDS EveningService, TLAPS, FiniteSetTheorems

-----------------------------------------------------------------------------
(* Helpers *)

\* The decoder's served count pins the served orders to the prefix before
\* the active one.
LEMMA ServedIsPrefix ==
    ASSUME NEW c \in Checkpoint, Consistent(c)
    PROVE  Served(c) = 0 .. c.activeOrderIndex - 1
<1> DEFINE a == c.activeOrderIndex
           prefix == 0 .. a - 1
<1>1. a \in Nat /\ a <= NumOrders /\ NumOrders \in Nat
  BY AuthoredAssumption DEF Checkpoint
<1>2. prefix \in SUBSET Served(c)
  BY <1>1 DEF Consistent, QueueShape, Served, OrderIndex
<1>3. IsFiniteSet(Served(c))
  <2>1. IsFiniteSet(OrderIndex)
    BY <1>1, FS_Interval DEF OrderIndex
  <2> QED
    BY <2>1, FS_Subset DEF Served
<1>4. Cardinality(prefix) = a
  <2>1. 0 \in Int /\ a - 1 \in Int /\ (0 > a - 1 <=> a = 0)
    BY <1>1
  <2> HIDE DEF a
  <2> QED
    BY <1>1, <2>1, FS_Interval
<1>5. Cardinality(Served(c)) = a
  BY DEF Consistent, ServedMatchActive
<1> QED
  BY <1>2, <1>3, <1>4, <1>5, FS_Subset

\* Conversely, an evening whose served orders are a prefix has that count.
LEMMA PrefixCount ==
    ASSUME NEW d, d.activeOrderIndex \in Nat,
           Served(d) = 0 .. d.activeOrderIndex - 1
    PROVE  ServedMatchActive(d)
<1> DEFINE a == d.activeOrderIndex
<1>1. a \in Nat /\ 0 \in Int /\ a - 1 \in Int /\ (0 > a - 1 <=> a = 0)
  OBVIOUS
<1> HIDE DEF a
<1>2. Cardinality(0 .. a - 1) = a
  BY <1>1, FS_Interval
<1> QED
  BY <1>2 DEF a, ServedMatchActive

LEMMA RevisionTyped ==
    ASSUME NEW e \in Checkpoint, e.revision < MaxRevision
    PROVE  [e EXCEPT !.revision = @ + 1] \in Checkpoint
<1>1. e.revision + 1 \in 0 .. MaxRevision
  BY BoundAssumption DEF Checkpoint
<1> QED
  BY <1>1 DEF Checkpoint

-----------------------------------------------------------------------------
(***************************************************************************)
(* One lemma per command: an admitted change of a consistent checkpoint is *)
(* a checkpoint, and it is consistent one revision later.                  *)
(***************************************************************************)
LEMMA StartKeeps ==
    ASSUME NEW c \in Checkpoint, Sound(c), StartAdmitted(c)
    PROVE  /\ StartChange(c) \in Checkpoint
           /\ Sound([StartChange(c) EXCEPT !.revision = @ + 1])
<1> DEFINE d == [StartChange(c) EXCEPT !.revision = @ + 1]
<1>1. StartChange(c) \in Checkpoint
  BY DEF Checkpoint, StartChange, Phases
<1>2. /\ d.revision = c.revision + 1 /\ d.phase = "OPEN"
      /\ d.riceBeatIndex = c.riceBeatIndex
      /\ d.presentationChoice = c.presentationChoice
      /\ d.restorationChoice = c.restorationChoice
      /\ d.activeOrderIndex = c.activeOrderIndex
      /\ d.orders = c.orders /\ d.storyFlags = c.storyFlags /\ d.unlocks = c.unlocks
  BY DEF StartChange, Checkpoint
<1> HIDE DEF d
<1>3. ServedMatchActive(d) /\ StoryIsAuthoredPrefix(d)
  BY <1>2 DEF Sound, Consistent, ServedMatchActive, Served, StoryIsAuthoredPrefix, Flagged
<1>4. QueueShape(d) /\ OrderShape(d)
  BY <1>2 DEF Sound, Consistent, QueueShape, OrderShape, StartAdmitted
<1>5. PresentationShape(d) /\ RestorationShape(d)
  BY <1>2 DEF Sound, Consistent, PresentationShape, RestorationShape, StartAdmitted
<1>6. PhaseShape(d)
  <2>1. d.revision # 0
    BY <1>2 DEF Checkpoint
  <2>2. Untouched(c) /\ 0 \in OrderIndex
    BY AuthoredAssumption DEF Sound, Consistent, PhaseShape, StartAdmitted, OrderIndex
  <2>3. Untouched(d) /\ d.orders[0].state = "OFFERED" /\ d.activeOrderIndex = 0
    BY <1>2, <2>2 DEF Untouched
  <2> QED
    BY <1>2, <2>1, <2>3 DEF PhaseShape
<1>7. FirstPlateChosen(d)
  BY <1>2 DEF Sound, FirstPlateChosen
<1> QED
  BY <1>1, <1>3, <1>4, <1>5, <1>6, <1>7 DEF Sound, Consistent, d

LEMMA StartNewKeeps ==
    ASSUME NEW c \in Checkpoint, Sound(c), StartNewAdmitted(c),
           c.generation < MaxGeneration
    PROVE  /\ StartNewChange(c) \in Checkpoint
           /\ Sound([StartNewChange(c) EXCEPT !.revision = @ + 1])
<1> DEFINE d == [StartNewChange(c) EXCEPT !.revision = @ + 1]
<1>1. StartNewChange(c) \in Checkpoint
  <2>1. c.generation + 1 \in 0 .. MaxGeneration /\ 0 \in 0 .. NumOrders /\ 0 \in 0 .. RiceBeats
    BY BoundAssumption, AuthoredAssumption DEF Checkpoint
  <2>2. [i \in OrderIndex |-> OfferedOrder] \in [OrderIndex -> Order]
    BY DEF OfferedOrder, Order, OrderStates
  <2> QED
    BY <2>1, <2>2 DEF Checkpoint, StartNewChange, Phases
<1>2. /\ d.revision = c.revision + 1 /\ d.phase = "OPEN" /\ d.riceBeatIndex = 0
      /\ d.presentationChoice = None /\ d.restorationChoice = None
      /\ d.activeOrderIndex = 0 /\ d.orders = [i \in OrderIndex |-> OfferedOrder]
      /\ d.storyFlags = c.storyFlags /\ d.unlocks = c.unlocks
  BY DEF StartNewChange, Checkpoint
<1> HIDE DEF d
<1>3. ServedMatchActive(d)
  <2>1. Served(d) = {}
    BY <1>2 DEF Served, OfferedOrder
  <2> QED
    BY <1>2, <2>1, FS_EmptySet DEF ServedMatchActive
<1>4. StoryIsAuthoredPrefix(d)
  BY <1>2 DEF Sound, Consistent, StoryIsAuthoredPrefix, Flagged
<1>5. QueueShape(d) /\ OrderShape(d)
  BY <1>2, AuthoredAssumption DEF QueueShape, OrderShape, OfferedOrder, OrderIndex
<1>6. PresentationShape(d) /\ RestorationShape(d)
  BY <1>2 DEF PresentationShape, RestorationShape
<1>7. PhaseShape(d)
  <2>1. d.revision # 0
    BY <1>2 DEF Checkpoint
  <2>2. Untouched(d)
    BY <1>2 DEF Untouched, OfferedOrder
  <2>3. d.orders[0].state = "OFFERED"
    BY <1>2, AuthoredAssumption DEF OfferedOrder, OrderIndex
  <2> QED
    BY <1>2, <2>1, <2>2, <2>3 DEF PhaseShape
<1>8. FirstPlateChosen(d)
  BY <1>2, AuthoredAssumption DEF FirstPlateChosen, OfferedOrder, OrderIndex
<1> QED
  BY <1>1, <1>3, <1>4, <1>5, <1>6, <1>7, <1>8 DEF Sound, Consistent, d

LEMMA PrepareRiceKeeps ==
    ASSUME NEW c \in Checkpoint, Sound(c), NEW b, PrepareRiceAdmitted(c, b)
    PROVE  /\ PrepareRiceChange(c) \in Checkpoint
           /\ Sound([PrepareRiceChange(c) EXCEPT !.revision = @ + 1])
<1> DEFINE d == [PrepareRiceChange(c) EXCEPT !.revision = @ + 1]
<1>1. PrepareRiceChange(c) \in Checkpoint
  <2>1. c.riceBeatIndex + 1 \in 0 .. RiceBeats
    BY AuthoredAssumption DEF Checkpoint, PrepareRiceAdmitted
  <2> QED
    BY <2>1 DEF Checkpoint, PrepareRiceChange
<1>2. /\ d.revision = c.revision + 1 /\ d.phase = "OPEN"
      /\ d.riceBeatIndex = c.riceBeatIndex + 1
      /\ d.presentationChoice = c.presentationChoice
      /\ d.restorationChoice = c.restorationChoice
      /\ d.activeOrderIndex = c.activeOrderIndex
      /\ d.orders = c.orders /\ d.storyFlags = c.storyFlags /\ d.unlocks = c.unlocks
  BY DEF PrepareRiceChange, PrepareRiceAdmitted, Checkpoint
<1> HIDE DEF d
<1>3. ServedMatchActive(d) /\ StoryIsAuthoredPrefix(d)
  BY <1>2 DEF Sound, Consistent, ServedMatchActive, Served, StoryIsAuthoredPrefix, Flagged
<1>4. QueueShape(d) /\ OrderShape(d)
  BY <1>2 DEF Sound, Consistent, QueueShape, OrderShape, PrepareRiceAdmitted
<1>5. PresentationShape(d) /\ RestorationShape(d)
  BY <1>2 DEF Sound, Consistent, PresentationShape, RestorationShape, PrepareRiceAdmitted
<1>6. PhaseShape(d)
  <2>1. d.revision # 0
    BY <1>2 DEF Checkpoint
  <2> QED
    BY <1>2, <2>1, AuthoredAssumption
       DEF Sound, Consistent, PhaseShape, Untouched, PrepareRiceAdmitted, Checkpoint, OrderIndex
<1>7. FirstPlateChosen(d)
  BY <1>2 DEF Sound, FirstPlateChosen
<1> QED
  BY <1>1, <1>3, <1>4, <1>5, <1>6, <1>7 DEF Sound, Consistent, d

\* How an order that is being worked on may stand in an open service.
WorkedOn(c, i, o) ==
    /\ o.state \in {"ACCEPTED", "PREPARING", "READY_TO_PLATE", "PLATED"}
    /\ o.state = "ACCEPTED" => o.stepIndex = 0
    /\ o.state = "PREPARING" => o.stepIndex \in 1 .. Len(Steps[i]) - 1
    /\ o.state \in {"READY_TO_PLATE", "PLATED"} => o.stepIndex = Len(Steps[i])
    /\ o.plateFeedbackRef <=> o.state = "PLATED"
    /\ ~o.serveFeedbackRef
    /\ o.state = "PLATED" /\ i = 0 => c.presentationChoice # None
    /\ i = 0 /\ c.presentationChoice # None => o.state \in {"READY_TO_PLATE", "PLATED"}

(***************************************************************************)
(* The commands on the active order that leave the queue where it is: if   *)
(* the replaced order has a shape of its own, everything else follows.     *)
(***************************************************************************)
LEMMA ActiveOrderReplaced ==
    ASSUME NEW c \in Checkpoint, Sound(c), NEW i \in OrderIndex,
           ForActiveOrder(c, i), c.riceBeatIndex = RiceBeats,
           NEW o \in Order, WorkedOn(c, i, o),
           NEW e, e = [c EXCEPT !.orders[i] = o]
    PROVE  /\ e \in Checkpoint
           /\ Sound([e EXCEPT !.revision = @ + 1])
<1> DEFINE d == [e EXCEPT !.revision = @ + 1]
<1>0. e \in Checkpoint
  <2>1. [c.orders EXCEPT ![i] = o] \in [OrderIndex -> Order]
    BY DEF Checkpoint
  <2> QED
    BY <2>1 DEF Checkpoint
<1>1. /\ d.revision = c.revision + 1 /\ d.phase = "OPEN"
      /\ d.riceBeatIndex = RiceBeats
      /\ d.presentationChoice = c.presentationChoice
      /\ d.restorationChoice = c.restorationChoice
      /\ d.activeOrderIndex = i /\ c.activeOrderIndex = i
      /\ d.orders[i] = o
      /\ \A j \in OrderIndex : j # i => d.orders[j] = c.orders[j]
      /\ d.storyFlags = c.storyFlags /\ d.unlocks = c.unlocks
  BY DEF Checkpoint, ForActiveOrder
<1>2. c.phase = "OPEN" /\ c.revision \in Nat /\ i \in Nat /\ NumOrders \in Nat /\ 0 \in OrderIndex
  BY AuthoredAssumption DEF ForActiveOrder, Checkpoint, OrderIndex
<1>3. c.orders[i].state \notin {"SERVED", "DISCARDED"}
  BY <1>2 DEF Sound, Consistent, PhaseShape, ForActiveOrder
<1> HIDE DEF d
<1>4. ServedMatchActive(d)
  <2>1. Served(d) = Served(c)
    BY <1>1, <1>3 DEF Served, WorkedOn
  <2> QED
    BY <1>1, <2>1 DEF Sound, Consistent, ServedMatchActive
<1>5. StoryIsAuthoredPrefix(d)
  BY <1>1 DEF Sound, Consistent, StoryIsAuthoredPrefix, Flagged
<1>6. QueueShape(d)
  BY <1>1, <1>2 DEF Sound, Consistent, QueueShape, OrderIndex
<1>7. OrderShape(d)
  <2>1. ASSUME NEW j \in OrderIndex
        PROVE  LET q == d.orders[j] IN
               /\ q.stepIndex \in 0 .. Len(Steps[j])
               /\ q.state \in {"OFFERED", "ACCEPTED"} => q.stepIndex = 0
               /\ q.state = "PREPARING" => q.stepIndex \in 1 .. Len(Steps[j]) - 1
               /\ q.state \in {"READY_TO_PLATE", "PLATED", "SERVED"}
                      => q.stepIndex = Len(Steps[j])
               /\ q.plateFeedbackRef <=> q.state \in {"PLATED", "SERVED"}
               /\ q.serveFeedbackRef <=> q.state = "SERVED"
    <3>1. CASE j = i
      <4>1. Len(Steps[i]) \in Nat \ {0}
        BY AuthoredAssumption
      <4> QED
        BY <1>1, <3>1, <4>1 DEF WorkedOn
    <3>2. CASE j # i
      BY <1>1, <3>2 DEF Sound, Consistent, OrderShape
    <3> QED
      BY <3>1, <3>2
  <2> QED
    BY <2>1 DEF OrderShape
<1>8. PresentationShape(d) /\ RestorationShape(d)
  BY <1>1, <1>2 DEF Sound, Consistent, PresentationShape, RestorationShape, WorkedOn
<1>9. PhaseShape(d)
  <2>1. d.revision # 0
    BY <1>1, <1>2
  <2>2. d.orders[d.activeOrderIndex].state \notin {"SERVED", "DISCARDED"}
    BY <1>1 DEF WorkedOn
  <2>3. d.activeOrderIndex > 0 => d.presentationChoice # None
    BY <1>1, <1>2 DEF Sound, Consistent, PhaseShape
  <2>4. d.phase = "OPEN" /\ d.riceBeatIndex = RiceBeats /\ RiceBeats \in Nat
    BY <1>1, AuthoredAssumption
  <2> QED
    BY <2>1, <2>2, <2>3, <2>4 DEF PhaseShape
<1>10. FirstPlateChosen(d)
  BY <1>1, <1>2 DEF Sound, FirstPlateChosen, WorkedOn
<1> QED
  BY <1>0, <1>4, <1>5, <1>6, <1>7, <1>8, <1>9, <1>10 DEF Sound, Consistent, d

LEMMA AcceptOrderKeeps ==
    ASSUME NEW c \in Checkpoint, Sound(c), NEW i \in OrderIndex,
           AcceptOrderAdmitted(c, i)
    PROVE  /\ AcceptOrderChange(c, i) \in Checkpoint
           /\ Sound([AcceptOrderChange(c, i) EXCEPT !.revision = @ + 1])
<1> DEFINE o == [c.orders[i] EXCEPT !.state = "ACCEPTED"]
<1>1. o \in Order /\ c.orders[i] \in Order
  BY DEF Checkpoint, Order, OrderStates
<1>2. AcceptOrderChange(c, i) = [c EXCEPT !.orders[i] = o]
  BY DEF AcceptOrderChange, Checkpoint
<1>3. WorkedOn(c, i, o)
  <2>1. /\ o.state = "ACCEPTED" /\ o.stepIndex = 0
        /\ o.plateFeedbackRef = FALSE /\ o.serveFeedbackRef = FALSE
    BY <1>1 DEF Sound, Consistent, OrderShape, AcceptOrderAdmitted, Order
  <2>2. i = 0 => c.presentationChoice = None
    BY DEF Sound, Consistent, PresentationShape, AcceptOrderAdmitted
  <2> HIDE DEF o
  <2> QED
    BY <2>1, <2>2 DEF WorkedOn
<1> HIDE DEF o
<1> QED
  BY <1>1, <1>2, <1>3, ActiveOrderReplaced DEF AcceptOrderAdmitted

\* Outside its untouched start an open service has all its rice prepared.
LEMMA RiceIsPrepared ==
    ASSUME NEW c \in Checkpoint, Sound(c), NEW i \in OrderIndex,
           ForActiveOrder(c, i), c.orders[i].state # "OFFERED"
    PROVE  c.riceBeatIndex = RiceBeats
BY AuthoredAssumption DEF Sound, Consistent, PhaseShape, Untouched, ForActiveOrder, Checkpoint

LEMMA PerformStepKeeps ==
    ASSUME NEW c \in Checkpoint, Sound(c), NEW i \in OrderIndex,
           NEW id, PerformStepAdmitted(c, i, id)
    PROVE  /\ PerformStepChange(c, i) \in Checkpoint
           /\ Sound([PerformStepChange(c, i) EXCEPT !.revision = @ + 1])
<1> DEFINE done == c.orders[i].stepIndex + 1
           reached == IF done = Len(Steps[i]) THEN "READY_TO_PLATE" ELSE "PREPARING"
           o == [c.orders[i] EXCEPT !.stepIndex = done, !.state = reached]
<1>1. c.orders[i] \in Order /\ Len(Steps[i]) \in Nat
  BY AuthoredAssumption DEF Checkpoint
<1>2. done \in 1 .. Len(Steps[i])
  BY <1>1 DEF Order, PerformStepAdmitted
<1>3. reached \in OrderStates
  BY DEF OrderStates
<1>4. o \in Order
  <2>1. done \in Nat
    BY <1>1, <1>2
  <2> HIDE DEF done, reached
  <2> QED
    BY <1>1, <1>3, <2>1 DEF Order
<1>5. PerformStepChange(c, i) = [c EXCEPT !.orders[i] = o]
  BY DEF PerformStepChange, Checkpoint
<1>6. WorkedOn(c, i, o)
  <2>1. /\ o.state = reached /\ o.stepIndex = done
        /\ o.plateFeedbackRef = c.orders[i].plateFeedbackRef
        /\ o.serveFeedbackRef = c.orders[i].serveFeedbackRef
    BY <1>1 DEF Order
  <2>2. ~c.orders[i].plateFeedbackRef /\ ~c.orders[i].serveFeedbackRef
    BY DEF Sound, Consistent, OrderShape, PerformStepAdmitted
  <2>3. i = 0 => c.presentationChoice = None
    BY DEF Sound, Consistent, PresentationShape, PerformStepAdmitted
  <2>4. done = Len(Steps[i]) \/ done \in 1 .. Len(Steps[i]) - 1
    BY <1>1, <1>2
  <2> HIDE DEF o, done
  <2> QED
    BY <2>1, <2>2, <2>3, <2>4 DEF WorkedOn
<1> HIDE DEF o
<1> QED
  BY <1>4, <1>5, <1>6, RiceIsPrepared, ActiveOrderReplaced
     DEF PerformStepAdmitted

LEMMA ChoosePresentationKeeps ==
    ASSUME NEW c \in Checkpoint, Sound(c), NEW i \in OrderIndex, NEW choice,
           ChoosePresentationAdmitted(c, i, choice)
    PROVE  /\ ChoosePresentationChange(c, choice) \in Checkpoint
           /\ Sound([ChoosePresentationChange(c, choice) EXCEPT !.revision = @ + 1])
<1> DEFINE d == [ChoosePresentationChange(c, choice) EXCEPT !.revision = @ + 1]
<1>1. ChoosePresentationChange(c, choice) \in Checkpoint
  BY DEF Checkpoint, ChoosePresentationChange, ChoosePresentationAdmitted
<1>2. /\ d.revision = c.revision + 1 /\ d.phase = "OPEN"
      /\ d.riceBeatIndex = c.riceBeatIndex
      /\ d.presentationChoice = choice /\ choice # None
      /\ d.restorationChoice = c.restorationChoice
      /\ d.activeOrderIndex = 0 /\ c.activeOrderIndex = 0 /\ c.phase = "OPEN"
      /\ d.orders = c.orders /\ d.storyFlags = c.storyFlags /\ d.unlocks = c.unlocks
  BY AuthoredAssumption
     DEF ChoosePresentationChange, ChoosePresentationAdmitted, ForActiveOrder, Checkpoint
<1>3. c.orders[0].state = "READY_TO_PLATE"
  BY DEF ChoosePresentationAdmitted
<1>4. c.riceBeatIndex = RiceBeats /\ RiceBeats \in Nat
  BY <1>3, RiceIsPrepared, AuthoredAssumption DEF ChoosePresentationAdmitted, ForActiveOrder
<1> HIDE DEF d
<1>5. ServedMatchActive(d) /\ StoryIsAuthoredPrefix(d)
  BY <1>2 DEF Sound, Consistent, ServedMatchActive, Served, StoryIsAuthoredPrefix, Flagged
<1>6. QueueShape(d) /\ OrderShape(d)
  BY <1>2 DEF Sound, Consistent, QueueShape, OrderShape
<1>7. PresentationShape(d) /\ RestorationShape(d)
  BY <1>2, <1>3 DEF Sound, Consistent, PresentationShape, RestorationShape
<1>8. PhaseShape(d)
  <2>1. d.revision # 0
    BY <1>2 DEF Checkpoint
  <2> QED
    BY <1>2, <1>3, <1>4, <2>1 DEF PhaseShape
<1>9. FirstPlateChosen(d)
  BY <1>2 DEF FirstPlateChosen
<1> QED
  BY <1>1, <1>5, <1>6, <1>7, <1>8, <1>9 DEF Sound, Consistent, d

LEMMA PlateOrderKeeps ==
    ASSUME NEW c \in Checkpoint, Sound(c), NEW i \in OrderIndex,
           PlateOrderAdmitted(c, i)
    PROVE  /\ PlateOrderChange(c, i) \in Checkpoint
           /\ Sound([PlateOrderChange(c, i) EXCEPT !.revision = @ + 1])
<1> DEFINE o == [c.orders[i] EXCEPT !.state = "PLATED", !.plateFeedbackRef = TRUE]
<1>1. o \in Order /\ c.orders[i] \in Order
  BY DEF Checkpoint, Order, OrderStates
<1>2. PlateOrderChange(c, i) = [c EXCEPT !.orders[i] = o]
  BY DEF PlateOrderChange, Checkpoint
<1>3. WorkedOn(c, i, o)
  <2>1. /\ o.state = "PLATED" /\ o.plateFeedbackRef = TRUE
        /\ o.stepIndex = c.orders[i].stepIndex
        /\ o.serveFeedbackRef = c.orders[i].serveFeedbackRef
    BY <1>1 DEF Order
  <2>2. c.orders[i].stepIndex = Len(Steps[i]) /\ ~c.orders[i].serveFeedbackRef
    BY DEF Sound, Consistent, OrderShape, PlateOrderAdmitted
  <2>3. i = 0 => c.presentationChoice # None
    BY DEF PlateOrderAdmitted
  <2> HIDE DEF o
  <2> QED
    BY <2>1, <2>2, <2>3 DEF WorkedOn
<1> HIDE DEF o
<1> QED
  BY <1>1, <1>2, <1>3, RiceIsPrepared, ActiveOrderReplaced DEF PlateOrderAdmitted

LEMMA ServeOrderKeeps ==
    ASSUME NEW c \in Checkpoint, Sound(c), NEW i \in OrderIndex,
           ServeOrderAdmitted(c, i)
    PROVE  /\ ServeOrderChange(c, i) \in Checkpoint
           /\ Sound([ServeOrderChange(c, i) EXCEPT !.revision = @ + 1])
<1> DEFINE o == [c.orders[i] EXCEPT !.state = "SERVED", !.serveFeedbackRef = TRUE]
           told == IF i \in Flagged(c) THEN c.storyFlags ELSE Append(c.storyFlags, i)
           e == ServeOrderChange(c, i)
           d == [e EXCEPT !.revision = @ + 1]
<1>1. o \in Order /\ c.orders[i] \in Order
  BY DEF Checkpoint, Order, OrderStates
<1>2. /\ c.activeOrderIndex = i /\ c.phase = "OPEN" /\ c.orders[i].state = "PLATED"
      /\ i \in Nat /\ NumOrders \in Nat /\ i + 1 \in 0 .. NumOrders /\ i < NumOrders
      /\ 0 \in OrderIndex /\ RiceBeats \in Nat
  BY AuthoredAssumption DEF ServeOrderAdmitted, ForActiveOrder, OrderIndex
<1>3. c.riceBeatIndex = RiceBeats
  BY <1>2, RiceIsPrepared DEF ServeOrderAdmitted
<1>4. told \in Seq(OrderIndex)
  BY DEF Checkpoint
<1>5. e = [c EXCEPT !.orders = [c.orders EXCEPT ![i] = o],
                    !.activeOrderIndex = i + 1, !.storyFlags = told]
  BY <1>2 DEF ServeOrderChange, Checkpoint
<1> HIDE DEF told, o
<1>6. e \in Checkpoint
  <2>1. [c.orders EXCEPT ![i] = o] \in [OrderIndex -> Order]
    BY <1>1 DEF Checkpoint
  <2> HIDE DEF e
  <2> QED
    BY <1>2, <1>4, <1>5, <2>1 DEF Checkpoint
<1>7. /\ d.revision = c.revision + 1 /\ d.phase = "OPEN"
      /\ d.riceBeatIndex = RiceBeats
      /\ d.presentationChoice = c.presentationChoice
      /\ d.restorationChoice = c.restorationChoice
      /\ d.activeOrderIndex = i + 1
      /\ d.orders[i] = o
      /\ \A j \in OrderIndex : j # i => d.orders[j] = c.orders[j]
      /\ d.storyFlags = told /\ d.unlocks = c.unlocks
  <2> HIDE DEF e
  <2> QED
    BY <1>2, <1>3, <1>5 DEF Checkpoint
<1>8. /\ o.state = "SERVED" /\ o.stepIndex = Len(Steps[i])
      /\ o.plateFeedbackRef = TRUE /\ o.serveFeedbackRef = TRUE
  BY <1>1, <1>2 DEF o, Order, Sound, Consistent, OrderShape
<1> HIDE DEF d
<1>9. ServedMatchActive(d)
  <2>1. Served(c) = 0 .. i - 1
    BY <1>2, ServedIsPrefix DEF Sound
  <2>2. Served(d) = Served(c) \cup {i}
    BY <1>7, <1>8 DEF Served
  <2>3. Served(d) = 0 .. i
    BY <1>2, <2>1, <2>2
  <2> QED
    BY <1>2, <1>7, <2>3, PrefixCount
<1>10. StoryIsAuthoredPrefix(d)
  <2>1. /\ c.storyFlags \in Seq(OrderIndex) /\ Len(c.storyFlags) \in Nat
        /\ Len(c.storyFlags) <= NumOrders
        /\ \A k \in 1 .. Len(c.storyFlags) : c.storyFlags[k] = k - 1
        /\ 0 .. i - 1 \subseteq Flagged(c)
    BY <1>2 DEF Checkpoint, Sound, Consistent, StoryIsAuthoredPrefix
  <2>2. CASE i \in Flagged(c)
    <3>1. d.storyFlags = c.storyFlags
      BY <1>7, <2>2 DEF told
    <3>2. 0 .. i \subseteq Flagged(c)
      BY <1>2, <2>1, <2>2
    <3>3. Flagged(d) = Flagged(c) /\ d.activeOrderIndex - 1 = i
      BY <1>2, <1>7, <3>1 DEF Flagged
    <3> QED
      BY <2>1, <3>1, <3>2, <3>3 DEF StoryIsAuthoredPrefix
  <2>3. CASE i \notin Flagged(c)
    <3>1. Len(c.storyFlags) <= i
      <4>1. SUFFICES ASSUME Len(c.storyFlags) > i PROVE FALSE
        BY <1>2, <2>1
      <4>2. i + 1 \in 1 .. Len(c.storyFlags) /\ c.storyFlags[i + 1] = i
        BY <1>2, <2>1, <4>1
      <4> QED
        BY <2>3, <4>2 DEF Flagged
    <3>2. Len(c.storyFlags) >= i
      <4>1. CASE i = 0
        BY <2>1, <4>1
      <4>2. CASE i > 0
        <5>1. i - 1 \in Flagged(c)
          BY <1>2, <2>1, <4>2
        <5>2. PICK k \in 1 .. Len(c.storyFlags) : c.storyFlags[k] = i - 1
          BY <5>1 DEF Flagged
        <5> QED
          BY <1>2, <2>1, <5>2
      <4> QED
        BY <1>2, <4>1, <4>2
    <3>3. Len(c.storyFlags) = i
      BY <1>2, <2>1, <3>1, <3>2
    <3>4. d.storyFlags = Append(c.storyFlags, i)
      BY <1>7, <2>3 DEF told
    <3>5. /\ Len(d.storyFlags) = i + 1
          /\ \A k \in 1 .. i : d.storyFlags[k] = c.storyFlags[k]
          /\ d.storyFlags[i + 1] = i
      BY <1>2, <2>1, <3>3, <3>4
    <3>6. \A k \in 1 .. i + 1 : d.storyFlags[k] = k - 1
      BY <1>2, <2>1, <3>3, <3>5
    <3>7. 0 .. i \subseteq Flagged(d)
      <4>1. SUFFICES ASSUME NEW k \in 0 .. i PROVE k \in Flagged(d)
        OBVIOUS
      <4>2. k + 1 \in 1 .. Len(d.storyFlags) /\ d.storyFlags[k + 1] = k
        BY <1>2, <3>5, <3>6
      <4> QED
        BY <4>2 DEF Flagged
    <3> QED
      BY <1>2, <1>7, <3>5, <3>6, <3>7 DEF StoryIsAuthoredPrefix
  <2> QED
    BY <2>2, <2>3
<1>11. QueueShape(d)
  BY <1>2, <1>7, <1>8 DEF Sound, Consistent, QueueShape, OrderIndex
<1>12. OrderShape(d)
  BY <1>7, <1>8, AuthoredAssumption DEF Sound, Consistent, OrderShape
<1>13. FirstPlateChosen(c)
  BY DEF Sound
<1>14. d.presentationChoice # None
  <2>1. CASE i = 0
    BY <1>2, <1>7, <1>13, <2>1 DEF FirstPlateChosen
  <2>2. CASE i > 0
    BY <1>2, <1>7, <2>2 DEF Sound, Consistent, PhaseShape
  <2> QED
    BY <1>2, <2>1, <2>2
<1>15. PresentationShape(d) /\ RestorationShape(d)
  BY <1>2, <1>7, <1>8 DEF Sound, Consistent, PresentationShape, RestorationShape
<1>16. PhaseShape(d)
  <2>1. d.revision # 0
    BY <1>7 DEF Checkpoint
  <2>2. i + 1 < NumOrders => d.orders[i + 1].state = "OFFERED"
    BY <1>2, <1>7 DEF Sound, Consistent, QueueShape, OrderIndex
  <2> QED
    BY <1>2, <1>7, <1>14, <2>1, <2>2 DEF PhaseShape
<1>17. FirstPlateChosen(d)
  BY <1>14 DEF FirstPlateChosen
<1> QED
  BY <1>6, <1>9, <1>10, <1>11, <1>12, <1>15, <1>16, <1>17 DEF Sound, Consistent, d

LEMMA CloseLedgerKeeps ==
    ASSUME NEW c \in Checkpoint, Sound(c), CloseLedgerAdmitted(c)
    PROVE  /\ CloseLedgerChange(c) \in Checkpoint
           /\ Sound([CloseLedgerChange(c) EXCEPT !.revision = @ + 1])
<1> DEFINE d == [CloseLedgerChange(c) EXCEPT !.revision = @ + 1]
<1>1. CloseLedgerChange(c) \in Checkpoint
  BY DEF Checkpoint, CloseLedgerChange, Phases
<1>2. /\ d.revision = c.revision + 1 /\ d.phase = "CLOSING"
      /\ d.riceBeatIndex = c.riceBeatIndex
      /\ d.presentationChoice = c.presentationChoice
      /\ d.restorationChoice = c.restorationChoice
      /\ d.activeOrderIndex = NumOrders /\ c.activeOrderIndex = NumOrders
      /\ c.phase = "OPEN" /\ NumOrders \in Nat /\ NumOrders > 0
      /\ d.orders = c.orders /\ d.storyFlags = c.storyFlags /\ d.unlocks = c.unlocks
  BY AuthoredAssumption DEF CloseLedgerChange, CloseLedgerAdmitted, Checkpoint
<1> HIDE DEF d
<1>3. ServedMatchActive(d) /\ StoryIsAuthoredPrefix(d)
  BY <1>2 DEF Sound, Consistent, ServedMatchActive, Served, StoryIsAuthoredPrefix, Flagged
<1>4. QueueShape(d) /\ OrderShape(d)
  BY <1>2 DEF Sound, Consistent, QueueShape, OrderShape
<1>5. PresentationShape(d) /\ RestorationShape(d)
  BY <1>2 DEF Sound, Consistent, PresentationShape, RestorationShape
<1>6. PhaseShape(d)
  BY <1>2, AuthoredAssumption DEF Sound, Consistent, PhaseShape, Untouched, Checkpoint
<1>7. FirstPlateChosen(d)
  BY <1>2 DEF Sound, FirstPlateChosen
<1> QED
  BY <1>1, <1>3, <1>4, <1>5, <1>6, <1>7 DEF Sound, Consistent, d

LEMMA ChooseRestorationKeeps ==
    ASSUME NEW c \in Checkpoint, Sound(c), NEW choice,
           ChooseRestorationAdmitted(c, choice)
    PROVE  /\ ChooseRestorationChange(c, choice) \in Checkpoint
           /\ Sound([ChooseRestorationChange(c, choice) EXCEPT !.revision = @ + 1])
<1> DEFINE d == [ChooseRestorationChange(c, choice) EXCEPT !.revision = @ + 1]
<1>1. ChooseRestorationChange(c, choice) \in Checkpoint
  BY DEF Checkpoint, ChooseRestorationChange, ChooseRestorationAdmitted, Phases
<1>2. /\ d.revision = c.revision + 1 /\ d.phase = "SETTLED" /\ c.phase = "CLOSING"
      /\ d.riceBeatIndex = c.riceBeatIndex
      /\ d.presentationChoice = c.presentationChoice
      /\ d.restorationChoice = choice /\ choice # None
      /\ d.activeOrderIndex = c.activeOrderIndex
      /\ d.orders = c.orders /\ d.storyFlags = c.storyFlags /\ Sashimi \in d.unlocks
  BY AuthoredAssumption
     DEF ChooseRestorationChange, ChooseRestorationAdmitted, Checkpoint
<1> HIDE DEF d
<1>3. ServedMatchActive(d) /\ StoryIsAuthoredPrefix(d)
  BY <1>2 DEF Sound, Consistent, ServedMatchActive, Served, StoryIsAuthoredPrefix, Flagged
<1>4. QueueShape(d) /\ OrderShape(d)
  BY <1>2 DEF Sound, Consistent, QueueShape, OrderShape
<1>5. PresentationShape(d) /\ RestorationShape(d)
  BY <1>2 DEF Sound, Consistent, PresentationShape, RestorationShape
<1>6. PhaseShape(d)
  BY <1>2 DEF Sound, Consistent, PhaseShape
<1>7. FirstPlateChosen(d)
  BY <1>2 DEF Sound, FirstPlateChosen
<1> QED
  BY <1>1, <1>3, <1>4, <1>5, <1>6, <1>7 DEF Sound, Consistent, d

\* The one command that needs more than its guard: see AdmittedCommandsCommit.
LEMMA AbandonKeeps ==
    ASSUME NEW c \in Checkpoint, Sound(c), AbandonAdmitted(c),
           c.presentationChoice = None \/ 0 \in Served(c)
    PROVE  Sound([AbandonChange(c) EXCEPT !.revision = @ + 1])
<1> DEFINE d == [AbandonChange(c) EXCEPT !.revision = @ + 1]
           dropped(j) == [c.orders[j] EXCEPT !.state = "DISCARDED",
                                             !.plateFeedbackRef = FALSE,
                                             !.serveFeedbackRef = FALSE]
<1>1. /\ d.revision = c.revision + 1 /\ d.phase = "ABANDONED"
      /\ d.presentationChoice = c.presentationChoice
      /\ d.restorationChoice = c.restorationChoice
      /\ d.activeOrderIndex = c.activeOrderIndex
      /\ d.storyFlags = c.storyFlags
  BY DEF AbandonChange, Checkpoint
<1>1a. d.orders = [j \in OrderIndex |->
                      IF c.orders[j].state = "SERVED" THEN c.orders[j] ELSE dropped(j)]
  BY DEF AbandonChange, Checkpoint
<1> HIDE DEF d
<1>2. \A j \in OrderIndex : c.orders[j].state = "SERVED" => d.orders[j] = c.orders[j]
  BY <1>1a
<1>3. ASSUME NEW j \in OrderIndex, c.orders[j].state # "SERVED"
      PROVE  /\ d.orders[j].state = "DISCARDED"
             /\ d.orders[j].stepIndex = c.orders[j].stepIndex
             /\ d.orders[j].plateFeedbackRef = FALSE
             /\ d.orders[j].serveFeedbackRef = FALSE
  <2>1. c.orders[j] \in Order /\ d.orders[j] = dropped(j)
    BY <1>1a, <1>3 DEF Checkpoint
  <2> QED
    BY <2>1 DEF Order
<1>4. Served(d) = Served(c)
  BY <1>2, <1>3 DEF Served
<1>5. ServedMatchActive(d) /\ StoryIsAuthoredPrefix(d)
  BY <1>1, <1>4 DEF Sound, Consistent, ServedMatchActive, StoryIsAuthoredPrefix, Flagged
<1>6. QueueShape(d)
  <2>1. \A j \in OrderIndex : j < c.activeOrderIndex <=> c.orders[j].state = "SERVED"
    <3>1. Served(c) = 0 .. c.activeOrderIndex - 1
      BY ServedIsPrefix DEF Sound
    <3>2. c.activeOrderIndex \in Nat
      BY AuthoredAssumption DEF Checkpoint
    <3> QED
      BY <3>1, <3>2 DEF Served, OrderIndex
  <2>2. c.activeOrderIndex \in Int /\ \A j \in OrderIndex : j \in Int
    BY DEF Checkpoint, OrderIndex
  <2>3. \A j \in OrderIndex : j < d.activeOrderIndex => d.orders[j].state = "SERVED"
    <3>1. d.activeOrderIndex = c.activeOrderIndex
      BY <1>1
    <3> QED
      BY <1>2, <2>1, <3>1
  <2>4. \A j \in OrderIndex : j >= d.activeOrderIndex => d.orders[j].state = "DISCARDED"
    <3>1. SUFFICES ASSUME NEW j \in OrderIndex, j >= d.activeOrderIndex
                   PROVE  d.orders[j].state = "DISCARDED"
      OBVIOUS
    <3>2. d.activeOrderIndex = c.activeOrderIndex
      BY <1>1
    <3>3. ~(j < c.activeOrderIndex)
      BY <2>2, <3>1, <3>2
    <3>4. c.orders[j].state # "SERVED"
      BY <2>1, <3>3
    <3> QED
      BY <1>3, <3>4
  <2> QED
    BY <1>1, <2>3, <2>4 DEF QueueShape
<1>7. OrderShape(d)
  <2>1. ASSUME NEW j \in OrderIndex
        PROVE  LET q == d.orders[j] IN
               /\ q.stepIndex \in 0 .. Len(Steps[j])
               /\ q.state \in {"OFFERED", "ACCEPTED"} => q.stepIndex = 0
               /\ q.state = "PREPARING" => q.stepIndex \in 1 .. Len(Steps[j]) - 1
               /\ q.state \in {"READY_TO_PLATE", "PLATED", "SERVED"}
                      => q.stepIndex = Len(Steps[j])
               /\ q.plateFeedbackRef <=> q.state \in {"PLATED", "SERVED"}
               /\ q.serveFeedbackRef <=> q.state = "SERVED"
    <3>1. c.orders[j].stepIndex \in 0 .. Len(Steps[j])
      BY DEF Sound, Consistent, OrderShape
    <3>2. CASE c.orders[j].state = "SERVED"
      BY <1>2, <3>2 DEF Sound, Consistent, OrderShape
    <3>3. CASE c.orders[j].state # "SERVED"
      BY <1>3, <3>1, <3>3
    <3> QED
      BY <3>2, <3>3
  <2> QED
    BY <2>1 DEF OrderShape
<1>8. 0 \in OrderIndex
  BY AuthoredAssumption DEF OrderIndex
<1>9. PresentationShape(d)
  BY <1>1, <1>2, <1>8 DEF PresentationShape, Served
<1>10. RestorationShape(d) /\ PhaseShape(d)
  BY <1>1 DEF Sound, Consistent, RestorationShape, PhaseShape, AbandonAdmitted
<1>11. FirstPlateChosen(d)
  BY <1>1, <1>2, <1>3, <1>8 DEF Sound, FirstPlateChosen
<1> QED
  BY <1>5, <1>6, <1>7, <1>9, <1>10, <1>11 DEF Sound, Consistent, d

LEMMA AbandonTyped ==
    ASSUME NEW c \in Checkpoint
    PROVE  AbandonChange(c) \in Checkpoint
<1> DEFINE dropped(j) == [c.orders[j] EXCEPT !.state = "DISCARDED",
                                             !.plateFeedbackRef = FALSE,
                                             !.serveFeedbackRef = FALSE]
           orders == [j \in OrderIndex |->
                        IF c.orders[j].state = "SERVED" THEN c.orders[j] ELSE dropped(j)]
<1>1. orders \in [OrderIndex -> Order]
  <2>1. ASSUME NEW j \in OrderIndex PROVE c.orders[j] \in Order /\ dropped(j) \in Order
    BY DEF Checkpoint, Order, OrderStates
  <2> HIDE DEF dropped
  <2> QED
    BY <2>1
<1>2. AbandonChange(c) = [c EXCEPT !.phase = "ABANDONED", !.orders = orders]
  BY DEF AbandonChange
<1> HIDE DEF orders
<1> QED
  BY <1>1, <1>2 DEF Checkpoint, Phases

-----------------------------------------------------------------------------
(* The dispatch over the command's name, and the claim's rebase *)

\* Every admitted command changes a sound checkpoint into a sound one, the
\* abandonment only under its extra hypothesis.
LEMMA AdmittedKeeps ==
    ASSUME NEW c \in Checkpoint, Sound(c), NEW cmd \in Commands,
           Admitted(c, cmd), Advanceable(c, cmd),
           cmd.name = "abandon" => \/ c.presentationChoice = None
                                   \/ 0 \in Served(c)
    PROVE  Sound(Advanced(c, cmd))
<1>1. CASE cmd.name = "start"
  BY <1>1, StartKeeps DEF Admitted, Change, Advanced
<1>2. CASE cmd.name = "start-new"
  BY <1>2, StartNewKeeps DEF Admitted, Change, Advanced, Advanceable
<1>3. CASE cmd.name = "prepare-rice"
  BY <1>3, PrepareRiceKeeps DEF Admitted, Change, Advanced
<1>4. CASE cmd.name = "accept-order"
  <2>1. cmd.order \in OrderIndex
    BY <1>4 DEF Commands
  <2> QED
    BY <1>4, <2>1, AcceptOrderKeeps DEF Admitted, Change, Advanced
<1>5. CASE cmd.name = "perform-step"
  <2>1. cmd.order \in OrderIndex
    BY <1>5 DEF Commands
  <2> QED
    BY <1>5, <2>1, PerformStepKeeps DEF Admitted, Change, Advanced
<1>6. CASE cmd.name = "choose-presentation"
  <2>1. cmd.order \in OrderIndex
    BY <1>6 DEF Commands
  <2> QED
    BY <1>6, <2>1, ChoosePresentationKeeps DEF Admitted, Change, Advanced
<1>7. CASE cmd.name = "plate-order"
  <2>1. cmd.order \in OrderIndex
    BY <1>7 DEF Commands
  <2> QED
    BY <1>7, <2>1, PlateOrderKeeps DEF Admitted, Change, Advanced
<1>8. CASE cmd.name = "serve-order"
  <2>1. cmd.order \in OrderIndex
    BY <1>8 DEF Commands
  <2> QED
    BY <1>8, <2>1, ServeOrderKeeps DEF Admitted, Change, Advanced
<1>9. CASE cmd.name = "close-ledger"
  BY <1>9, CloseLedgerKeeps DEF Admitted, Change, Advanced
<1>10. CASE cmd.name = "choose-restoration"
  BY <1>10, ChooseRestorationKeeps DEF Admitted, Change, Advanced
<1>11. CASE cmd.name = "abandon"
  BY <1>11, AbandonKeeps DEF Admitted, Change, Advanced
<1>12. cmd.name \in {"start", "start-new", "prepare-rice", "accept-order", "perform-step",
                     "choose-presentation", "plate-order", "serve-order", "close-ledger",
                     "choose-restoration", "abandon"}
  BY DEF Commands
<1> QED
  BY <1>1, <1>2, <1>3, <1>4, <1>5, <1>6, <1>7, <1>8, <1>9, <1>10, <1>11, <1>12

LEMMA ChangeKeepsRevision ==
    ASSUME NEW c \in Checkpoint, NEW cmd \in Commands
    PROVE  Change(c, cmd).revision = c.revision
BY DEF Change, Checkpoint, StartChange, StartNewChange, PrepareRiceChange,
       AcceptOrderChange, PerformStepChange, ChoosePresentationChange,
       PlateOrderChange, ServeOrderChange, CloseLedgerChange,
       ChooseRestorationChange, AbandonChange, Commands

LEMMA AdmittedChangeTyped ==
    ASSUME NEW c \in Checkpoint, Sound(c), NEW cmd \in Commands,
           Admitted(c, cmd), Advanceable(c, cmd)
    PROVE  Change(c, cmd) \in Checkpoint
<1>1. CASE cmd.name = "start"
  BY <1>1, StartKeeps DEF Admitted, Change
<1>2. CASE cmd.name = "start-new"
  BY <1>2, StartNewKeeps DEF Admitted, Change, Advanceable
<1>3. CASE cmd.name = "prepare-rice"
  BY <1>3, PrepareRiceKeeps DEF Admitted, Change
<1>4. CASE cmd.name = "accept-order"
  <2>1. cmd.order \in OrderIndex
    BY <1>4 DEF Commands
  <2> QED
    BY <1>4, <2>1, AcceptOrderKeeps DEF Admitted, Change
<1>5. CASE cmd.name = "perform-step"
  <2>1. cmd.order \in OrderIndex
    BY <1>5 DEF Commands
  <2> QED
    BY <1>5, <2>1, PerformStepKeeps DEF Admitted, Change
<1>6. CASE cmd.name = "choose-presentation"
  <2>1. cmd.order \in OrderIndex
    BY <1>6 DEF Commands
  <2> QED
    BY <1>6, <2>1, ChoosePresentationKeeps DEF Admitted, Change
<1>7. CASE cmd.name = "plate-order"
  <2>1. cmd.order \in OrderIndex
    BY <1>7 DEF Commands
  <2> QED
    BY <1>7, <2>1, PlateOrderKeeps DEF Admitted, Change
<1>8. CASE cmd.name = "serve-order"
  <2>1. cmd.order \in OrderIndex
    BY <1>8 DEF Commands
  <2> QED
    BY <1>8, <2>1, ServeOrderKeeps DEF Admitted, Change
<1>9. CASE cmd.name = "close-ledger"
  BY <1>9, CloseLedgerKeeps DEF Admitted, Change
<1>10. CASE cmd.name = "choose-restoration"
  BY <1>10, ChooseRestorationKeeps DEF Admitted, Change
<1>11. CASE cmd.name = "abandon"
  BY <1>11, AbandonTyped DEF Change
<1>12. cmd.name \in {"start", "start-new", "prepare-rice", "accept-order", "perform-step",
                     "choose-presentation", "plate-order", "serve-order", "close-ledger",
                     "choose-restoration", "abandon"}
  BY DEF Commands
<1> QED
  BY <1>1, <1>2, <1>3, <1>4, <1>5, <1>6, <1>7, <1>8, <1>9, <1>10, <1>11, <1>12

LEMMA AdmittedTyped ==
    ASSUME NEW c \in Checkpoint, Sound(c), NEW cmd \in Commands,
           Admitted(c, cmd), Advanceable(c, cmd)
    PROVE  Advanced(c, cmd) \in Checkpoint
<1>1. Change(c, cmd) \in Checkpoint
  BY AdmittedChangeTyped
<1>2. Change(c, cmd).revision = c.revision
  BY ChangeKeepsRevision
<1> QED
  BY <1>1, <1>2, RevisionTyped DEF Advanced, Advanceable

\* The merge of a sound guest checkpoint is sound, if its revision fits.
LEMMA RebasedKeeps ==
    ASSUME NEW guest \in Checkpoint, Sound(guest), NEW player \in Checkpoint \cup {None},
           CommittedRevision(guest, player) <= MaxRevision
    PROVE  LET merged == Rebased(guest, player, CommittedRevision(guest, player))
           IN  merged \in Checkpoint /\ Sound(merged)
<1> DEFINE r == CommittedRevision(guest, player)
           earned == guest.unlocks \cup (IF player = None THEN {} ELSE player.unlocks)
           merged == Rebased(guest, player, r)
<1>1. r \in 0 .. MaxRevision /\ (guest.revision # 0 => r # 0)
  BY BoundAssumption DEF CommittedRevision, Checkpoint
<1>2. earned \in SUBSET {Sashimi} /\ guest.unlocks \subseteq earned
  BY DEF Checkpoint
<1>3. merged = [guest EXCEPT !.revision = r, !.unlocks = earned]
  BY DEF Rebased
<1> HIDE DEF r, earned, merged
<1>4. merged \in Checkpoint
  BY <1>1, <1>2, <1>3 DEF Checkpoint
<1>5. /\ merged.revision = r /\ merged.unlocks = earned /\ merged.phase = guest.phase
      /\ merged.generation = guest.generation
      /\ merged.riceBeatIndex = guest.riceBeatIndex
      /\ merged.presentationChoice = guest.presentationChoice
      /\ merged.restorationChoice = guest.restorationChoice
      /\ merged.activeOrderIndex = guest.activeOrderIndex
      /\ merged.orders = guest.orders /\ merged.storyFlags = guest.storyFlags
  BY <1>3 DEF Checkpoint
<1>6. ServedMatchActive(merged) /\ StoryIsAuthoredPrefix(merged)
  BY <1>5 DEF Sound, Consistent, ServedMatchActive, Served, StoryIsAuthoredPrefix, Flagged
<1>7. QueueShape(merged) /\ OrderShape(merged)
  BY <1>5 DEF Sound, Consistent, QueueShape, OrderShape
<1>8. PresentationShape(merged) /\ RestorationShape(merged) /\ FirstPlateChosen(merged)
  BY <1>5 DEF Sound, Consistent, PresentationShape, RestorationShape, FirstPlateChosen
<1>9. PhaseShape(merged)
  BY <1>1, <1>2, <1>5 DEF Sound, Consistent, PhaseShape, Untouched
<1> QED
  BY <1>4, <1>6, <1>7, <1>8, <1>9 DEF Sound, Consistent, merged, r

-----------------------------------------------------------------------------
(* The invariant and what follows from it *)

IInv == TypeOK /\ RowsSound

\* An abandonment whose result decodes satisfied the hypothesis of AbandonKeeps.
LEMMA AcceptedAbandonment ==
    ASSUME NEW c \in Checkpoint, Sound([AbandonChange(c) EXCEPT !.revision = @ + 1])
                                 \/ Consistent([AbandonChange(c) EXCEPT !.revision = @ + 1])
    PROVE  c.presentationChoice = None \/ 0 \in Served(c)
<1> DEFINE d == [AbandonChange(c) EXCEPT !.revision = @ + 1]
<1>1. PresentationShape(d) /\ 0 \in OrderIndex /\ c.orders[0] \in Order
  <2>1. PresentationShape(d)
    BY DEF Sound, Consistent
  <2>2. 0 \in OrderIndex
    BY AuthoredAssumption DEF OrderIndex
  <2> QED
    BY <2>1, <2>2 DEF Checkpoint
<1>2. d.presentationChoice = c.presentationChoice
  BY DEF AbandonChange, Checkpoint
<1>3. c.orders[0].state # "SERVED" => d.orders[0].state = "DISCARDED"
  <2>1. d.orders[0] = IF c.orders[0].state = "SERVED" THEN c.orders[0]
                      ELSE [c.orders[0] EXCEPT !.state = "DISCARDED",
                                               !.plateFeedbackRef = FALSE,
                                               !.serveFeedbackRef = FALSE]
    BY <1>1 DEF AbandonChange, Checkpoint
  <2> HIDE DEF d
  <2> QED
    BY <1>1, <2>1 DEF Order
<1> HIDE DEF d
<1> QED
  BY <1>1, <1>2, <1>3 DEF PresentationShape, Served

LEMMA AcceptedKeeps ==
    ASSUME NEW c \in Checkpoint, Sound(c), NEW cmd \in Commands, Accepts(c, cmd)
    PROVE  Advanced(c, cmd) \in Checkpoint /\ Sound(Advanced(c, cmd))
<1>1. Admitted(c, cmd) /\ Advanceable(c, cmd) /\ Consistent(Advanced(c, cmd))
  BY DEF Accepts, Decodes
<1>2. cmd.name = "abandon" => c.presentationChoice = None \/ 0 \in Served(c)
  BY <1>1, AcceptedAbandonment DEF Advanced, Change
<1> QED
  BY <1>1, <1>2, AdmittedTyped, AdmittedKeeps

LEMMA InitialIsSound == InitialCheckpoint \in Checkpoint /\ Sound(InitialCheckpoint)
<1> DEFINE c == InitialCheckpoint
<1>1. /\ 0 \in 0 .. MaxRevision /\ 0 \in 0 .. MaxGeneration /\ 0 \in 0 .. RiceBeats
      /\ 0 \in 0 .. NumOrders /\ 0 \in OrderIndex
      /\ \A i \in OrderIndex : i >= 0 /\ Len(Steps[i]) \in Nat \ {0}
  BY BoundAssumption, AuthoredAssumption DEF OrderIndex
<1>2. /\ c.revision = 0 /\ c.generation = 0 /\ c.phase = "IDLE" /\ c.riceBeatIndex = 0
      /\ c.presentationChoice = None /\ c.restorationChoice = None
      /\ c.activeOrderIndex = 0 /\ c.storyFlags = <<>> /\ c.unlocks = {}
      /\ c.orders = [i \in OrderIndex |-> OfferedOrder]
  BY DEF InitialCheckpoint
<1>3. OfferedOrder \in Order
  BY DEF OfferedOrder, Order, OrderStates
<1>4. c \in Checkpoint
  BY <1>1, <1>3 DEF InitialCheckpoint, Checkpoint, Phases
<1> HIDE DEF c
<1>5. ServedMatchActive(c)
  <2>1. Served(c) = {}
    BY <1>2 DEF Served, OfferedOrder
  <2> QED
    BY <1>2, <2>1, FS_EmptySet DEF ServedMatchActive
<1>6. StoryIsAuthoredPrefix(c)
  BY <1>1, <1>2, AuthoredAssumption DEF StoryIsAuthoredPrefix
<1>7. QueueShape(c) /\ OrderShape(c)
  <2>1. QueueShape(c)
    BY <1>2, AuthoredAssumption DEF QueueShape, OfferedOrder, OrderIndex
  <2>2. \A i \in OrderIndex : 0 \in 0 .. Len(Steps[i]) /\ Len(Steps[i]) # 0
    BY <1>1
  <2> QED
    BY <1>2, <2>1, <2>2 DEF OrderShape, OfferedOrder
<1>8. PresentationShape(c) /\ RestorationShape(c) /\ FirstPlateChosen(c)
  BY <1>1, <1>2 DEF PresentationShape, RestorationShape, FirstPlateChosen, OfferedOrder
<1>9. PhaseShape(c)
  BY <1>2 DEF PhaseShape, Untouched, OfferedOrder
<1> QED
  BY <1>4, <1>5, <1>6, <1>7, <1>8, <1>9 DEF Sound, Consistent, c

\* Every subject's commands are members of Commands.
LEMMA CommandExecutes ==
    ASSUME NEW s \in Subjects, Command(s)
    PROVE  \E cmd \in Commands : Execute(s, cmd)
<1>1. ASSUME NEW n \in {"start", "start-new", "close-ledger", "abandon"}
      PROVE  [name |-> n] \in Commands
  BY DEF Commands
<1>2. ASSUME NEW b \in 0 .. RiceBeats - 1
      PROVE  [name |-> "prepare-rice", beat |-> b] \in Commands
  BY DEF Commands
<1>3. ASSUME NEW n \in {"accept-order", "plate-order", "serve-order"}, NEW i \in OrderIndex
      PROVE  [name |-> n, order |-> i] \in Commands
  BY DEF Commands
<1>4. ASSUME NEW i \in OrderIndex, NEW id \in StepIds
      PROVE  [name |-> "perform-step", order |-> i, step |-> id] \in Commands
  BY DEF Commands
<1>5. ASSUME NEW i \in OrderIndex, NEW p \in Presentations
      PROVE  [name |-> "choose-presentation", order |-> i, choice |-> p] \in Commands
  BY DEF Commands
<1>6. ASSUME NEW r \in Restorations
      PROVE  [name |-> "choose-restoration", choice |-> r] \in Commands
  BY DEF Commands
<1>7. CASE Start(s) \/ StartNew(s) \/ CloseLedger(s) \/ Abandon(s)
  BY <1>1, <1>7 DEF Start, StartNew, CloseLedger, Abandon
<1>8. CASE PrepareRice(s)
  BY <1>2, <1>8 DEF PrepareRice
<1>9. CASE AcceptOrder(s) \/ PlateOrder(s) \/ ServeOrder(s)
  BY <1>3, <1>9 DEF AcceptOrder, PlateOrder, ServeOrder
<1>10. CASE PerformStep(s)
  BY <1>4, <1>10 DEF PerformStep
<1>11. CASE ChoosePresentation(s)
  BY <1>5, <1>11 DEF ChoosePresentation
<1>12. CASE ChooseRestoration(s)
  BY <1>6, <1>12 DEF ChooseRestoration
<1> QED
  BY <1>7, <1>8, <1>9, <1>10, <1>11, <1>12 DEF Command

LEMMA InitEstablishes == Init => IInv
BY DEF Init, IInv, TypeOK, RowsSound, Live

LEMMA IssueGuestPreserves ==
    ASSUME IInv, NEW g \in Guests, IssueGuest(g)
    PROVE  IInv'
<1>1. progress' \in [Subjects -> Checkpoint \cup {None}]
  BY InitialIsSound DEF IInv, TypeOK, IssueGuest, Subjects
<1>2. acceptedInRun' \in [Subjects -> Nat]
  BY DEF IInv, TypeOK, IssueGuest, Subjects
<1>3. ASSUME NEW s \in Subjects, progress'[s] # None
      PROVE  Sound(progress'[s])
  <2>1. CASE s = g
    BY <2>1, InitialIsSound DEF IInv, TypeOK, IssueGuest, Subjects
  <2>2. CASE s # g
    BY <1>3, <2>2 DEF IInv, TypeOK, RowsSound, Live, IssueGuest
  <2> QED
    BY <2>1, <2>2
<1> QED
  BY <1>1, <1>2, <1>3 DEF IInv, TypeOK, RowsSound, Live

LEMMA ExecutePreserves ==
    ASSUME IInv, NEW s \in Subjects, NEW cmd \in Commands, Execute(s, cmd)
    PROVE  IInv'
<1>1. progress[s] \in Checkpoint /\ Sound(progress[s])
  BY DEF IInv, TypeOK, RowsSound, Live, Execute
<1>2. CASE UNCHANGED vars
  BY <1>2 DEF IInv, TypeOK, RowsSound, Live, vars
<1>3. CASE ~UNCHANGED vars
  <2> DEFINE d == Advanced(progress[s], cmd)
  <2>1. d \in Checkpoint /\ Sound(d)
    BY <1>1, <1>3, AcceptedKeeps DEF Execute
  <2>2. progress' = [progress EXCEPT ![s] = d]
    BY <1>3 DEF Execute
  <2>3. acceptedInRun' \in [Subjects -> Nat]
    BY <1>3 DEF Execute, IInv, TypeOK
  <2> HIDE DEF d
  <2>4. progress' \in [Subjects -> Checkpoint \cup {None}]
    BY <2>1, <2>2 DEF IInv, TypeOK
  <2>5. ASSUME NEW t \in Subjects, progress'[t] # None
        PROVE  Sound(progress'[t])
    <3>1. CASE t = s
      BY <2>1, <2>2, <3>1 DEF IInv, TypeOK
    <3>2. CASE t # s
      BY <2>2, <2>5, <3>2 DEF IInv, TypeOK, RowsSound, Live
    <3> QED
      BY <3>1, <3>2
  <2> QED
    BY <2>3, <2>4, <2>5 DEF IInv, TypeOK, RowsSound, Live
<1> QED
  BY <1>2, <1>3

LEMMA ClaimPreserves ==
    ASSUME IInv, NEW g \in Guests, NEW p \in Players, Claim(g, p)
    PROVE  IInv'
<1> DEFINE guest == progress[g]
           player == progress[p]
           merged == Rebased(guest, player, CommittedRevision(guest, player))
<1>1. /\ guest \in Checkpoint /\ Sound(guest) /\ player \in Checkpoint \cup {None}
      /\ g \in Subjects /\ p \in Subjects /\ g # p
  BY SubjectAssumption DEF IInv, TypeOK, RowsSound, Live, Claim, Subjects
<1>2. CommittedRevision(guest, player) <= MaxRevision
  BY <1>1 DEF Claim, Rebased, Checkpoint
<1>3. merged \in Checkpoint /\ Sound(merged)
  BY <1>1, <1>2, RebasedKeeps
<1>4. progress' = [progress EXCEPT ![g] = None, ![p] = merged]
  BY DEF Claim
<1>5. acceptedInRun' \in [Subjects -> Nat]
  BY <1>1 DEF Claim, IInv, TypeOK
<1> HIDE DEF merged
<1>6. progress' \in [Subjects -> Checkpoint \cup {None}]
  BY <1>1, <1>3, <1>4 DEF IInv, TypeOK
<1>7. ASSUME NEW s \in Subjects, progress'[s] # None
      PROVE  Sound(progress'[s])
  <2>1. CASE s = p
    BY <1>1, <1>3, <1>4, <2>1 DEF IInv, TypeOK
  <2>2. CASE s # p
    BY <1>1, <1>4, <1>7, <2>2 DEF IInv, TypeOK, RowsSound, Live
  <2> QED
    BY <2>1, <2>2
<1> QED
  BY <1>5, <1>6, <1>7 DEF IInv, TypeOK, RowsSound, Live

(***************************************************************************)
(* The inductive invariant: rows are checkpoint records, decode, and never *)
(* hold a plated first order without its presentation.                     *)
(***************************************************************************)
THEOREM Invariance == Spec => []IInv
<1>1. Init => IInv
  BY InitEstablishes
<1>2. IInv /\ [Next]_vars => IInv'
  <2> SUFFICES ASSUME IInv, [Next]_vars PROVE IInv'
    OBVIOUS
  <2>1. CASE \E g \in Guests : IssueGuest(g)
    BY <2>1, IssueGuestPreserves
  <2>2. CASE \E s \in Subjects : Command(s)
    BY <2>2, CommandExecutes, ExecutePreserves
  <2>3. CASE \E g \in Guests, p \in Players : Claim(g, p)
    BY <2>3, ClaimPreserves
  <2>4. CASE UNCHANGED vars
    BY <2>4 DEF IInv, TypeOK, RowsSound, Live, vars
  <2> QED
    BY <2>1, <2>2, <2>3, <2>4 DEF Next
<1> QED
  BY <1>1, <1>2, PTL DEF Spec

\* Every row the reducer, the issue and the claim store is a checkpoint record.
THEOREM TypeCorrectness == Spec => []TypeOK
<1>1. IInv => TypeOK
  BY DEF IInv
<1> QED
  BY <1>1, Invariance, PTL

\* No reader ever finds a row that decodeEveningServiceCheckpoint throws on, nor
\* a first plate without its presentation.
THEOREM StoredRowsSound == Spec => []RowsSound
<1>1. IInv => RowsSound
  BY DEF IInv
<1> QED
  BY <1>1, Invariance, PTL

\* A command the guards admit is thrown away by no re-decoding, the abandonment
\* of a chosen and unserved first plate excepted.
THEOREM AdmittedCommandsAlwaysCommit == Spec => []AdmittedCommandsCommit
<1>1. IInv => AdmittedCommandsCommit
  <2>1. ASSUME IInv, NEW s \in Subjects, Live(s), NEW cmd \in Commands,
               Admitted(progress[s], cmd), Advanceable(progress[s], cmd),
               cmd.name = "abandon" => \/ progress[s].presentationChoice = None
                                       \/ 0 \in Served(progress[s])
        PROVE  Decodes(Advanced(progress[s], cmd))
    <3>1. progress[s] \in Checkpoint /\ Sound(progress[s])
      BY <2>1 DEF IInv, TypeOK, RowsSound, Live
    <3> QED
      BY <2>1, <3>1, AdmittedKeeps DEF Decodes, Sound
  <2> QED
    BY <2>1 DEF AdmittedCommandsCommit
<1> QED
  BY <1>1, Invariance, PTL

\* A row that a command or a claim changes under its subject moves to the next
\* revision, never by more and never without.
THEOREM RevisionCountsChanges == Spec => ChangesAdvanceRevision
<1> DEFINE Advances == \A s \in Subjects :
               Live(s) /\ Live(s)' /\ progress'[s] # progress[s]
                   => progress'[s].revision = progress[s].revision + 1
<1>1. IInv /\ [Next]_vars => [Advances]_vars
  <2> SUFFICES ASSUME IInv, Next, NEW s \in Subjects,
                      progress[s] # None, progress'[s] # None, progress'[s] # progress[s]
               PROVE  progress'[s].revision = progress[s].revision + 1
    BY DEF Live
  <2>0. progress[s] \in Checkpoint /\ progress \in [Subjects -> Checkpoint \cup {None}]
    BY DEF IInv, TypeOK
  <2>1. CASE \E g \in Guests : IssueGuest(g)
    BY <2>0, <2>1 DEF IssueGuest
  <2>2. ASSUME NEW t \in Subjects, NEW cmd \in Commands, Execute(t, cmd)
        PROVE  progress'[s].revision = progress[s].revision + 1
    <3>1. t = s /\ progress' = [progress EXCEPT ![s] = Advanced(progress[s], cmd)]
      BY <2>0, <2>2 DEF Execute, vars
    <3>2. progress'[s] = [Change(progress[s], cmd) EXCEPT !.revision = @ + 1]
      BY <2>0, <3>1 DEF Advanced
    <3>3. Change(progress[s], cmd) \in Checkpoint
      BY <2>0, <2>2, <3>1, AdmittedChangeTyped DEF Accepts, Execute, IInv, RowsSound, Live, vars
    <3> QED
      BY <2>0, <3>2, <3>3, ChangeKeepsRevision DEF Checkpoint
  <2>3. ASSUME NEW g \in Guests, NEW p \in Players, Claim(g, p)
        PROVE  progress'[s].revision = progress[s].revision + 1
    <3>1. g # p /\ g \in Subjects /\ p \in Subjects
      BY SubjectAssumption DEF Subjects
    <3>2. s = p
      BY <2>0, <2>3, <3>1 DEF Claim
    <3>3. progress[g] \in Checkpoint
      BY <2>0, <2>3, <3>1 DEF Claim
    <3> QED
      BY <2>0, <2>3, <3>1, <3>2, <3>3 DEF Claim, Rebased, CommittedRevision, Checkpoint
  <2> QED
    BY <2>1, <2>2, <2>3, CommandExecutes DEF Next
<1> QED
  BY <1>1, Invariance, PTL DEF Spec, ChangesAdvanceRevision

-----------------------------------------------------------------------------
(***************************************************************************)
(* Earned facts.  A command keeps the unlocks, the story and the           *)
(* generation or adds to them; so does the rebase, for the unlocks.        *)
(***************************************************************************)
LEMMA ChangeKeepsEarned ==
    ASSUME NEW c \in Checkpoint, NEW cmd \in Commands
    PROVE  /\ c.unlocks \subseteq Advanced(c, cmd).unlocks
           /\ Flagged(c) \subseteq Flagged(Advanced(c, cmd))
           /\ Advanced(c, cmd).generation >= c.generation
<1> DEFINE d == Advanced(c, cmd)
<1>1. CASE cmd.name = "serve-order"
  <2>1. /\ d.unlocks = c.unlocks /\ d.generation = c.generation
        /\ d.storyFlags = IF cmd.order \in Flagged(c) THEN c.storyFlags
                          ELSE Append(c.storyFlags, cmd.order)
    BY <1>1 DEF Advanced, Change, ServeOrderChange, Checkpoint
  <2>2. c.storyFlags \in Seq(OrderIndex) /\ c.generation \in Int
    BY BoundAssumption DEF Checkpoint
  <2>3. cmd.order \in OrderIndex
    BY <1>1 DEF Commands
  <2> HIDE DEF d
  <2>4. CASE cmd.order \in Flagged(c)
    <3>1. d.storyFlags = c.storyFlags
      BY <2>1, <2>4
    <3>2. Flagged(d) = Flagged(c)
      BY <3>1 DEF Flagged
    <3> QED
      BY <2>1, <2>2, <3>2 DEF d
  <2>5. CASE cmd.order \notin Flagged(c)
    <3>1. d.storyFlags = Append(c.storyFlags, cmd.order)
      BY <2>1, <2>5
    <3>2. /\ Len(d.storyFlags) = Len(c.storyFlags) + 1
          /\ \A k \in 1 .. Len(c.storyFlags) : d.storyFlags[k] = c.storyFlags[k]
      BY <2>2, <2>3, <3>1
    <3>3. Len(c.storyFlags) \in Nat
      BY <2>2
    <3>4. Flagged(c) \subseteq Flagged(d)
      BY <3>2, <3>3 DEF Flagged
    <3> QED
      BY <2>1, <2>2, <3>4 DEF d
  <2> QED
    BY <2>4, <2>5
<1>2. CASE cmd.name # "serve-order"
  <2>1. /\ d.storyFlags = c.storyFlags
        /\ d.generation = c.generation \/ d.generation = c.generation + 1
        /\ d.unlocks = c.unlocks \/ d.unlocks = c.unlocks \cup {Sashimi}
    BY <1>2 DEF Advanced, Change, Checkpoint, Commands, StartChange, StartNewChange,
       PrepareRiceChange, AcceptOrderChange, PerformStepChange, ChoosePresentationChange,
       PlateOrderChange, CloseLedgerChange, ChooseRestorationChange, AbandonChange
  <2>2. c.generation \in Int
    BY BoundAssumption DEF Checkpoint
  <2> HIDE DEF d
  <2>3. Flagged(d) = Flagged(c)
    BY <2>1 DEF Flagged
  <2> QED
    BY <2>1, <2>2, <2>3 DEF d
<1> QED
  BY <1>1, <1>2

\* What every step does to the row of one subject.
LEMMA RowAfterStep ==
    ASSUME IInv, Next, NEW s \in Subjects
    PROVE  \/ progress'[s] = progress[s] /\ acceptedInRun'[s] = acceptedInRun[s]
           \/ /\ progress[s] = None
              /\ progress'[s] = InitialCheckpoint
              /\ acceptedInRun'[s] = 0
           \/ progress[s] # None /\ \E cmd \in Commands :
                  /\ Accepts(progress[s], cmd)
                  /\ progress'[s] = Advanced(progress[s], cmd)
                  /\ acceptedInRun'[s] = IF cmd.name = "start-new" THEN 1
                                         ELSE acceptedInRun[s] + 1
           \/ \E g \in Guests, p \in Players : Claim(g, p) /\ s \in {g, p}
<1> DEFINE Same == progress'[s] = progress[s] /\ acceptedInRun'[s] = acceptedInRun[s]
<1>0. progress \in [Subjects -> Checkpoint \cup {None}] /\ acceptedInRun \in [Subjects -> Nat]
  BY DEF IInv, TypeOK
<1>1. ASSUME NEW g \in Guests, IssueGuest(g)
      PROVE  \/ Same
             \/ /\ progress[s] = None
                /\ progress'[s] = InitialCheckpoint
                /\ acceptedInRun'[s] = 0
  BY <1>0, <1>1 DEF IssueGuest
<1>2. ASSUME NEW t \in Subjects, NEW cmd \in Commands, Execute(t, cmd)
      PROVE  \/ Same
             \/ progress[s] # None
                /\ Accepts(progress[s], cmd)
                /\ progress'[s] = Advanced(progress[s], cmd)
                /\ acceptedInRun'[s] = IF cmd.name = "start-new" THEN 1
                                       ELSE acceptedInRun[s] + 1
  <2>1. CASE t = s
    BY <1>0, <1>2, <2>1 DEF Execute, vars
  <2>2. CASE t # s
    BY <1>0, <1>2, <2>2 DEF Execute, vars
  <2> QED
    BY <2>1, <2>2
<1>3. ASSUME NEW g \in Guests, NEW p \in Players, Claim(g, p), s \notin {g, p}
      PROVE  Same
  BY <1>0, <1>3 DEF Claim
<1> QED
  BY <1>1, <1>2, <1>3, CommandExecutes DEF Next

\* What a claim does to its two rows.
LEMMA ClaimedRows ==
    ASSUME IInv, NEW g \in Guests, NEW p \in Players, Claim(g, p)
    PROVE  /\ g # p /\ g \in Subjects /\ p \in Subjects /\ p \notin Guests
           /\ progress[g] \in Checkpoint
           /\ progress[p] \in Checkpoint \cup {None}
           /\ progress'[g] = None
           /\ progress'[p] = Rebased(progress[g], progress[p],
                                     CommittedRevision(progress[g], progress[p]))
           /\ progress'[p] \in Checkpoint /\ progress'[p] # None
           /\ acceptedInRun'[p] = acceptedInRun[g]
<1>1. g # p /\ g \in Subjects /\ p \in Subjects /\ p \notin Guests
  BY SubjectAssumption DEF Subjects
<1>2. progress \in [Subjects -> Checkpoint \cup {None}] /\ acceptedInRun \in [Subjects -> Nat]
  BY DEF IInv, TypeOK
<1>3. /\ progress[g] \in Checkpoint /\ Sound(progress[g])
      /\ progress[p] \in Checkpoint \cup {None}
      /\ progress'[g] = None
      /\ progress'[p] = Rebased(progress[g], progress[p],
                                CommittedRevision(progress[g], progress[p]))
      /\ acceptedInRun'[p] = acceptedInRun[g]
  BY <1>1, <1>2 DEF Claim, IInv, RowsSound, Live
<1>4. CommittedRevision(progress[g], progress[p]) <= MaxRevision
  BY <1>3 DEF Claim, Rebased, Checkpoint
<1>5. progress'[p] \in Checkpoint
  BY <1>3, <1>4, RebasedKeeps
<1> QED
  BY <1>1, <1>3, <1>5, NoneAssumption

\* Unlocks survive every command, restart and claim, and follow a guest into
\* the player; a guest's story and generation only grow.
THEOREM EarnedFactsAlwaysSurvive == Spec => EarnedFactsSurvive
<1> DEFINE Kept ==
        /\ \A s \in Subjects :
               Live(s) /\ Live(s)' => progress[s].unlocks \subseteq progress'[s].unlocks
        /\ \A g \in Guests :
               Live(g) /\ Live(g)' => /\ Flagged(progress[g]) \subseteq Flagged(progress'[g])
                                      /\ progress'[g].generation >= progress[g].generation
        /\ \A g \in Guests : Live(g) /\ ~Live(g)' =>
               \E p \in Players : Live(p)' /\ progress[g].unlocks \subseteq progress'[p].unlocks
<1>1. IInv /\ IInv' /\ [Next]_vars => [Kept]_vars
  <2> SUFFICES ASSUME IInv, IInv', Next PROVE Kept
    BY DEF vars
  <2>1. \A s \in Subjects : progress[s] \in Checkpoint \cup {None}
    BY DEF IInv, TypeOK
  <2>2. ASSUME NEW s \in Subjects, Live(s), Live(s)'
        PROVE  progress[s].unlocks \subseteq progress'[s].unlocks
    <3>1. ASSUME NEW g \in Guests, NEW p \in Players, Claim(g, p), s \in {g, p}
          PROVE  progress[s].unlocks \subseteq progress'[s].unlocks
      <4>1. s = p
        BY <2>2, <3>1, ClaimedRows DEF Live
      <4>2. progress[g].unlocks \cup progress[p].unlocks = progress'[p].unlocks
        <5>1. /\ progress[g] \in Checkpoint /\ progress[p] # None
              /\ progress'[p] = Rebased(progress[g], progress[p],
                                        CommittedRevision(progress[g], progress[p]))
          BY <2>2, <3>1, <4>1, ClaimedRows DEF Live
        <5> QED
          BY <5>1 DEF Rebased, Checkpoint
      <4> QED
        BY <4>1, <4>2
    <3> QED
      BY <2>1, <2>2, <3>1, RowAfterStep, ChangeKeepsEarned DEF Live
  <2>3. ASSUME NEW g \in Guests, Live(g), Live(g)'
        PROVE  /\ Flagged(progress[g]) \subseteq Flagged(progress'[g])
               /\ progress'[g].generation >= progress[g].generation
    <3>1. g \in Subjects /\ progress[g] \in Checkpoint /\ progress[g].generation \in Int
      BY <2>1, <2>3, BoundAssumption DEF Subjects, Live, Checkpoint
    <3>2. \A h \in Guests, p \in Players : Claim(h, p) => g \notin {h, p}
      BY <2>3, ClaimedRows DEF Live
    <3>3. CASE progress'[g] = progress[g]
      BY <3>1, <3>3
    <3>4. CASE progress'[g] # progress[g]
      BY <2>3, <3>1, <3>2, <3>4, RowAfterStep, ChangeKeepsEarned DEF Live
    <3> QED
      BY <3>3, <3>4
  <2>4. ASSUME NEW g \in Guests, Live(g), ~Live(g)'
        PROVE  \E p \in Players : Live(p)' /\ progress[g].unlocks \subseteq progress'[p].unlocks
    <3>1. g \in Subjects
      BY DEF Subjects
    <3>2. progress[g] \in Checkpoint
      BY <2>1, <2>4, <3>1 DEF Live
    <3>3. \A cmd \in Commands : Accepts(progress[g], cmd) => Advanced(progress[g], cmd) # None
      BY <2>4, <3>1, <3>2, AcceptedKeeps, NoneAssumption DEF IInv, RowsSound
    <3>4. PICK h \in Guests, p \in Players : Claim(h, p) /\ g \in {h, p}
      BY <2>4, <3>1, <3>3, RowAfterStep DEF Live
    <3>5. g = h /\ progress'[p] # None
      BY <3>4, ClaimedRows
    <3>6. progress[g].unlocks \subseteq progress'[p].unlocks
      <4>1. progress'[p] = Rebased(progress[g], progress[p],
                                   CommittedRevision(progress[g], progress[p]))
        BY <3>4, <3>5, ClaimedRows
      <4> QED
        BY <3>2, <4>1 DEF Rebased, Checkpoint
    <3> QED
      BY <3>5, <3>6 DEF Live
  <2> QED
    BY <2>2, <2>3, <2>4
<1> QED
  BY <1>1, Invariance, PTL DEF Spec, EarnedFactsSurvive

-----------------------------------------------------------------------------
(***************************************************************************)
(* Components.  Within a run no order steps back, a served order stays     *)
(* served and a discarded one discarded; the uses of a component therefore *)
(* only move forward, and counting them follows.                           *)
(***************************************************************************)
OrdersForward(c, d) ==
    \A i \in OrderIndex :
        /\ c.orders[i].stepIndex <= d.orders[i].stepIndex
        /\ c.orders[i].state = "SERVED" => d.orders[i].state = "SERVED"
        /\ c.orders[i].state = "DISCARDED" => d.orders[i].state = "DISCARDED"

LEMMA SameOrdersForward ==
    ASSUME NEW c \in Checkpoint, NEW d, d.orders = c.orders
    PROVE  OrdersForward(c, d)
<1>1. \A i \in OrderIndex : c.orders[i].stepIndex \in Nat
  BY DEF Checkpoint, Order
<1> QED
  BY <1>1 DEF OrdersForward

LEMMA OneOrderForward ==
    ASSUME NEW c \in Checkpoint, NEW d, NEW i \in OrderIndex,
           c.orders[i].state \notin {"SERVED", "DISCARDED"},
           NEW o, o.stepIndex \in Nat, c.orders[i].stepIndex <= o.stepIndex,
           d.orders = [c.orders EXCEPT ![i] = o]
    PROVE  OrdersForward(c, d)
<1>1. \A j \in OrderIndex : c.orders[j].stepIndex \in Nat
  BY DEF Checkpoint, Order
<1>2. d.orders[i] = o /\ \A j \in OrderIndex : j # i => d.orders[j] = c.orders[j]
  BY DEF Checkpoint
<1> QED
  BY <1>1, <1>2 DEF OrdersForward

LEMMA AcceptedOrdersForward ==
    ASSUME NEW c \in Checkpoint, NEW cmd \in Commands, Admitted(c, cmd),
           cmd.name # "start-new"
    PROVE  OrdersForward(c, Advanced(c, cmd))
<1> DEFINE d == Advanced(c, cmd)
<1>0. \A i \in OrderIndex : c.orders[i] \in Order /\ c.orders[i].stepIndex \in Nat
  BY DEF Checkpoint, Order
<1>1. CASE cmd.name \in {"start", "prepare-rice", "choose-presentation", "close-ledger",
                         "choose-restoration"}
  <2>1. d.orders = c.orders
    BY <1>1 DEF Advanced, Change, Checkpoint, StartChange, PrepareRiceChange,
                ChoosePresentationChange, CloseLedgerChange, ChooseRestorationChange
  <2> HIDE DEF d
  <2> QED
    BY <2>1, SameOrdersForward DEF d
<1>2. CASE cmd.name = "accept-order"
  <2> DEFINE o == [c.orders[cmd.order] EXCEPT !.state = "ACCEPTED"]
  <2>1. cmd.order \in OrderIndex /\ c.orders[cmd.order].state = "OFFERED"
    BY <1>2 DEF Commands, Admitted, AcceptOrderAdmitted
  <2>2. d.orders = [c.orders EXCEPT ![cmd.order] = o]
    BY <1>2 DEF Advanced, Change, Checkpoint, AcceptOrderChange
  <2>3. o.stepIndex = c.orders[cmd.order].stepIndex
    BY <1>0, <2>1 DEF Order
  <2> HIDE DEF d, o
  <2> QED
    BY <1>0, <2>1, <2>2, <2>3, OneOrderForward DEF d
<1>3. CASE cmd.name = "perform-step"
  <2> DEFINE done == c.orders[cmd.order].stepIndex + 1
             o == [c.orders[cmd.order] EXCEPT !.stepIndex = done,
                      !.state = IF done = Len(Steps[cmd.order]) THEN "READY_TO_PLATE"
                                                                ELSE "PREPARING"]
  <2>1. /\ cmd.order \in OrderIndex
        /\ c.orders[cmd.order].state \in {"ACCEPTED", "PREPARING"}
    BY <1>3 DEF Commands, Admitted, PerformStepAdmitted
  <2>2. d.orders = [c.orders EXCEPT ![cmd.order] = o]
    BY <1>3 DEF Advanced, Change, Checkpoint, PerformStepChange
  <2>3. o.stepIndex = c.orders[cmd.order].stepIndex + 1
    BY <1>0, <2>1 DEF Order
  <2> HIDE DEF d, o
  <2> QED
    BY <1>0, <2>1, <2>2, <2>3, OneOrderForward DEF d
<1>4. CASE cmd.name = "plate-order"
  <2> DEFINE o == [c.orders[cmd.order] EXCEPT !.state = "PLATED", !.plateFeedbackRef = TRUE]
  <2>1. cmd.order \in OrderIndex /\ c.orders[cmd.order].state = "READY_TO_PLATE"
    BY <1>4 DEF Commands, Admitted, PlateOrderAdmitted
  <2>2. d.orders = [c.orders EXCEPT ![cmd.order] = o]
    BY <1>4 DEF Advanced, Change, Checkpoint, PlateOrderChange
  <2>3. o.stepIndex = c.orders[cmd.order].stepIndex
    BY <1>0, <2>1 DEF Order
  <2> HIDE DEF d, o
  <2> QED
    BY <1>0, <2>1, <2>2, <2>3, OneOrderForward DEF d
<1>5. CASE cmd.name = "serve-order"
  <2> DEFINE o == [c.orders[cmd.order] EXCEPT !.state = "SERVED", !.serveFeedbackRef = TRUE]
  <2>1. cmd.order \in OrderIndex /\ c.orders[cmd.order].state = "PLATED"
    BY <1>5 DEF Commands, Admitted, ServeOrderAdmitted
  <2>2. d.orders = [c.orders EXCEPT ![cmd.order] = o]
    BY <1>5 DEF Advanced, Change, Checkpoint, ServeOrderChange
  <2>3. o.stepIndex = c.orders[cmd.order].stepIndex
    BY <1>0, <2>1 DEF Order
  <2> HIDE DEF d, o
  <2> QED
    BY <1>0, <2>1, <2>2, <2>3, OneOrderForward DEF d
<1>6. CASE cmd.name = "abandon"
  <2> DEFINE dropped(i) == [c.orders[i] EXCEPT !.state = "DISCARDED",
                                               !.plateFeedbackRef = FALSE,
                                               !.serveFeedbackRef = FALSE]
  <2>1. \A i \in OrderIndex :
            d.orders[i] = IF c.orders[i].state = "SERVED" THEN c.orders[i] ELSE dropped(i)
    BY <1>6 DEF Advanced, Change, Checkpoint, AbandonChange
  <2>2. \A i \in OrderIndex : /\ dropped(i).stepIndex = c.orders[i].stepIndex
                              /\ dropped(i).state = "DISCARDED"
    BY <1>0 DEF Order
  <2> HIDE DEF d, dropped
  <2>3. OrdersForward(c, d)
    BY <1>0, <2>1, <2>2 DEF OrdersForward
  <2> QED
    BY <2>3 DEF d
<1> QED
  BY <1>1, <1>2, <1>3, <1>4, <1>5, <1>6 DEF Commands

\* The uses of a component are finitely many.
LEMMA UsesFinite ==
    ASSUME NEW x \in Components
    PROVE  IsFiniteSet(Uses[x])
<1>1. IsFiniteSet(OrderIndex) /\ IsFiniteSet(1 .. MaxSteps)
  <2>1. NumOrders - 1 \in Int /\ MaxSteps \in Int /\ 0 \in Int /\ 1 \in Int
    BY AuthoredAssumption
  <2> QED
    BY <2>1, FS_Interval DEF OrderIndex
<1>2. IsFiniteSet(OrderIndex \X (1 .. MaxSteps))
  BY <1>1, FS_Product
<1>3. Uses[x] \in SUBSET (OrderIndex \X (1 .. MaxSteps))
  BY DEF Uses
<1> QED
  BY <1>2, <1>3, FS_Subset

\* The uses done, and those of them served and discarded.
Done(c, x) == {u \in Uses[x] : u[2] <= c.orders[u[1]].stepIndex}
DoneServed(c, x) == {u \in Done(c, x) : c.orders[u[1]].state = "SERVED"}
DoneDiscarded(c, x) == {u \in Done(c, x) : c.orders[u[1]].state = "DISCARDED"}

\* conservedComponents conserves: what is available is what is not done.
LEMMA LedgerRowCounts ==
    ASSUME NEW c, NEW x \in Components
    PROVE  /\ IsFiniteSet(Done(c, x)) /\ IsFiniteSet(DoneServed(c, x))
           /\ IsFiniteSet(DoneDiscarded(c, x))
           /\ LedgerRow(c, x).total = Cardinality(Uses[x])
           /\ LedgerRow(c, x).served = Cardinality(DoneServed(c, x))
           /\ LedgerRow(c, x).discarded = Cardinality(DoneDiscarded(c, x))
           /\ LedgerRow(c, x).available = Cardinality(Uses[x]) - Cardinality(Done(c, x))
           /\ LedgerRow(c, x).available >= 0
           /\ Cardinality(Uses[x]) \in Nat /\ Cardinality(Done(c, x)) \in Nat
<1> DEFINE done == Done(c, x)
           served == DoneServed(c, x)
           discarded == DoneDiscarded(c, x)
           ended == served \cup discarded
<1>1. IsFiniteSet(Uses[x])
  BY UsesFinite
<1>2. done \in SUBSET Uses[x] /\ served \in SUBSET done /\ discarded \in SUBSET done
  BY DEF Done, DoneServed, DoneDiscarded
<1>3. IsFiniteSet(done) /\ Cardinality(done) <= Cardinality(Uses[x])
  BY <1>1, <1>2, FS_Subset
<1>4. IsFiniteSet(served) /\ IsFiniteSet(discarded)
  BY <1>2, <1>3, FS_Subset
<1>5. served \cap discarded = {} /\ done \cap ended = ended
  BY DEF Done, DoneServed, DoneDiscarded
<1>6. /\ LedgerRow(c, x).total = Cardinality(Uses[x])
      /\ LedgerRow(c, x).served = Cardinality(served)
      /\ LedgerRow(c, x).discarded = Cardinality(discarded)
      /\ LedgerRow(c, x).available = Cardinality(Uses[x]) - Cardinality(done \ ended)
                                         - Cardinality(served) - Cardinality(discarded)
  BY DEF LedgerRow, Done, DoneServed, DoneDiscarded
<1> HIDE DEF done, served, discarded, ended
<1>7. IsFiniteSet(ended) /\ Cardinality(ended) = Cardinality(served) + Cardinality(discarded)
  <2>1. Cardinality(ended) = Cardinality(served) + Cardinality(discarded)
                                 - Cardinality(served \cap discarded)
    BY <1>4, FS_Union DEF ended
  <2>2. Cardinality(served \cap discarded) = 0
    BY <1>5, FS_EmptySet
  <2>3. Cardinality(served) \in Nat /\ Cardinality(discarded) \in Nat
    BY <1>4, FS_CardinalityType
  <2>4. IsFiniteSet(ended)
    BY <1>4, FS_Union DEF ended
  <2> QED
    BY <2>1, <2>2, <2>3, <2>4
<1>8. Cardinality(done \ ended) = Cardinality(done) - Cardinality(ended)
  <2>1. Cardinality(done \ ended) = Cardinality(done) - Cardinality(done \cap ended)
    BY <1>3, FS_Difference
  <2> QED
    BY <1>5, <2>1, Zenon
<1>9. /\ Cardinality(Uses[x]) \in Nat /\ Cardinality(done) \in Nat
      /\ Cardinality(served) \in Nat /\ Cardinality(discarded) \in Nat
  BY <1>1, <1>3, <1>4, FS_CardinalityType
<1>10. LedgerRow(c, x).available = Cardinality(Uses[x]) - Cardinality(done)
  BY <1>6, <1>7, <1>8, <1>9
<1>11. LedgerRow(c, x).available >= 0
  BY <1>3, <1>9, <1>10
<1> QED
  BY <1>3, <1>4, <1>6, <1>9, <1>10, <1>11 DEF done, served, discarded

\* Orders that go forward take components and give none back.
LEMMA ForwardConsumes ==
    ASSUME NEW c \in Checkpoint, NEW d \in Checkpoint, OrdersForward(c, d),
           NEW x \in Components
    PROVE  /\ LedgerRow(d, x).available \in 0 .. LedgerRow(c, x).available
           /\ LedgerRow(d, x).served >= LedgerRow(c, x).served
           /\ LedgerRow(d, x).discarded >= LedgerRow(c, x).discarded
           /\ LedgerRow(d, x).total = LedgerRow(c, x).total
<1>1. \A u \in Uses[x] : u[1] \in OrderIndex /\ u[2] \in Nat
  BY DEF Uses
<1>2. \A i \in OrderIndex : c.orders[i].stepIndex \in Nat /\ d.orders[i].stepIndex \in Nat
  BY DEF Checkpoint, Order
<1>3. Done(c, x) \in SUBSET Done(d, x)
  BY <1>1, <1>2 DEF Done, OrdersForward
<1>4. /\ DoneServed(c, x) \in SUBSET DoneServed(d, x)
      /\ DoneDiscarded(c, x) \in SUBSET DoneDiscarded(d, x)
  BY <1>1, <1>3 DEF DoneServed, DoneDiscarded, OrdersForward, Done
<1>5. /\ Cardinality(Done(c, x)) <= Cardinality(Done(d, x))
      /\ Cardinality(DoneServed(c, x)) <= Cardinality(DoneServed(d, x))
      /\ Cardinality(DoneDiscarded(c, x)) <= Cardinality(DoneDiscarded(d, x))
  BY <1>3, <1>4, LedgerRowCounts, FS_Subset
<1>6. /\ Cardinality(DoneServed(c, x)) \in Nat /\ Cardinality(DoneServed(d, x)) \in Nat
      /\ Cardinality(DoneDiscarded(c, x)) \in Nat /\ Cardinality(DoneDiscarded(d, x)) \in Nat
  BY LedgerRowCounts, FS_CardinalityType
<1>7. /\ LedgerRow(d, x).available >= 0
      /\ LedgerRow(d, x).available = Cardinality(Uses[x]) - Cardinality(Done(d, x))
      /\ LedgerRow(c, x).available = Cardinality(Uses[x]) - Cardinality(Done(c, x))
      /\ Cardinality(Uses[x]) \in Nat
      /\ Cardinality(Done(c, x)) \in Nat /\ Cardinality(Done(d, x)) \in Nat
  BY LedgerRowCounts
<1>8. LedgerRow(d, x).available \in 0 .. LedgerRow(c, x).available
  BY <1>5, <1>7
<1> QED
  BY <1>5, <1>6, <1>8, LedgerRowCounts

\* Within a guest's run a component that was taken is never available again,
\* and what was served or discarded stays so.
THEOREM ComponentsAreOnlyConsumed == Spec => ComponentsOnlyConsumed
<1> DEFINE Consumed ==
        \A g \in Guests, x \in Components :
           /\ Live(g) /\ Live(g)' /\ progress'[g] # progress[g]
           /\ progress'[g].generation = progress[g].generation
           => LET now == LedgerRow(progress[g], x)
                  new == LedgerRow(progress'[g], x)
              IN  /\ new.available \in 0 .. now.available
                  /\ new.served >= now.served
                  /\ new.discarded >= now.discarded
                  /\ new.total = now.total
<1>1. IInv /\ IInv' /\ [Next]_vars => [Consumed]_vars
  <2> SUFFICES ASSUME IInv, IInv', Next, NEW g \in Guests, NEW x \in Components,
                      Live(g), Live(g)', progress'[g] # progress[g],
                      progress'[g].generation = progress[g].generation
               PROVE  /\ LedgerRow(progress'[g], x).available
                             \in 0 .. LedgerRow(progress[g], x).available
                      /\ LedgerRow(progress'[g], x).served >= LedgerRow(progress[g], x).served
                      /\ LedgerRow(progress'[g], x).discarded
                             >= LedgerRow(progress[g], x).discarded
                      /\ LedgerRow(progress'[g], x).total = LedgerRow(progress[g], x).total
    BY DEF vars
  <2>1. g \in Subjects /\ progress[g] \in Checkpoint /\ progress'[g] \in Checkpoint
    BY DEF IInv, TypeOK, Live, Subjects
  <2>2. \A h \in Guests, p \in Players : Claim(h, p) => g \notin {h, p}
    BY ClaimedRows DEF Live
  <2>3. PICK cmd \in Commands : /\ Accepts(progress[g], cmd)
                                /\ progress'[g] = Advanced(progress[g], cmd)
    BY <2>1, <2>2, RowAfterStep DEF Live
  <2>4. cmd.name # "start-new"
    <3>1. cmd.name = "start-new" =>
              progress'[g].generation = progress[g].generation + 1
      BY <2>1, <2>3 DEF Advanced, Change, StartNewChange, Checkpoint
    <3>2. progress[g].generation \in Int
      BY <2>1, BoundAssumption DEF Checkpoint
    <3> QED
      BY <3>1, <3>2
  <2>5. OrdersForward(progress[g], progress'[g])
    BY <2>1, <2>3, <2>4, AcceptedOrdersForward DEF Accepts
  <2> QED
    BY <2>1, <2>5, ForwardConsumes
<1> QED
  BY <1>1, Invariance, PTL DEF Spec, ComponentsOnlyConsumed

-----------------------------------------------------------------------------
(***************************************************************************)
(* The projection.  What it offers satisfies the guard of the command it   *)
(* names, and the guards of two different commands exclude one another but *)
(* for the abandonment, so what is accepted is what is offered.            *)
(***************************************************************************)

\* The states in which an order that is active in an open service may be.
LEMMA ActiveOrderTyped ==
    ASSUME NEW c \in Checkpoint, Sound(c), c.phase = "OPEN"
    PROVE  LET a == c.activeOrderIndex IN
           /\ a \in 0 .. NumOrders /\ NumOrders \in Nat /\ c.riceBeatIndex \in 0 .. RiceBeats
           /\ a < NumOrders =>
                  /\ a \in OrderIndex
                  /\ c.orders[a] \in Order
                  /\ c.orders[a].state \in OrderStates \ {"SERVED", "DISCARDED"}
                  /\ c.orders[a].state \in {"ACCEPTED", "PREPARING"} =>
                         /\ c.orders[a].stepIndex < Len(Steps[a])
                         /\ Steps[a][c.orders[a].stepIndex + 1].id \in StepIds
           /\ c.riceBeatIndex < RiceBeats => a = 0 /\ c.orders[0].state = "OFFERED"
<1> DEFINE a == c.activeOrderIndex
<1>1. /\ a \in 0 .. NumOrders /\ NumOrders \in Nat \ {0} /\ c.riceBeatIndex \in 0 .. RiceBeats
      /\ c.orders \in [OrderIndex -> Order]
  <2>1. NumOrders \in Nat \ {0}
    BY AuthoredAssumption
  <2> QED
    BY <2>1 DEF Checkpoint
<1>2. c.riceBeatIndex < RiceBeats => a = 0 /\ c.orders[0].state = "OFFERED"
  BY <1>1 DEF Sound, Consistent, PhaseShape, Untouched, OrderIndex
<1>3. ASSUME a < NumOrders
      PROVE  /\ a \in OrderIndex
             /\ c.orders[a] \in Order
             /\ c.orders[a].state \in OrderStates \ {"SERVED", "DISCARDED"}
  <2>1. a \in OrderIndex
    BY <1>1, <1>3 DEF OrderIndex
  <2>2. c.orders[a].state \notin {"SERVED", "DISCARDED"}
    BY <1>3 DEF Sound, Consistent, PhaseShape
  <2> QED
    BY <1>1, <2>1, <2>2 DEF Order
<1>4. ASSUME a < NumOrders, c.orders[a].state \in {"ACCEPTED", "PREPARING"}
      PROVE  /\ c.orders[a].stepIndex < Len(Steps[a])
             /\ Steps[a][c.orders[a].stepIndex + 1].id \in StepIds
  <2>1. Len(Steps[a]) \in Nat \ {0} /\ c.orders[a].stepIndex \in Nat
    <3>1. Len(Steps[a]) \in 1 .. MaxSteps
      BY <1>3, <1>4, AuthoredAssumption
    <3> QED
      BY <1>3, <1>4, <3>1 DEF Order
  <2>2. c.orders[a].stepIndex < Len(Steps[a])
    BY <1>3, <1>4, <2>1 DEF Sound, Consistent, OrderShape
  <2>3. c.orders[a].stepIndex + 1 \in 1 .. Len(Steps[a])
    BY <2>1, <2>2
  <2>4. a \in OrderIndex
    BY <1>3, <1>4
  <2> QED
    BY <2>2, <2>3, <2>4 DEF StepIds
<1> QED
  BY <1>1, <1>2, <1>3, <1>4

\* Each command the projection offers passes its guard.
LEMMA PromptedIsAdmitted ==
    ASSUME NEW c \in Checkpoint, Sound(c), NEW cmd \in Prompted(c)
    PROVE  cmd \in Commands /\ Admitted(c, cmd) /\ cmd.name # "abandon"
<1> DEFINE a == c.activeOrderIndex
           state == ActiveOrderState(c)
<1>1. CASE c.phase = "IDLE"
  <2>1. cmd = [name |-> "start"]
    BY <1>1 DEF Prompted
  <2> QED
    BY <1>1, <2>1 DEF Commands, Admitted, StartAdmitted
<1>2. CASE c.phase = "CLOSING"
  <2>1. cmd \in [name : {"choose-restoration"}, choice : Restorations]
    BY <1>2 DEF Prompted
  <2> QED
    BY <1>2, <2>1 DEF Commands, Admitted, ChooseRestorationAdmitted
<1>3. CASE c.phase = "SETTLED"
  BY <1>3 DEF Prompted
<1>4. CASE c.phase = "ABANDONED"
  <2>1. cmd = [name |-> "start-new"]
    BY <1>4 DEF Prompted
  <2> QED
    BY <1>4, <2>1 DEF Commands, Admitted, StartNewAdmitted
<1>5. CASE c.phase = "OPEN" /\ c.riceBeatIndex < RiceBeats
  <2>1. cmd = [name |-> "prepare-rice", beat |-> c.riceBeatIndex]
    <3>1. c.phase = "OPEN" /\ c.riceBeatIndex < RiceBeats /\ c.riceBeatIndex # RiceBeats
      BY <1>5, AuthoredAssumption DEF Checkpoint
    <3> QED
      BY <3>1 DEF Prompted
  <2>2. a = 0 /\ c.orders[0].state = "OFFERED" /\ c.riceBeatIndex \in 0 .. RiceBeats - 1
    BY <1>5, ActiveOrderTyped, AuthoredAssumption
  <2> QED
    BY <1>5, <2>1, <2>2 DEF Commands, Admitted, PrepareRiceAdmitted
<1>6. CASE c.phase = "OPEN" /\ c.riceBeatIndex = RiceBeats
  <2>1. a \in 0 .. NumOrders /\ NumOrders \in Nat
    BY <1>6, ActiveOrderTyped
  <2>2. CASE a = NumOrders
    <3>1. cmd = [name |-> "close-ledger"]
      BY <1>6, <2>1, <2>2 DEF Prompted, ActiveOrderState
    <3> QED
      BY <1>6, <2>2, <3>1 DEF Commands, Admitted, CloseLedgerAdmitted
  <2>3. CASE a < NumOrders
    <3>1. /\ a \in OrderIndex /\ state = c.orders[a].state
          /\ state \in OrderStates \ {"SERVED", "DISCARDED"}
          /\ ForActiveOrder(c, a)
      BY <1>6, <2>3, ActiveOrderTyped DEF ActiveOrderState, ForActiveOrder
    <3>2. CASE state = "OFFERED"
      <4>1. cmd = [name |-> "accept-order", order |-> a]
        BY <1>6, <3>2 DEF Prompted
      <4> QED
        BY <1>6, <3>1, <3>2, <4>1 DEF Commands, Admitted, AcceptOrderAdmitted
    <3>3. CASE state \in {"ACCEPTED", "PREPARING"}
      <4>1. cmd = [name |-> "perform-step", order |-> a,
                   step |-> Steps[a][c.orders[a].stepIndex + 1].id]
        BY <1>6, <3>3 DEF Prompted
      <4>2. /\ c.orders[a].stepIndex < Len(Steps[a])
            /\ Steps[a][c.orders[a].stepIndex + 1].id \in StepIds
        BY <1>6, <2>3, <3>1, <3>3, ActiveOrderTyped
      <4> QED
        BY <3>1, <3>3, <4>1, <4>2 DEF Commands, Admitted, PerformStepAdmitted
    <3>4. CASE state = "READY_TO_PLATE" /\ a = 0 /\ c.presentationChoice = None
      <4>1. cmd \in [name : {"choose-presentation"}, order : {a}, choice : Presentations]
        BY <1>6, <3>4 DEF Prompted
      <4> QED
        BY <3>1, <3>4, <4>1 DEF Commands, Admitted, ChoosePresentationAdmitted
    <3>5. CASE state = "READY_TO_PLATE" /\ ~(a = 0 /\ c.presentationChoice = None)
      <4>1. cmd = [name |-> "plate-order", order |-> a]
        BY <1>6, <3>5 DEF Prompted
      <4> QED
        BY <3>1, <3>5, <4>1 DEF Commands, Admitted, PlateOrderAdmitted
    <3>6. CASE state = "PLATED"
      <4>1. cmd = [name |-> "serve-order", order |-> a]
        BY <1>6, <3>6 DEF Prompted
      <4> QED
        BY <3>1, <3>6, <4>1 DEF Commands, Admitted, ServeOrderAdmitted
    <3> QED
      BY <3>1, <3>2, <3>3, <3>4, <3>5, <3>6 DEF OrderStates
  <2> QED
    BY <2>1, <2>2, <2>3
<1>7. c.phase \in Phases /\ c.riceBeatIndex \in 0 .. RiceBeats /\ RiceBeats \in Nat
  BY AuthoredAssumption DEF Checkpoint
<1> QED
  BY <1>1, <1>2, <1>3, <1>4, <1>5, <1>6, <1>7 DEF Phases

\* Each command that passes its guard is offered, the abandonment excepted.
LEMMA AdmittedIsPrompted ==
    ASSUME NEW c \in Checkpoint, Sound(c), NEW cmd \in Commands, Admitted(c, cmd),
           cmd.name # "abandon"
    PROVE  cmd \in Prompted(c)
<1> DEFINE a == c.activeOrderIndex
           state == ActiveOrderState(c)
<1>0. RiceBeats \in Nat
  BY AuthoredAssumption
<1>1. CASE cmd.name = "start"
  <2>1. cmd = [name |-> "start"] /\ c.phase = "IDLE"
    BY <1>1 DEF Commands, Admitted, StartAdmitted
  <2> QED
    BY <2>1 DEF Prompted
<1>2. CASE cmd.name = "start-new"
  <2>1. cmd = [name |-> "start-new"] /\ c.phase = "ABANDONED"
    BY <1>2 DEF Commands, Admitted, StartNewAdmitted
  <2> QED
    BY <2>1 DEF Prompted
<1>3. CASE cmd.name = "prepare-rice"
  <2>1. /\ cmd = [name |-> "prepare-rice", beat |-> c.riceBeatIndex]
        /\ c.phase = "OPEN" /\ c.riceBeatIndex < RiceBeats /\ c.riceBeatIndex # RiceBeats
    BY <1>0, <1>3 DEF Commands, Admitted, PrepareRiceAdmitted, Checkpoint
  <2> QED
    BY <2>1 DEF Prompted
<1>4. ASSUME cmd.name \in {"accept-order", "perform-step", "choose-presentation",
                           "plate-order", "serve-order"}
      PROVE  /\ cmd.order = a /\ c.phase = "OPEN" /\ c.riceBeatIndex = RiceBeats
             /\ state = c.orders[a].state
  <2>1. ForActiveOrder(c, cmd.order) /\ cmd.order \in OrderIndex
    BY <1>4 DEF Commands, Admitted, AcceptOrderAdmitted, PerformStepAdmitted,
                ChoosePresentationAdmitted, PlateOrderAdmitted, ServeOrderAdmitted
  <2>2. cmd.order = a /\ c.phase = "OPEN" /\ state = c.orders[a].state
    BY <2>1 DEF ForActiveOrder, ActiveOrderState
  <2>3. c.riceBeatIndex = RiceBeats \/ c.orders[a].state # "OFFERED"
    BY <1>4, <2>2 DEF Admitted, AcceptOrderAdmitted, PerformStepAdmitted,
                ChoosePresentationAdmitted, PlateOrderAdmitted, ServeOrderAdmitted
  <2>4. c.riceBeatIndex = RiceBeats
    BY <2>1, <2>2, <2>3, RiceIsPrepared
  <2> QED
    BY <2>2, <2>4
<1>5. CASE cmd.name = "accept-order"
  <2>1. cmd = [name |-> "accept-order", order |-> a] /\ state = "OFFERED"
    BY <1>4, <1>5 DEF Commands, Admitted, AcceptOrderAdmitted
  <2> QED
    BY <1>0, <1>4, <1>5, <2>1 DEF Prompted
<1>6. CASE cmd.name = "perform-step"
  <2>1. /\ cmd = [name |-> "perform-step", order |-> a,
                  step |-> Steps[a][c.orders[a].stepIndex + 1].id]
        /\ state \in {"ACCEPTED", "PREPARING"}
    BY <1>4, <1>6 DEF Commands, Admitted, PerformStepAdmitted
  <2> QED
    <3>1. c.phase = "OPEN" /\ c.riceBeatIndex = RiceBeats /\ ~(c.riceBeatIndex < RiceBeats)
      BY <1>0, <1>4, <1>6
    <3>2. Prompted(c) = {[name |-> "perform-step", order |-> a,
                          step |-> Steps[a][c.orders[a].stepIndex + 1].id]}
      BY <2>1, <3>1 DEF Prompted
    <3> QED
      BY <2>1, <3>2
<1>7. CASE cmd.name = "choose-presentation"
  <2>1. /\ cmd \in [name : {"choose-presentation"}, order : {a}, choice : Presentations]
        /\ state = "READY_TO_PLATE" /\ a = 0 /\ c.presentationChoice = None
    BY <1>4, <1>7 DEF Commands, Admitted, ChoosePresentationAdmitted
  <2> QED
    BY <1>0, <1>4, <1>7, <2>1 DEF Prompted
<1>8. CASE cmd.name = "plate-order"
  <2>1. /\ cmd = [name |-> "plate-order", order |-> a]
        /\ state = "READY_TO_PLATE" /\ ~(a = 0 /\ c.presentationChoice = None)
    BY <1>4, <1>8 DEF Commands, Admitted, PlateOrderAdmitted
  <2> QED
    BY <1>0, <1>4, <1>8, <2>1 DEF Prompted
<1>9. CASE cmd.name = "serve-order"
  <2>1. cmd = [name |-> "serve-order", order |-> a] /\ state = "PLATED"
    BY <1>4, <1>9 DEF Commands, Admitted, ServeOrderAdmitted
  <2> QED
    BY <1>0, <1>4, <1>9, <2>1 DEF Prompted
<1>10. CASE cmd.name = "close-ledger"
  <2>1. cmd = [name |-> "close-ledger"] /\ c.phase = "OPEN" /\ a = NumOrders
    BY <1>10 DEF Commands, Admitted, CloseLedgerAdmitted
  <2>2. c.riceBeatIndex = RiceBeats /\ state = "NONE"
    BY <2>1, ActiveOrderTyped, AuthoredAssumption DEF ActiveOrderState
  <2> QED
    BY <1>0, <2>1, <2>2 DEF Prompted
<1>11. CASE cmd.name = "choose-restoration"
  <2>1. cmd \in [name : {"choose-restoration"}, choice : Restorations] /\ c.phase = "CLOSING"
    BY <1>11 DEF Commands, Admitted, ChooseRestorationAdmitted
  <2> QED
    BY <2>1 DEF Prompted
<1>12. cmd.name \in {"start", "start-new", "prepare-rice", "accept-order", "perform-step",
                     "choose-presentation", "plate-order", "serve-order", "close-ledger",
                     "choose-restoration", "abandon"}
  BY DEF Commands
<1> QED
  BY <1>1, <1>2, <1>3, <1>5, <1>6, <1>7, <1>8, <1>9, <1>10, <1>11, <1>12

\* Until it is settled a service always has a command to offer.
LEMMA SomethingIsPrompted ==
    ASSUME NEW c \in Checkpoint, Sound(c), c.phase # "SETTLED"
    PROVE  Prompted(c) # {}
<1> DEFINE a == c.activeOrderIndex
           state == ActiveOrderState(c)
<1>1. CASE c.phase \in {"IDLE", "ABANDONED"}
  BY <1>1 DEF Prompted
<1>2. CASE c.phase = "CLOSING"
  <2>1. PICK r \in Restorations : TRUE
    BY AuthoredAssumption
  <2>2. [name |-> "choose-restoration", choice |-> r] \in Prompted(c)
    BY <1>2, <2>1 DEF Prompted
  <2> QED
    BY <2>2
<1>3. CASE c.phase = "OPEN" /\ c.riceBeatIndex # RiceBeats
  <2>1. c.riceBeatIndex < RiceBeats
    BY <1>3, AuthoredAssumption DEF Checkpoint
  <2> QED
    BY <1>3, <2>1 DEF Prompted
<1>4. CASE c.phase = "OPEN" /\ c.riceBeatIndex = RiceBeats
  <2>1. ~(c.riceBeatIndex < RiceBeats) /\ state \in (OrderStates \cup {"NONE"})
    <3>1. state \in OrderStates \cup {"NONE"}
      BY <1>4, ActiveOrderTyped DEF ActiveOrderState
    <3> QED
      BY <1>4, <3>1, AuthoredAssumption
  <2>2. CASE state \in {"OFFERED", "PLATED", "NONE", "SERVED", "DISCARDED"}
    BY <1>4, <2>1, <2>2 DEF Prompted
  <2>3. CASE state \in {"ACCEPTED", "PREPARING"}
    <3>1. [name |-> "perform-step", order |-> a,
           step |-> Steps[a][c.orders[a].stepIndex + 1].id] \in Prompted(c)
      BY <1>4, <2>1, <2>3 DEF Prompted
    <3> QED
      BY <3>1
  <2>4. CASE state = "READY_TO_PLATE" /\ a = 0 /\ c.presentationChoice = None
    <3>1. PICK p \in Presentations : TRUE
      BY AuthoredAssumption
    <3>2. Prompted(c) = [name : {"choose-presentation"}, order : {a}, choice : Presentations]
      BY <1>4, <2>1, <2>4 DEF Prompted
    <3>3. [name |-> "choose-presentation", order |-> a, choice |-> p] \in Prompted(c)
      BY <3>1, <3>2
    <3> QED
      BY <3>3
  <2>5. CASE state = "READY_TO_PLATE" /\ ~(a = 0 /\ c.presentationChoice = None)
    <3>1. Prompted(c) = {[name |-> "plate-order", order |-> a]}
      BY <1>4, <2>1, <2>5 DEF Prompted
    <3> QED
      BY <3>1
  <2> QED
    BY <2>1, <2>2, <2>3, <2>4, <2>5 DEF OrderStates
<1> QED
  BY <1>1, <1>2, <1>3, <1>4 DEF Checkpoint, Phases

\* The projection offers exactly what the reducer accepts, besides the
\* abandonment, and always something before the settlement.
THEOREM PromptIsAlwaysExact == Spec => []PromptIsExact
<1>1. IInv => PromptIsExact
  <2> SUFFICES ASSUME IInv, NEW s \in Subjects, Live(s),
                      progress[s].revision < MaxRevision,
                      progress[s].generation < MaxGeneration
               PROVE  /\ \A cmd \in Prompted(progress[s]) : Accepts(progress[s], cmd)
                      /\ \A cmd \in Commands :
                             Accepts(progress[s], cmd) => cmd \in Prompted(progress[s])
                                                          \/ cmd.name = "abandon"
                      /\ progress[s].phase # "SETTLED" => Prompted(progress[s]) # {}
    BY DEF PromptIsExact
  <2>1. progress[s] \in Checkpoint /\ Sound(progress[s])
    BY DEF IInv, TypeOK, RowsSound, Live
  <2>2. ASSUME NEW cmd \in Prompted(progress[s])
        PROVE  Accepts(progress[s], cmd)
    <3>1. cmd \in Commands /\ Admitted(progress[s], cmd) /\ cmd.name # "abandon"
      BY <2>1, PromptedIsAdmitted
    <3>2. Advanceable(progress[s], cmd)
      BY DEF Advanceable
    <3>3. Decodes(Advanced(progress[s], cmd))
      BY <2>1, <3>1, <3>2, AdmittedKeeps DEF Decodes, Sound
    <3> QED
      BY <3>1, <3>2, <3>3 DEF Accepts
  <2>3. ASSUME NEW cmd \in Commands, Accepts(progress[s], cmd), cmd.name # "abandon"
        PROVE  cmd \in Prompted(progress[s])
    BY <2>1, <2>3, AdmittedIsPrompted DEF Accepts
  <2> QED
    BY <2>1, <2>2, <2>3, SomethingIsPrompted
<1> QED
  BY <1>1, Invariance, PTL

-----------------------------------------------------------------------------
(***************************************************************************)
(* No step skipped.  An accepted command other than a new evening and an   *)
(* abandonment adds exactly one to what the checkpoint accounts for: it    *)
(* moves one order by one act, or one of the counters beside the orders.   *)
(* The argument needs OrderShape, which ties an order's state to its step  *)
(* index and feedback references.                                          *)
(***************************************************************************)
BesideOrders(c) ==
    (IF c.phase = "IDLE" THEN 0 ELSE 1)
    + c.riceBeatIndex
    + (IF c.presentationChoice = None THEN 0 ELSE 1)
    + (IF c.phase \in {"CLOSING", "SETTLED"} THEN 1 ELSE 0)
    + (IF c.phase = "SETTLED" THEN 1 ELSE 0)

LEMMA OrderActsFinite ==
    ASSUME NEW c
    PROVE  IsFiniteSet(OrderActs(c)) /\ Cardinality(OrderActs(c)) \in Nat
<1>1. IsFiniteSet(OrderIndex) /\ IsFiniteSet(1 .. MaxSteps + 3)
  <2>1. NumOrders - 1 \in Int /\ MaxSteps + 3 \in Int /\ 0 \in Int /\ 1 \in Int
    BY AuthoredAssumption
  <2> QED
    BY <2>1, FS_Interval DEF OrderIndex
<1>2. IsFiniteSet(OrderIndex \X (1 .. MaxSteps + 3))
  BY <1>1, FS_Product
<1>3. OrderActs(c) \in SUBSET (OrderIndex \X (1 .. MaxSteps + 3))
  BY DEF OrderActs
<1> QED
  BY <1>2, <1>3, FS_Subset, FS_CardinalityType

LEMMA RunLengthSplits ==
    ASSUME NEW c \in Checkpoint
    PROVE  /\ RunLength(c) = BesideOrders(c) + Cardinality(OrderActs(c))
           /\ BesideOrders(c) \in Nat /\ Cardinality(OrderActs(c)) \in Nat
<1>1. c.riceBeatIndex \in Nat
  BY AuthoredAssumption DEF Checkpoint
<1> QED
  BY <1>1, OrderActsFinite DEF RunLength, BesideOrders

\* An order that takes one more act, and only that order, adds one.
LEMMA OneMoreAct ==
    ASSUME NEW c \in Checkpoint, NEW d, NEW i \in OrderIndex,
           OrderLength(c.orders[i]) \in 0 .. MaxSteps + 2,
           OrderLength(d.orders[i]) = OrderLength(c.orders[i]) + 1,
           \A j \in OrderIndex : j # i => d.orders[j] = c.orders[j]
    PROVE  Cardinality(OrderActs(d)) = Cardinality(OrderActs(c)) + 1
<1> DEFINE n == OrderLength(c.orders[i])
           act == <<i, n + 1>>
<1>1. n \in Nat /\ MaxSteps \in Nat /\ n + 1 \in 1 .. MaxSteps + 3
  BY AuthoredAssumption
<1>2. OrderActs(d) = OrderActs(c) \cup {act}
  <2>1. ASSUME NEW j \in OrderIndex, NEW k \in 1 .. MaxSteps + 3
        PROVE  <<j, k>> \in OrderActs(d) <=> <<j, k>> \in OrderActs(c) \/ <<j, k>> = act
    <3>1. <<j, k>> \in OrderActs(d) <=> k <= OrderLength(d.orders[j])
      BY DEF OrderActs
    <3>2. <<j, k>> \in OrderActs(c) <=> k <= OrderLength(c.orders[j])
      BY DEF OrderActs
    <3>3. CASE j = i
      <4>1. OrderLength(d.orders[j]) = n + 1 /\ OrderLength(c.orders[j]) = n
        BY <3>3
      <4> HIDE DEF n
      <4> QED
        BY <1>1, <3>1, <3>2, <3>3, <4>1
    <3>4. CASE j # i
      BY <3>1, <3>2, <3>4
    <3> QED
      BY <3>3, <3>4
  <2>2. /\ OrderActs(d) \subseteq OrderIndex \X (1 .. MaxSteps + 3)
        /\ OrderActs(c) \subseteq OrderIndex \X (1 .. MaxSteps + 3)
        /\ act \in OrderIndex \X (1 .. MaxSteps + 3)
    BY <1>1 DEF OrderActs
  <2> HIDE DEF act, n
  <2>3. \A x \in OrderIndex \X (1 .. MaxSteps + 3) :
            x \in OrderActs(d) <=> x \in OrderActs(c) \/ x = act
    BY <2>1
  <2> QED
    BY <2>2, <2>3
<1>3. act \notin OrderActs(c)
  BY <1>1 DEF OrderActs
<1> QED
  BY <1>2, <1>3, OrderActsFinite, FS_AddElement

\* How long an order of a sound checkpoint may be.
LEMMA OrderLengthTyped ==
    ASSUME NEW c \in Checkpoint, Sound(c), NEW i \in OrderIndex
    PROVE  /\ c.orders[i] \in Order
           /\ c.orders[i].state # "SERVED" => OrderLength(c.orders[i]) \in 0 .. MaxSteps + 2
<1>1. c.orders[i] \in Order
  BY DEF Checkpoint
<1>2. Len(Steps[i]) \in 1 .. MaxSteps /\ MaxSteps \in Nat
  BY AuthoredAssumption
<1>3. /\ c.orders[i].stepIndex \in 0 .. Len(Steps[i])
      /\ c.orders[i].serveFeedbackRef <=> c.orders[i].state = "SERVED"
  BY DEF Sound, Consistent, OrderShape
<1> QED
  BY <1>1, <1>2, <1>3 DEF OrderLength

\* An accepted command of the run adds one to its length.
LEMMA AcceptedAddsOne ==
    ASSUME NEW c \in Checkpoint, Sound(c), NEW cmd \in Commands, Accepts(c, cmd),
           cmd.name \notin {"start-new", "abandon"}
    PROVE  RunLength(Advanced(c, cmd)) = RunLength(c) + 1
<1> DEFINE d == Advanced(c, cmd)
<1>1. Admitted(c, cmd) /\ d \in Checkpoint
  BY AcceptedKeeps DEF Accepts
<1>2. /\ RunLength(c) = BesideOrders(c) + Cardinality(OrderActs(c))
      /\ RunLength(d) = BesideOrders(d) + Cardinality(OrderActs(d))
      /\ BesideOrders(c) \in Nat /\ Cardinality(OrderActs(c)) \in Nat
  BY <1>1, RunLengthSplits
<1>3. c.riceBeatIndex \in Nat /\ \A i \in OrderIndex : c.orders[i] \in Order
  BY AuthoredAssumption DEF Checkpoint
<1>4. ASSUME d.orders = c.orders, BesideOrders(d) = BesideOrders(c) + 1
      PROVE  RunLength(d) = RunLength(c) + 1
  <2>1. OrderActs(d) = OrderActs(c)
    BY <1>4 DEF OrderActs
  <2> HIDE DEF d
  <2> QED
    BY <1>2, <1>4, <2>1
<1>5. ASSUME NEW i \in OrderIndex, NEW o, d.orders = [c.orders EXCEPT ![i] = o],
             c.orders[i].state # "SERVED",
             OrderLength(o) = OrderLength(c.orders[i]) + 1,
             BesideOrders(d) = BesideOrders(c)
      PROVE  RunLength(d) = RunLength(c) + 1
  <2>1. d.orders[i] = o /\ \A j \in OrderIndex : j # i => d.orders[j] = c.orders[j]
    BY <1>5 DEF Checkpoint
  <2>2. OrderLength(c.orders[i]) \in 0 .. MaxSteps + 2
    BY <1>5, OrderLengthTyped
  <2> HIDE DEF d
  <2>3. Cardinality(OrderActs(d)) = Cardinality(OrderActs(c)) + 1
    BY <1>5, <2>1, <2>2, OneMoreAct
  <2> QED
    BY <1>2, <1>5, <2>3
<1>6. CASE cmd.name = "start"
  <2>1. d.orders = c.orders
    BY <1>6 DEF Advanced, Change, Checkpoint, StartChange
  <2>2. /\ c.phase = "IDLE" /\ d.phase = "OPEN" /\ d.riceBeatIndex = c.riceBeatIndex
        /\ d.presentationChoice = c.presentationChoice
    BY <1>1, <1>6 DEF Advanced, Change, Checkpoint, StartChange, Admitted, StartAdmitted
  <2> HIDE DEF d
  <2>3. BesideOrders(d) = BesideOrders(c) + 1
    BY <1>3, <2>2 DEF BesideOrders
  <2> QED
    BY <1>4, <2>1, <2>3 DEF d
<1>7. CASE cmd.name = "prepare-rice"
  <2>1. /\ d.orders = c.orders /\ d.phase = c.phase /\ d.riceBeatIndex = c.riceBeatIndex + 1
        /\ d.presentationChoice = c.presentationChoice
    BY <1>7 DEF Advanced, Change, Checkpoint, PrepareRiceChange
  <2> HIDE DEF d
  <2>2. BesideOrders(d) = BesideOrders(c) + 1
    BY <1>3, <2>1 DEF BesideOrders
  <2> QED
    BY <1>4, <2>1, <2>2 DEF d
<1>8. CASE cmd.name = "choose-presentation"
  <2>1. /\ d.orders = c.orders /\ d.phase = c.phase /\ d.riceBeatIndex = c.riceBeatIndex
        /\ d.presentationChoice = cmd.choice
    BY <1>8 DEF Advanced, Change, Checkpoint, ChoosePresentationChange
  <2>2. c.presentationChoice = None /\ cmd.choice # None
    BY <1>1, <1>8, AuthoredAssumption DEF Admitted, ChoosePresentationAdmitted
  <2> HIDE DEF d
  <2>3. BesideOrders(d) = BesideOrders(c) + 1
    BY <1>3, <2>1, <2>2 DEF BesideOrders
  <2> QED
    BY <1>4, <2>1, <2>3 DEF d
<1>9. CASE cmd.name = "close-ledger"
  <2>1. /\ d.orders = c.orders /\ d.phase = "CLOSING" /\ d.riceBeatIndex = c.riceBeatIndex
        /\ d.presentationChoice = c.presentationChoice
    BY <1>9 DEF Advanced, Change, Checkpoint, CloseLedgerChange
  <2>2. c.phase = "OPEN"
    BY <1>1, <1>9 DEF Admitted, CloseLedgerAdmitted
  <2> HIDE DEF d
  <2>3. BesideOrders(d) = BesideOrders(c) + 1
    BY <1>3, <2>1, <2>2 DEF BesideOrders
  <2> QED
    BY <1>4, <2>1, <2>3 DEF d
<1>10. CASE cmd.name = "choose-restoration"
  <2>1. /\ d.orders = c.orders /\ d.phase = "SETTLED" /\ d.riceBeatIndex = c.riceBeatIndex
        /\ d.presentationChoice = c.presentationChoice
    BY <1>10 DEF Advanced, Change, Checkpoint, ChooseRestorationChange
  <2>2. c.phase = "CLOSING"
    BY <1>1, <1>10 DEF Admitted, ChooseRestorationAdmitted
  <2> HIDE DEF d
  <2>3. BesideOrders(d) = BesideOrders(c) + 1
    BY <1>3, <2>1, <2>2 DEF BesideOrders
  <2> QED
    BY <1>4, <2>1, <2>3 DEF d
<1>11. CASE cmd.name \in {"accept-order", "perform-step", "plate-order", "serve-order"}
  <2>1. cmd.order \in OrderIndex
    BY <1>11 DEF Commands
  <2>2. /\ d.phase = c.phase /\ d.riceBeatIndex = c.riceBeatIndex
        /\ d.presentationChoice = c.presentationChoice
    BY <1>11 DEF Advanced, Change, Checkpoint, AcceptOrderChange, PerformStepChange,
                 PlateOrderChange, ServeOrderChange
  <2>3. BesideOrders(d) = BesideOrders(c)
    <3> HIDE DEF d
    <3> QED
      BY <2>2 DEF BesideOrders
  <2>4. LET q == c.orders[cmd.order] IN
        /\ q.stepIndex \in Nat
        /\ q.state \in {"OFFERED"} => q.stepIndex = 0
        /\ q.plateFeedbackRef <=> q.state \in {"PLATED", "SERVED"}
        /\ q.serveFeedbackRef <=> q.state = "SERVED"
    BY <1>3, <2>1 DEF Sound, Consistent, OrderShape, Order
  <2>5. CASE cmd.name = "accept-order"
    <3> DEFINE o == [c.orders[cmd.order] EXCEPT !.state = "ACCEPTED"]
    <3>1. c.orders[cmd.order].state = "OFFERED"
      BY <1>1, <2>5 DEF Admitted, AcceptOrderAdmitted
    <3>2. d.orders = [c.orders EXCEPT ![cmd.order] = o]
      BY <2>5 DEF Advanced, Change, Checkpoint, AcceptOrderChange
    <3>3. /\ o.state = "ACCEPTED" /\ o.stepIndex = c.orders[cmd.order].stepIndex
          /\ o.plateFeedbackRef = c.orders[cmd.order].plateFeedbackRef
          /\ o.serveFeedbackRef = c.orders[cmd.order].serveFeedbackRef
      BY <1>3, <2>1 DEF Order
    <3> HIDE DEF d, o
    <3>4. OrderLength(o) = OrderLength(c.orders[cmd.order]) + 1
      BY <2>4, <3>1, <3>3 DEF OrderLength
    <3> QED
      BY <1>5, <2>1, <2>3, <3>1, <3>2, <3>4 DEF d
  <2>6. CASE cmd.name = "perform-step"
    <3> DEFINE done == c.orders[cmd.order].stepIndex + 1
               o == [c.orders[cmd.order] EXCEPT !.stepIndex = done,
                       !.state = IF done = Len(Steps[cmd.order]) THEN "READY_TO_PLATE"
                                                                 ELSE "PREPARING"]
    <3>1. c.orders[cmd.order].state \in {"ACCEPTED", "PREPARING"}
      BY <1>1, <2>6 DEF Admitted, PerformStepAdmitted
    <3>2. d.orders = [c.orders EXCEPT ![cmd.order] = o]
      BY <2>6 DEF Advanced, Change, Checkpoint, PerformStepChange
    <3>3. /\ o.state # "OFFERED" /\ o.stepIndex = c.orders[cmd.order].stepIndex + 1
          /\ o.plateFeedbackRef = c.orders[cmd.order].plateFeedbackRef
          /\ o.serveFeedbackRef = c.orders[cmd.order].serveFeedbackRef
      BY <1>3, <2>1 DEF Order
    <3> HIDE DEF d, o
    <3>4. OrderLength(o) = OrderLength(c.orders[cmd.order]) + 1
      BY <2>4, <3>1, <3>3 DEF OrderLength
    <3> QED
      BY <1>5, <2>1, <2>3, <3>1, <3>2, <3>4 DEF d
  <2>7. CASE cmd.name = "plate-order"
    <3> DEFINE o == [c.orders[cmd.order] EXCEPT !.state = "PLATED", !.plateFeedbackRef = TRUE]
    <3>1. c.orders[cmd.order].state = "READY_TO_PLATE"
      BY <1>1, <2>7 DEF Admitted, PlateOrderAdmitted
    <3>2. d.orders = [c.orders EXCEPT ![cmd.order] = o]
      BY <2>7 DEF Advanced, Change, Checkpoint, PlateOrderChange
    <3>3. /\ o.state = "PLATED" /\ o.stepIndex = c.orders[cmd.order].stepIndex
          /\ o.plateFeedbackRef = TRUE
          /\ o.serveFeedbackRef = c.orders[cmd.order].serveFeedbackRef
      BY <1>3, <2>1 DEF Order
    <3> HIDE DEF d, o
    <3>4. OrderLength(o) = OrderLength(c.orders[cmd.order]) + 1
      BY <2>4, <3>1, <3>3 DEF OrderLength
    <3> QED
      BY <1>5, <2>1, <2>3, <3>1, <3>2, <3>4 DEF d
  <2>8. CASE cmd.name = "serve-order"
    <3> DEFINE o == [c.orders[cmd.order] EXCEPT !.state = "SERVED", !.serveFeedbackRef = TRUE]
    <3>1. c.orders[cmd.order].state = "PLATED"
      BY <1>1, <2>8 DEF Admitted, ServeOrderAdmitted
    <3>2. d.orders = [c.orders EXCEPT ![cmd.order] = o]
      BY <2>8 DEF Advanced, Change, Checkpoint, ServeOrderChange
    <3>3. /\ o.state = "SERVED" /\ o.stepIndex = c.orders[cmd.order].stepIndex
          /\ o.plateFeedbackRef = c.orders[cmd.order].plateFeedbackRef
          /\ o.serveFeedbackRef = TRUE
      BY <1>3, <2>1 DEF Order
    <3> HIDE DEF d, o
    <3>4. OrderLength(o) = OrderLength(c.orders[cmd.order]) + 1
      BY <2>4, <3>1, <3>3 DEF OrderLength
    <3> QED
      BY <1>5, <2>1, <2>3, <3>1, <3>2, <3>4 DEF d
  <2> QED
    BY <1>11, <2>5, <2>6, <2>7, <2>8
<1>12. cmd.name \in {"start", "start-new", "prepare-rice", "accept-order", "perform-step",
                     "choose-presentation", "plate-order", "serve-order", "close-ledger",
                     "choose-restoration", "abandon"}
  BY DEF Commands
<1> QED
  BY <1>6, <1>7, <1>8, <1>9, <1>10, <1>11, <1>12

\* A run that has just been offered its orders has taken none of their acts.
LEMMA OfferedTakesNoAct ==
    ASSUME NEW c, \A i \in OrderIndex : c.orders[i].state = "OFFERED"
    PROVE  Cardinality(OrderActs(c)) = 0
<1>1. OrderActs(c) = {}
  <2>1. \A i \in OrderIndex : OrderLength(c.orders[i]) = 0
    BY DEF OrderLength
  <2>2. ASSUME NEW act \in OrderIndex \X (1 .. MaxSteps + 3)
        PROVE  act[1] \in OrderIndex /\ act[2] \in 1 .. MaxSteps + 3
    OBVIOUS
  <2>3. MaxSteps \in Nat
    BY AuthoredAssumption
  <2>4. \A act \in OrderIndex \X (1 .. MaxSteps + 3) :
            ~(act[2] <= OrderLength(c.orders[act[1]]))
    BY <2>1, <2>2, <2>3
  <2> QED
    BY <2>4 DEF OrderActs
<1> QED
  BY <1>1, FS_EmptySet

\* The checkpoint of every subject accounts for exactly the commands accepted
\* in its run, until it is abandoned.
THEOREM NoStepIsSkipped == Spec => []NoStepSkipped
<1>1. Init => NoStepSkipped
  BY DEF Init, NoStepSkipped, Live
<1>2. IInv /\ IInv' /\ NoStepSkipped /\ [Next]_vars => NoStepSkipped'
  <2>1. ASSUME IInv, IInv', NoStepSkipped, Next, NEW s \in Subjects,
               Live(s)', progress'[s].phase # "ABANDONED"
        PROVE  RunLength(progress'[s]) = acceptedInRun'[s]
    <3>1. /\ progress[s] \in Checkpoint \cup {None}
          /\ progress[s] # None => Sound(progress[s])
          /\ acceptedInRun[s] \in Nat
      BY <2>1 DEF IInv, TypeOK, RowsSound, Live
    <3>2. CASE progress'[s] = progress[s] /\ acceptedInRun'[s] = acceptedInRun[s]
      BY <2>1, <3>2 DEF NoStepSkipped, Live
    <3>3. CASE progress'[s] = InitialCheckpoint /\ acceptedInRun'[s] = 0
      <4>1. /\ \A i \in OrderIndex : InitialCheckpoint.orders[i].state = "OFFERED"
            /\ InitialCheckpoint.phase = "IDLE" /\ InitialCheckpoint.riceBeatIndex = 0
            /\ InitialCheckpoint.presentationChoice = None
        BY DEF InitialCheckpoint, OfferedOrder
      <4>2. Cardinality(OrderActs(InitialCheckpoint)) = 0
        BY <4>1, OfferedTakesNoAct
      <4> QED
        BY <3>3, <4>1, <4>2 DEF RunLength
    <3>4. ASSUME progress[s] # None, NEW cmd \in Commands, Accepts(progress[s], cmd),
                 progress'[s] = Advanced(progress[s], cmd),
                 acceptedInRun'[s] = IF cmd.name = "start-new" THEN 1
                                     ELSE acceptedInRun[s] + 1
          PROVE  RunLength(progress'[s]) = acceptedInRun'[s]
      <4>0. progress[s] \in Checkpoint /\ Sound(progress[s])
        BY <3>1, <3>4
      <4>1. CASE cmd.name = "start-new"
        <5> DEFINE d == Advanced(progress[s], cmd)
        <5>1. /\ d.orders = [i \in OrderIndex |-> OfferedOrder]
              /\ d.phase = "OPEN" /\ d.riceBeatIndex = 0 /\ d.presentationChoice = None
          BY <4>0, <4>1 DEF Advanced, Change, StartNewChange, Checkpoint
        <5> HIDE DEF d
        <5>2. Cardinality(OrderActs(d)) = 0
          <6>1. \A i \in OrderIndex : d.orders[i].state = "OFFERED"
            BY <5>1 DEF OfferedOrder
          <6> QED
            BY <6>1, OfferedTakesNoAct
        <5>3. RunLength(d) = 1
          BY <5>1, <5>2 DEF RunLength
        <5> QED
          BY <3>4, <4>1, <5>3 DEF d
      <4>2. cmd.name # "abandon"
        <5>1. cmd.name = "abandon" => progress'[s].phase = "ABANDONED"
          BY <3>4, <4>0 DEF Advanced, Change, AbandonChange, Checkpoint
        <5> QED
          BY <2>1, <5>1
      <4>3. CASE cmd.name # "start-new"
        <5>1. progress[s].phase # "ABANDONED"
          <6>1. Admitted(progress[s], cmd)
            BY <3>4 DEF Accepts
          <6> QED
            BY <4>2, <4>3, <6>1 DEF Commands, Admitted, StartAdmitted, PrepareRiceAdmitted,
               AcceptOrderAdmitted, PerformStepAdmitted, ChoosePresentationAdmitted,
               PlateOrderAdmitted, ServeOrderAdmitted, CloseLedgerAdmitted,
               ChooseRestorationAdmitted, ForActiveOrder
        <5>2. RunLength(progress[s]) = acceptedInRun[s]
          BY <2>1, <3>4, <5>1 DEF NoStepSkipped, Live
        <5>3. RunLength(progress'[s]) = RunLength(progress[s]) + 1
          BY <3>4, <4>0, <4>2, <4>3, AcceptedAddsOne
        <5> QED
          BY <3>4, <4>3, <5>2, <5>3
      <4> QED
        BY <4>1, <4>3
    <3>5. ASSUME NEW g \in Guests, NEW p \in Players, Claim(g, p), s \in {g, p}
          PROVE  RunLength(progress'[s]) = acceptedInRun'[s]
      <4>1. s = p /\ g \in Subjects /\ progress[g] \in Checkpoint
        BY <2>1, <3>5, ClaimedRows DEF Live
      <4>2. /\ progress'[p] = Rebased(progress[g], progress[p],
                                     CommittedRevision(progress[g], progress[p]))
            /\ acceptedInRun'[p] = acceptedInRun[g]
        BY <2>1, <3>5, ClaimedRows
      <4>3. /\ progress'[p].phase = progress[g].phase
            /\ progress'[p].riceBeatIndex = progress[g].riceBeatIndex
            /\ progress'[p].presentationChoice = progress[g].presentationChoice
            /\ progress'[p].orders = progress[g].orders
        BY <4>1, <4>2 DEF Rebased, Checkpoint
      <4>4. RunLength(progress'[p]) = RunLength(progress[g])
        BY <4>3 DEF RunLength, OrderActs
      <4>5. RunLength(progress[g]) = acceptedInRun[g]
        BY <2>1, <4>1, <4>3, NoneAssumption DEF NoStepSkipped, Live
      <4> QED
        BY <4>1, <4>2, <4>4, <4>5
    <3> QED
      BY <2>1, <3>2, <3>3, <3>4, <3>5, RowAfterStep
  <2>2. ASSUME NoStepSkipped, UNCHANGED vars
        PROVE  NoStepSkipped'
    BY <2>2 DEF NoStepSkipped, Live, vars
  <2> QED
    BY <2>1, <2>2 DEF NoStepSkipped
<1> QED
  BY <1>1, <1>2, Invariance, PTL DEF Spec
=============================================================================
