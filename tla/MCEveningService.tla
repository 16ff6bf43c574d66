-------------------------- MODULE MCEveningService --------------------------
(***************************************************************************)
(* The first evening (FIRST_EVENING_SERVICE_DEFINITION) cut down to two    *)
(* orders, one of two steps and one of a single step.                      *)
(***************************************************************************)
EXTENDS EveningService, TLC

Step(id, component) == [id |-> id, component |-> component]

ShortSteps ==
    (0 :> << Step("layer-nori", "nori-sheet"), Step("portion-rice", "prepared-sushi-rice") >>)
    @@ (1 :> << Step("press-rice", None) >>)

ShortComponents == {"nori-sheet", "prepared-sushi-rice"}

(***************************************************************************)
(* The rows of a guest and of a player meet only in a claim.  A settled    *)
(* row meets early ones, rows halfway meet each other; pairs of two late   *)
(* rows are left out.                                                      *)
(***************************************************************************)
Revision(s) == IF Live(s) THEN progress[s].revision ELSE 0

NotBothLate == \A g \in Guests, p \in Players : Revision(g) + Revision(p) <= MaxRevision + 2
=============================================================================
