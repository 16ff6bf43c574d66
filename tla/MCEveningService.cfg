\* A guest plays and is claimed into a player, who plays on; fourteen commands are one evening.
CONSTANTS
    g1 = g1
    p1 = p1
    None = None
    Sashimi = Sashimi
    Guests = {g1}
    Players = {p1}
    NumOrders = 2
    Steps <- ShortSteps
    MaxSteps = 2
    Components <- ShortComponents
    RiceBeats = 1
    Presentations = {"indigo-rim"}
    Restorations = {"mend-counter-stool"}
    MaxRevision = 14
    MaxGeneration = 1
SPECIFICATION Spec
CONSTRAINT NotBothLate
INVARIANTS
    TypeOK
    RowsSound
    PromptIsExact
    AdmittedCommandsCommit
    NoStepSkipped
PROPERTIES
    EarnedFactsSurvive
    ComponentsOnlyConsumed
