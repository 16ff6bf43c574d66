SPECIFICATION Spec
CONSTANTS
    Browsers = {b1}
    ExportIds = {e1, e2}
    ImportIds = {i1, i2}
    NoSecret = NoSecret
    MaxLineages = 3
    MaxPosition = 1
    MaxRevision = 1
    MaxAnswers = 2
SYMMETRY Alike
INVARIANTS TypeOK RotationConverges LostImportRetryable
PROPERTIES DeadSecretsStayDead
CHECK_DEADLOCK FALSE
