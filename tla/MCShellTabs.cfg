\* Two tabs of one guest, an intent of each, two lost requests or answers.
CONSTANTS
    t1 = t1
    t2 = t2
    g1 = g1
    k1 = k1
    k2 = k2
    body = body
    None = None
    Tabs = {t1, t2}
    Guests = {g1}
    Keys = {k1, k2}
    Body = body
    MaxRevision = 2
    Rotating = {}
    MaxSecret = 0
    MaxFailures = 2
    MaxFloating = 1
    Terminal = {}
    Faults = FALSE
SPECIFICATION Spec
SYMMETRY Interchangeable
INVARIANTS
    TypeOK
    ViewsAreSaved
    FatesTold
