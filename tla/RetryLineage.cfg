\* The lineage trigger keeps an independent retry from ever being included.
CONSTANTS
    f = f
    g = g
    w1 = w1
    NoFork = NoFork
    Forks = {f, g}
    Workers = {w1}
    MaxLevel = 2
    MaxSeq = 2
    MaxAttempts = 2
    MaxClaims = 2
    MaxHistory = 2
    MaxFailures = 2
    MaxRevision = 8
SPECIFICATION Spec
CHECK_DEADLOCK FALSE
INVARIANT SubmittedCanBeIncluded
