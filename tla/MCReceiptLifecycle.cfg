\* Two workers, three attempts, two levels on two forks.
CONSTANTS
    f = f
    g = g
    w1 = w1
    w2 = w2
    NoFork = NoFork
    Forks = {f, g}
    Workers = {w1, w2}
    MaxLevel = 2
    MaxSeq = 2
    MaxAttempts = 3
    MaxClaims = 3
    MaxHistory = 3
    MaxFailures = 2
    MaxRevision = 8
SPECIFICATION Spec
CHECK_DEADLOCK FALSE
SYMMETRY Alike
INVARIANTS
    TypeOK
    OneLiveAttempt
    ProjectionsAgree
    NoAttemptForgotten
PROPERTIES
    FinalityStands
    LeaseProtects
