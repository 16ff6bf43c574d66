\* Two events of at most two attempts each, claimed in batches by workers that may forget them.
CONSTANTS
    e1 = e1
    e2 = e2
    c1 = c1
    c2 = c2
    c3 = c3
    c4 = c4
    None = None
    Events = {e1, e2}
    Tokens = {c1, c2, c3, c4}
    MaxAttempts = 2
    Limit = 2
SPECIFICATION FairSpec
CHECK_DEADLOCK FALSE
INVARIANTS
    TypeOK
    AttemptsAccounted
PROPERTIES
    SettledOnce
    EventuallySettled
