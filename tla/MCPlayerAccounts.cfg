SPECIFICATION Spec
CONSTANTS
    Guests = {g1, g2}
    Claims = {c1, c2}
    Accounts = {a1}
    Browsers = {b1}
    NoClaim = NoClaim
    NoSecret = NoSecret
    MaxRevision = 1
    MaxDeliveries = 3
    MaxChallenges = 2
    MaxStored = 3
SYMMETRY Alike
INVARIANTS TypeOK AccountNamesOnePlayer NotStranded ReauthenticationCanRecover NoSessionForgotten
PROPERTIES DeadSecretsStayDead
CHECK_DEADLOCK FALSE
