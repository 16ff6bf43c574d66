SPECIFICATION Spec
CONSTANTS
    Guests = {g1}
    Claims = {c1}
    Accounts = {a1}
    Browsers = {b1}
    NoClaim = NoClaim
    NoSecret = NoSecret
    MaxRevision = 1
    MaxDeliveries = 1
    MaxChallenges = 1
    MaxStored = 2
PROPERTY ExpiryCleanupRemoves
CHECK_DEADLOCK FALSE
