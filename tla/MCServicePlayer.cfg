\* Two fair requests that contend for one player whose session rotates once.
CONSTANTS
    p1 = p1
    t1 = t1
    t2 = t2
    k1 = k1
    b1 = b1
    None = None
    Guests = {}
    Players = {p1}
    Txs = {t1, t2}
    Keys = {k1}
    Bodies = {b1}
    MaxRevision = 2
    MaxSecret = 1
SPECIFICATION FairSpec
PROPERTIES
    AnsweredUnderAuthority
    EveryRequestEnds
