\* Two concurrent requests of one guest whose secret rotates once.
CONSTANTS
    g1 = g1
    t1 = t1
    t2 = t2
    k1 = k1
    k2 = k2
    b1 = b1
    None = None
    Guests = {g1}
    Players = {}
    Txs = {t1, t2}
    Keys = {k1, k2}
    Bodies = {b1}
    MaxRevision = 2
    MaxSecret = 1
SPECIFICATION Spec
SYMMETRY Interchangeable
INVARIANTS
    LedgerExact
    DecisionStands
PROPERTIES
    ImplementsCommandLog
