\* One tab that suffers one failure, whose first guest rotates twice, by time or by a change of the
\* active key, ends and is replaced, with two intents to submit and a terminal second revision.
CONSTANTS
    t1 = t1
    g1 = g1
    g2 = g2
    k1 = k1
    k2 = k2
    body = body
    None = None
    Tabs = {t1}
    Guests = {g1, g2}
    Keys = {k1, k2}
    Body = body
    MaxRevision = 2
    Rotating = {g1}
    MaxSecret = 2
    MaxFailures = 1
    MaxFloating = 0
    Terminal = {2}
    Faults = TRUE
SPECIFICATION FairSpec
PROPERTIES
    IntentsResolve
