\* Two players, three sessions, one account, two links, two credentials.
CONSTANTS
    p1 = p1
    p2 = p2
    s1 = s1
    s2 = s2
    s3 = s3
    Players = {p1, p2}
    Sessions = {s1, s2, s3}
    Accounts = {a}
    Owner <- OwnerOf
    Starts <- FirstLastAndPast
    MaxCoordinate = 5
    MaxLinks = 2
    MaxCredentials = 2
SPECIFICATION Spec
CHECK_DEADLOCK FALSE
INVARIANTS
    TypeOK
    LinkedIsAuthentic
    AnswersStandWhileCurrent
    WritesAdmitted
