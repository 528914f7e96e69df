SPECIFICATION WFairSpec
CONSTANTS
    i1 = i1
    h1 = h1
    Ids = {i1}
    Hpas = {h1}
    Owner <- MCOwner
    Works = {"often", "never"}
    Parses = {"often", "never"}
    Compared <- MCCompared
    NoJob = NoJob
    R = R
    Passes = {p1, p2}
    Returning = {}
    SpuriousMiss = TRUE
    MaxTime = 3
    MaxLate = 1
    NextTime <- MCNextTime
    Engine = Engine
INVARIANTS
    WTypeOK
    ScheduledIsAhead
PROPERTIES
    TotalAddsUp
    LateComesBack
