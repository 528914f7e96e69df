SPECIFICATION FairSpec
CONSTANTS
    i1 = i1
    h1 = h1
    h2 = h2
    Ids = {i1}
    Hpas = {h1, h2}
    Owner <- MCOwner
    Works <- MCWorks
    Parses <- MCParses
    Compared <- MCCompared
    NoJob = NoJob
    R = R
    Passes = {p1, p2}
    Returning = {h2}
    SpuriousMiss = TRUE
INVARIANTS
    TypeOK
    TrackedIsScheduled
PROPERTIES
    TrackedGetsScheduled
    AbandonedIsDropped
    CollectsOnlyAbandoned
