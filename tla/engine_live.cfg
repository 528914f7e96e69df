SPECIFICATION FairSpec
CONSTANTS
    Ids = {i1, i2}
    Plans <- TwoPlans
    a = a
    b = b
    c = c
    Callers = {a, b, c}
    Ops <- TwoListers
    MaxTime = 3
    Lag = 1
    NextTime <- MCNextTime
INVARIANTS
    Handoff
    SleepsUntilDue
PROPERTIES
    SnapshotFaithful
    CallsReturn
    ActivationsHappen
