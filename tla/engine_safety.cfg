SPECIFICATION Spec
CONSTANTS
    Ids = {i1, i2}
    Plans <- TwoPlans
    a = a
    b = b
    c = c
    Callers = {a, b}
    Ops <- EveryOperation
    MaxTime = 4
    Lag = 4
    NextTime <- MCNextTime
INVARIANTS
    TypeOK
    OneLoop
    NoIdleWake
    NeverOversleeps
    NoRelaunch
PROPERTIES
    ImplementsTable
CHECK_DEADLOCK FALSE
