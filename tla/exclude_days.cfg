SPECIFICATION Spec
CONSTANTS
    Omitted = Omitted
    Low <- MCLow
    High <- MCHigh
    Horizon <- MCHorizon
    Start <- MCStart
    End <- MCEnd
    Value <- MCValue
    YearSpan = 2
    Froms <- MCFroms
    DateLists <- FewDateLists
INVARIANTS
    OffOnlyThatDay
CHECK_DEADLOCK FALSE
