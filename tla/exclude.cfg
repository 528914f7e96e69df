SPECIFICATION FairSpec
CONSTANTS
    Omitted = Omitted
    Low <- MCLow
    High <- MCHigh
    Horizon <- MCHorizon
    Start <- MCStart
    End <- MCEnd
    Value <- MCValue
    YearSpan = 2
    Froms <- MCFroms
    DateLists <- MCDateLists
INVARIANTS
    TypeOK
    FindsNext
    NamedDayIsOff
    OffOnlyInNamedHour
PROPERTY
    SearchEnds
CHECK_DEADLOCK FALSE
