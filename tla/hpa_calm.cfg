SPECIFICATION Spec
CONSTANTS
    Hpa = "hpa"
    Ids = {i1, i2, i3, i4, i5}
    NoId = NoId
    JobSpecs <- MCJobSpecs
    JobLists <- CalmJobs
    Params = {"web", "web but fridays", "nameless"}
    NoParams = NoParams
    RefOf <- MCRefOf
    ValidParams = {"web", "web but fridays"}
    GoodPlans = {"daily", "hourly", "date"}
    NoJob = NoJob
    R = R
    Passes = {p1}
    Budget <- CalmBudget
    Calm = TRUE
CHECK_DEADLOCK FALSE
INVARIANTS
    NoOrphan
    NamedIsScheduled
    RecreatedOnGlobalChange
    
