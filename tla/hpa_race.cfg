SPECIFICATION Spec
CONSTANTS
    Hpa = "hpa"
    Ids = {i1, i2, i3, i4, i5, i6}
    NoId = NoId
    JobSpecs <- MCJobSpecs
    JobLists <- OneJob
    Params = {"web", "api"}
    NoParams = NoParams
    RefOf <- MCRefOf
    ValidParams = {"web", "api"}
    GoodPlans = {"daily", "hourly", "date"}
    NoJob = NoJob
    R = R
    Passes = {}
    Budget <- RaceBudget
    Calm = FALSE
CHECK_DEADLOCK FALSE
INVARIANTS
    TypeOK
    SpecScheduled
    StatusMatchesSpec
PROPERTIES
    NoLostEdit
