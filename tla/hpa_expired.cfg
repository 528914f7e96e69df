SPECIFICATION Spec
CONSTANTS
    Hpa = "hpa"
    Ids = {i1, i2, i3, i4}
    NoId = NoId
    JobSpecs <- MCJobSpecs
    JobLists <- OneJob
    Params = {"web"}
    NoParams = NoParams
    RefOf <- MCRefOf
    ValidParams = {"web"}
    GoodPlans = {"daily", "hourly", "date"}
    NoJob = NoJob
    R = R
    Passes = {}
    Budget <- EditBudget
    Calm = FALSE
CHECK_DEADLOCK FALSE
INVARIANTS
    ExpiredDeleted
