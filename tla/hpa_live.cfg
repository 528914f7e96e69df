SPECIFICATION FairSpec
CONSTANTS
    Hpa = "hpa"
    Ids = {i1, i2, i3, i4, i5, i6}
    NoId = NoId
    JobSpecs <- MCJobSpecs
    JobLists <- TwoJobs
    Params = {"web"}
    NoParams = NoParams
    RefOf <- MCRefOf
    ValidParams = {"web"}
    GoodPlans = {"daily", "hourly", "date"}
    NoJob = NoJob
    R = R
    Passes = {}
    Budget <- LiveBudget
    Calm = FALSE
CHECK_DEADLOCK FALSE
PROPERTIES
    EditsTakeEffect
