SPECIFICATION Spec
CONSTANTS
    Jobs = {"up", "down", "plain"}
    Size <- Sizes
    Through = {"up", "down"}
    Runs = {r1, r2}
    Nobody = Nobody
    MaxSize = 2
    maxRetryTimeout = 1
    updateRetryInterval = 1
SYMMETRY RunSymmetry
INVARIANTS
    TypeOK
    AttemptsPaced
    FloorHolds
PROPERTIES
    BoundsFollow
