CONSTANTS
    N = 2
    Light <- MCLight
    Contested <- MCContested
    Modes <- MCModes
    CHUNK = 1
    RETRIES = 2
    Price <- MCPrice
    BUDGET = 3
    SECOND = 1
    MaxTroubles = 1
    MaxBatches = 6
SPECIFICATION RBSpec
CHECK_DEADLOCK FALSE
INVARIANTS NothingDropped UsageCountedOnce

