CONSTANTS
    Jobs = {j1, j2}
    MaxShares = 2
    MaxExtra = 1
    MaxFailures = 2
    IdCapacity = 1
SPECIFICATION PathSpec
CHECK_DEADLOCK FALSE
INVARIANTS
    PoolNotBlamedUnlessBurst
    SettledAsAnswered
PROPERTIES
    ShareIsSettled
