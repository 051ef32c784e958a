SPECIFICATION PrioritySpec
CONSTANTS
    Manual = {m}
    Accelerated = {a}
    Requested = {1}
    Fees = {1, 2}
    MaxDelta = 2
    MaxRequests = 2
    MaxFaults = 2
INVARIANTS
    StoresMatchNodeUnlessUnsure
PROPERTIES
    AcceleratedConverges
CHECK_DEADLOCK FALSE
