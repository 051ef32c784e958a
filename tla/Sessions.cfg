\* Two pools, so that a session may move to another one.
SPECIFICATION FairSpec
CONSTANTS
    Pools = {p1, p2}
    Fields = {"pool", "tp", "translator"}
    CheckLatency = TRUE
    None = None
    MaxReporting = 2
INVARIANTS
    OneRetry
    DegradedIsTemporary
PROPERTIES
    ReportRestartsUnlessStuck
    ShutdownStops
CHECK_DEADLOCK FALSE
