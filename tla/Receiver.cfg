SPECIFICATION FairSpec
CONSTANTS
    MaxTemplate = 5
    MaxTip = 3
    MaxSessions = 2
    StaleCodes = {"TxDataStale", "TxDataNotFound"}
INVARIANTS
    NeverWaitsOnItself
    WorkOnItsTip
    PendingIsBacked
PROPERTIES
    RequestEndsUnlessIgnored
