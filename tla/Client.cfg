SPECIFICATION FairSpec
CONSTANTS
    MaxTemplate = 3
    MaxTip = 1
    MaxSessions = 2
    StaleCodes = {"TxDataStale", "TxDataNotFound"}
    MaxDeclared = 1
    MaxPoolJobs = 1
PROPERTIES
    ImplementsReceiver
    ImplementsDeclarator
    WaitingEnds
