SPECIFICATION PipeSpec
CONSTANTS
    TemplateIds = {t1}
    JobIds = {1, 2, 3}
    Pairs = {rsk}
    RskPairs = {rsk}
    Chains = {c1}
    Coinbases = {cb}
    TxCounts = {n1}
    None = none
    MaxTemplates = 1
    MaxJobs = 2
    MaxAnnouncements = 2
    MaxId = 5
    MaxPublished = 3
    MaxBlocks = 2
    MaxSessions = 2
    WorkCapacity = 1
INVARIANTS
    PendingIsQueued
    BindingIsItsJobUnlessStale
PROPERTIES
    ImplementsFeed
    MinersReachTip
CHECK_DEADLOCK FALSE
