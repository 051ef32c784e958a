SPECIFICATION ObserverSpec
CONSTANTS
    TemplateIds = {t1}
    JobIds = {j1}
    Pairs = {rsk}
    RskPairs = {rsk}
    Chains = {c1, c2}
    Coinbases = {cb}
    TxCounts = {n1, n2}
    None = none
    MaxTemplates = 1
    MaxJobs = 1
    MaxAnnouncements = 1
    MaxId = 3
    Shares = {s1, s2}
    ProofShares = {s1}
    CoherentCounts = {n1}
    MaxObserved = 3
    MaxPendingShares = 1
    MaxEarlyShares = 1
    MaxFoundJobs = 1
    MaxDedup = 1
INVARIANTS
    FoundOnceUnlessForgotten
PROPERTIES
    EarlyIsRetried
CHECK_DEADLOCK FALSE
