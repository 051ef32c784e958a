\* Three jobs against two tracked ones and a buffer of one: eviction, late shares and a
\* lagging receiver; two retargets, overlapping or crossing a job.
SPECIFICATION FairSpec
CONSTANTS
    MaxJob = 3
    Diffs = {1, 2}
    InitialDiff = 2
    Tracked = 2
    Buffer = 1
    MaxUpdates = 2
    MaxConfigures = 1
INVARIANTS
    ResolvesToItsJob
    HonestSharesAccepted
    MinerIsCurrentUnlessRaced
    DifficultiesAgree
PROPERTY
    AuthorizedIsServed
CHECK_DEADLOCK FALSE
