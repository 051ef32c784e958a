\* Two chain states and two counts, so that a second answer could overwrite the
\* first; histories shorter than the identifiers issued, so that they overflow.
SPECIFICATION Spec
CONSTANTS
    t1 = t1  t2 = t2
    j1 = j1
    rsk = rsk  other = other
    c1 = c1  c2 = c2
    cb = cb
    n1 = n1  n2 = n2
    TemplateIds = {t1, t2}
    JobIds = {j1}
    Pairs = {rsk, other}
    RskPairs = {rsk}
    Chains = {c1, c2}
    Coinbases = {cb}
    TxCounts = {n1, n2}
    None = None
    MaxTemplates = 1
    MaxJobs = 2
    MaxAnnouncements = 1
    MaxId = 4
SYMMETRY Symmetry
INVARIANTS
    ContextIntegrity
    BoundedHistory
PROPERTIES
    ProtectedKept
    ImmutableContext
