SPECIFICATION ChannelSpec
CONSTANTS
    Miners = {m1, m2}
    Rates = {1, 2}
    Multiplier = 2
    InitialRate = 1
    MaxChanges = 1
    MaxRaises = 1
    StatsCapacity = 1
INVARIANTS
    NominalIsSumUnlessDrifted
    UnsentIsNoticed
    ListedUnlessLeaked
CHECK_DEADLOCK FALSE
