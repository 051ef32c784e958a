\* One tick is five minutes; the first connection may bring another token.
SPECIFICATION SummarySpec
CONSTANTS
    Connections = {c1, c2}
    Names = {w, blank}
    Blank = blank
    Tokens = {t1, t2}
    ConfigToken = t1
    Interval = 1
    Window = 1
    Retention = 1
    Timeout = 2
INVARIANTS
    SessionsAreCounted
    HashingIsRegistered
