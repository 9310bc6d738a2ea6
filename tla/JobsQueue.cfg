CONSTANTS
    t1 = t1
    c1 = c1
    k1 = k1
    Ticks = {t1}
    NoTick = NoTick
    Callers = {c1}
    Keys = {k1}
    NoKey = NoKey
    MaxRows = 2
    MaxRequests = 3
    Batch = 2
    MaxAttempts = 2
    MaxEvents = 1
SPECIFICATION FairSpec
INVARIANT TypeOK
INVARIANT OnePendingPerKey
INVARIANT HeldJobsCurrent
INVARIANT NewestKept
PROPERTY EventuallySettled
