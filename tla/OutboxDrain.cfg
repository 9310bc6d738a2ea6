CONSTANTS
    Workers = {w1, w2}
    Producers = {p1}
    Keys = {}
    NoKey = NoKey
    Tenants = {}
    NoTenant = NoTenant
    NoWorker = NoWorker
    MaxRows = 2
    Batch = 2
    MaxAttempts = 2
    NumListeners = 1
    MaxFaults = 1
    MaxOverruns = 1
SPECIFICATION FairSpec
INVARIANT TypeOK
INVARIANT SettledWasHeard
INVARIANT RedeliveryHasCause
INVARIANT ClaimIsExclusive
INVARIANT DlqOnlyAtCap
PROPERTY SettledIsFinal
PROPERTY OwnerSettlesInWindow
PROPERTY EveryEventSettles
PROPERTY ImplementsFairDelivery
