CONSTANTS
    Workers = {w1}
    Producers = {p1, p2}
    Keys = {k1}
    NoKey = NoKey
    Tenants = {t1}
    NoTenant = NoTenant
    NoWorker = NoWorker
    MaxRows = 3
    Batch = 2
    MaxAttempts = 2
    NumListeners = 2
    MaxFaults = 0
    MaxOverruns = 0
SPECIFICATION Spec
SYMMETRY Callers
INVARIANT DuplicatesOnlyByOverlap
INVARIANT AnswerIsOwnEvent
PROPERTY ImplementsDelivery
