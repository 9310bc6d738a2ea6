CONSTANTS
    Workers = {w1, w2}
    Producers = {p1}
    Keys = {}
    NoKey = NoKey
    Tenants = {}
    NoTenant = NoTenant
    NoWorker = NoWorker
    MaxRows = 1
    Batch = 1
    MaxAttempts = 2
    NumListeners = 1
    MaxFaults = 0
    MaxOverruns = 1
SPECIFICATION Spec
PROPERTY OnlyOwnerSettles
