CONSTANTS
    Recipients = {r1}
    NoRecipient = NoRecipient
    Ticks = {w1}
    NoTick = NoTick
    FailLimit = 2
    WinnerModes = {FALSE}
    MaxFaults = 0
    MaxRequests = 1
    MaxOptOuts = 0
    MaxBlocks = 2
SPECIFICATION Spec
CHECK_DEADLOCK FALSE
INVARIANT BlockedTickHeals
