CONSTANTS
    Recipients = {r1, r2}
    NoRecipient = NoRecipient
    Ticks = {w1}
    NoTick = NoTick
    FailLimit = 1
    WinnerModes = {TRUE, FALSE}
    MaxFaults = 1
    MaxRequests = 2
    MaxOptOuts = 0
    MaxBlocks = 0
SPECIFICATION Spec
SYMMETRY RowsAlike
CHECK_DEADLOCK FALSE
 
INVARIANT ScheduledIsBooked
INVARIANT SentIsDone
