CONSTANTS
    Recipients = {r1}
    NoRecipient = NoRecipient
    Ticks = {w1, w2}
    NoTick = NoTick
    FailLimit = 2
    WinnerModes = {FALSE}
    MaxFaults = 2
    MaxRequests = 1
    MaxOptOuts = 1
    MaxBlocks = 1
SPECIFICATION Spec
SYMMETRY RowsAlike
CHECK_DEADLOCK FALSE
INVARIANT TypeOK
INVARIANT MailedOnce
INVARIANT SentWasMailed
INVARIANT MeterTellsTruth
PROPERTY UnsubscribedStaysOut
