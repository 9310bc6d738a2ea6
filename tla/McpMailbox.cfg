CONSTANTS
    Callers = {c1, c2}
    NoCaller = NoCaller
    Assistants = {a1, a2}
    Requests = {r1}
    NoRequest = NoRequest
    Tools = {u1}
    NoTool = NoTool
    MaxTasks = 2
    MaxLeases = 2
    Capacity = 2
    MaxFaults = 1
    MaxChanges = 1
SPECIFICATION Spec
SYMMETRY CallsAlike
INVARIANT TypeOK
INVARIANT JournalTellsTruth
INVARIANT UnresolvedIsNewest
INVARIANT OneLiveTask
PROPERTY AnswerFromHolder
PROPERTY AnswerIsFinal
PROPERTY ImplementsAtMostOnce
