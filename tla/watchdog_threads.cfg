SPECIFICATION Spec
CONSTANTS
    Processes = {p1, p2}
    NoProcess = NoProcess
    Workers = {w1, w2}
    MaxRestarts = 1
    Budget = 1
    MaxRecent = 1
    MaxCalls = 1
    Sources = {"exit", "escalation", "change", "review"}
SYMMETRY Symmetry
INVARIANT LockHasOwner
