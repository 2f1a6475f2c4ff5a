SPECIFICATION Spec
CONSTANTS
    Processes = {p1, p2}
    NoProcess = NoProcess
    Workers = {}
    MaxRestarts = 3
    Budget = 1
    MaxRecent = 3
    MaxCalls = 1
    Sources = {"disk"}
INVARIANT OneBot
