SPECIFICATION Spec
CONSTANTS
    Processes = {p1, p2}
    NoProcess = NoProcess
    Workers = {}
    MaxRestarts = 3
    Budget = 1
    MaxRecent = 4
    MaxCalls = 1
    Sources = {"command", "exit"}
INVARIANT NoRestartStorm
