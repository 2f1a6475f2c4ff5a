SPECIFICATION FairSpec
CONSTANTS
    Processes = {p1, p2}
    NoProcess = NoProcess
    Workers = {}
    MaxRestarts = 2
    Budget = 1
    MaxRecent = 2
    MaxCalls = 1
    Sources = {"disk", "exit", "command", "stopall", "signal"}
PROPERTY BotComesBack
