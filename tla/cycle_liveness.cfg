SPECIFICATION FairSpec
CONSTANTS
    Symbols = {s1}
    Sides = {"LONG"}
    MaxStops = 1
    MaxRetries = 2
    MaxPositions = 1
    SyncPeriod = 2
    Faults = {"account", "order", "reply", "ack", "rest", "unfilled", "status", "algo", "database"}
    Events = {"wallet", "dca", "drawdown", "breakeven", "close", "closeall", "pause", "sigterm"}
INVARIANTS BreakevenHonoured OneOpenRowPerKey
PROPERTIES OrphanAdopted GhostCleared StopRestored
