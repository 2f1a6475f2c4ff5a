SPECIFICATION Spec
CONSTANTS
    Symbols = {s1, s2}
    Sides = {"LONG", "SHORT"}
    MaxStops = 1
    MaxRetries = 2
    MaxPositions = 2
    SyncPeriod = 2
    Faults = {"status", "unfilled", "algoQuery", "algoCancel", "crash"}
    Events = {"breakeven", "sigterm"}
SYMMETRY SymbolSymmetry
INVARIANTS ProtectedAtRest StartupAdopts
PROPERTY NoBlindClose
