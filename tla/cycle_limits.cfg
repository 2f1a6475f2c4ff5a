SPECIFICATION Spec
CONSTANTS
    Symbols = {s1, s2, s3}
    Sides = {"LONG", "SHORT"}
    MaxStops = 1
    MaxRetries = 1
    MaxPositions = 2
    SyncPeriod = 2
    Faults = {"crash"}
    Events = {}
SYMMETRY SymbolSymmetry
INVARIANTS PositionCap NeverHedged
PROPERTY LivesAsPromised
