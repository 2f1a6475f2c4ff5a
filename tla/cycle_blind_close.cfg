SPECIFICATION Spec
CONSTANTS
    Symbols = {s1}
    Sides = {"LONG"}
    MaxStops = 1
    MaxRetries = 1
    MaxPositions = 1
    SyncPeriod = 2
    Faults = {"account"}
    Events = {}
PROPERTY NoBlindClose
