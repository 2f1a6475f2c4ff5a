SPECIFICATION Spec
CONSTANTS
    Wallets = {4}
    MaxCrashes = 0
    MaxOrders = 1
    Orders = {"CLOSEALL"}
    Faults = {}
    Cooldown = 1
INVARIANTS NoOrderLost
