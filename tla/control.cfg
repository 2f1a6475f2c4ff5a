SPECIFICATION FairSpec
CONSTANTS
    Wallets = {4}
    MaxCrashes = 1
    MaxOrders = 2
    Orders = {"CLOSEALL", "RESTART"}
    Faults = {"account", "raise", "loss", "drawdown"}
    Cooldown = 1
INVARIANT HaltHolds
PROPERTIES PausedStaysPaused OrdersInOrder EmergencyNeedsReset HaltLifts
