CONSTANTS
    Handlers = {h1, h2}
    Buyers = {b1}
    Sweeper = sweeper
    pro = pro
    Packages = {pro}
    NoPackage = NoPackage
    Intents <- GrowthTopUps
    MaxOrders = 2
    MaxFaults = 0
    MaxCurrencyChanges = 0
SPECIFICATION Spec
SYMMETRY CallsAlike
INVARIANT StampedTopUpLanded
