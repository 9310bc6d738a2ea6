CONSTANTS
    Handlers = {h1}
    Buyers = {b1}
    Sweeper = sweeper
    pro = pro
    Packages = {pro}
    NoPackage = NoPackage
    Intents <- OnePlan
    MaxOrders = 2
    MaxFaults = 1
    MaxCurrencyChanges = 0
SPECIFICATION Spec
INVARIANT StampedSubscriptionLanded
