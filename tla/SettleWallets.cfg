CONSTANTS
    Handlers = {h1}
    Buyers = {b1}
    Sweeper = sweeper
    pro = pro
    Packages = {pro}
    NoPackage = NoPackage
    Intents <- Wallets
    MaxOrders = 2
    MaxFaults = 1
    MaxCurrencyChanges = 1
SPECIFICATION SweptSpec
INVARIANT StampedCreditsLanded
INVARIANT OneCurrency
PROPERTY SucceededIsStamped
