CONSTANTS
    Handlers = {h1, h2}
    Buyers = {b1}
    Sweeper = sweeper
    pro = pro
    Packages = {pro}
    NoPackage = NoPackage
    Intents <- EveryMarket
    MaxOrders = 1
    MaxFaults = 2
    MaxCurrencyChanges = 0
SPECIFICATION FairSpec
INVARIANT TypeOK
INVARIANT StatusFollowsMoney
INVARIANT GrantedOnce
PROPERTY SettlementIsFinal
PROPERTY PaidOrdersArrive
