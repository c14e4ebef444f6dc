SPECIFICATION YieldSpec
CONSTANTS
    Wallets = {}
    NoAccount = NoAccount
    MaxU64 = 12
    MaxTime = 11
    SecondsInDay = 2
    DaysPerYear = 2
    BpsWhole = 2
    Allocations <- MCAllocations
    Rates <- MCRates
    Books <- MCBooks
INVARIANTS
    YieldTypeOK
    NoDoubleAccrual
    YieldWithinEarnings
