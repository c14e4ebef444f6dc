SPECIFICATION LedgerSpec
CONSTANTS
    Wallets = {w1, w2}
    VaultAccount = VaultAccount
    NoAccount = NoAccount
    MaxU64 = 6
    Denominator = 2
    Amounts <- MCAmounts
    NavPrices <- MCNavPrices
    DepositLimits <- MCDepositLimits
    InitialUsdc = 2
SYMMETRY Symmetry
INVARIANTS
    LedgerTypeOK
    BackedDeposits
    SupplyCovered
PROPERTIES
    RoundingFavoursVault
    OnlyRisesCostSolvency
    ImplementsNavPool
