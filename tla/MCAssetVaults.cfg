SPECIFICATION AssetSpec
CONSTANTS
    Wallets = {w1}
    NoAccount = NoAccount
    MaxU64 = 6
    MaxTime = 0
    TravelRuleThreshold = 2
    DepositAmounts <- MCDepositAmounts
    Nonces = {n1}
    Assets = {gold, silver, oil}
    MaxAssets = 2
    VaultAccount = VaultAccount
    Denominator = 2
    MaxNavChange = 1
    NavPrices <- MCNavPrices
    DepositLimits <- MCDepositLimits
    ShareAmounts <- MCShareAmounts
    MaxMinted = 4
SYMMETRY AssetSymmetry
INVARIANTS
    AssetTypeOK
    BooksCovered
    RecordsSpentAcrossVaults
PROPERTIES
    ImplementsNavPools
    RoundingFavoursVaults
CHECK_DEADLOCK FALSE
