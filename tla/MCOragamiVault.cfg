SPECIFICATION Spec
CONSTANTS
    Wallets = {w1}
    NoAccount = NoAccount
    MaxU64 = 6
    MaxTime = 1
    VaultAccount = VaultAccount
    Denominator = 2
    Amounts <- MCAmounts
    NavPrices <- MCNavPrices
    DepositLimits <- MCDepositLimits
    InitialUsdc = 2
    TravelRuleThreshold = 2
    Nonces = {n1}
    SecondsInDay = 1
    DaysPerYear = 1
    BpsWhole = 2
    Allocations <- MCAllocations
    Rates <- MCRates
    MandateShares <- MCMandateShares
    CollateralRatios <- MCCollateralRatios
    YieldAccounts = {usx}
    LinkHashes = {h1, h2}
    GoldUnits <- MCGoldUnits
    MaxAttestationAge = 0
SYMMETRY MCSymmetry
INVARIANTS
    NoProofFailsForMoney
    PreflightHonest
PROPERTIES
    RefinesComponents
    BooksRunDown
