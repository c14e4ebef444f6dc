SPECIFICATION ReserveSpec
CONSTANTS
    Wallets = {}
    NoAccount = NoAccount
    MaxU64 = 10
    MaxTime = 3
    BpsWhole = 2
    MandateShares <- MCMandateShares
    CollateralRatios <- MCCollateralRatios
    YieldAccounts = {usx, eusx}
    LinkHashes = {h1, h2}
    GoldUnits <- MCGoldUnits
    MaxAttestationAge = 1
INVARIANTS
    ReserveTypeOK
    MismatchMeansRefresh
