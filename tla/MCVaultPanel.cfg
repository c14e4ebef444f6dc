SPECIFICATION PanelSpec
CONSTANTS
    w1 = w1
    Wallets <- MCWallets
    Me = w1
    VaultAccount = VaultAccount
    NoAccount = NoAccount
    MaxU64 = 6
    Denominator = 1
    Amounts <- MCAmounts
    NavPrices <- MCNavPrices
    DepositLimits <- MCDepositLimits
    InitialUsdc = 1
    Handlers = {h1, h2}
    NoHandler = NoHandler
    Polls = {p1, p2}
INVARIANTS
    PanelTypeOK
    BannerIsOwn
PROPERTIES
    FormComesBack
    PauseIsSeen
CHECK_DEADLOCK FALSE
