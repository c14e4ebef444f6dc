SPECIFICATION OnboardSpec
CONSTANTS
    w1 = w1
    Wallets <- MCWallets
    Me = w1
    Nonces <- MCNothing
    DepositAmounts <- MCNothing
    NoAccount = NoAccount
    MaxU64 = 100
    MaxTime = 1
    TravelRuleThreshold = 2
    Slots = {s1}
    NoSlot = NoSlot
    MaxLate = 1
    MaxReloads = 1
INVARIANT OnboardTypeOK
PROPERTY OnboardingCompletes
CHECK_DEADLOCK FALSE
