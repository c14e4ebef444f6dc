SPECIFICATION DepositSpec
CONSTANTS
    Wallets = {w1}
    Nonces = {n1}
    DepositAmounts <- MCDepositAmounts
    NoAccount = NoAccount
    MaxU64 = 100
    MaxTime = 0
    TravelRuleThreshold = 2
    Signatures = {t1, t2}
    References = {r1, r2}
    Workers = {b1, b2}
    MaxNav = 1
SYMMETRY Symmetry
INVARIANTS
    DepositTypeOK
PROPERTY
    ImplementsBook
CHECK_DEADLOCK FALSE
