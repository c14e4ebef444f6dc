SPECIFICATION ComplianceSpec
CONSTANTS
    Wallets = {w1, w2}
    Nonces = {n1, n2}
    NoAccount = NoAccount
    MaxU64 = 100
    MaxTime = 2
    TravelRuleThreshold = 2
    DepositAmounts <- MCDepositAmounts
SYMMETRY Symmetry
INVARIANTS
    ComplianceTypeOK
    TravelRuleCovered
PROPERTY LapseIsFinal
CHECK_DEADLOCK FALSE
