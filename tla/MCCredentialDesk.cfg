SPECIFICATION DeskSpec
CONSTANTS
    Wallets = {w1}
    Nonces <- MCNothing
    DepositAmounts <- MCNothing
    NoAccount = NoAccount
    MaxU64 = 100
    MaxTime = 2
    TravelRuleThreshold = 2
    Slots = {s1, s2}
    MaxLate = 2
SYMMETRY Symmetry
INVARIANTS
    DeskTypeOK
    RegisterBehindChain
    DenialIsFinal
PROPERTY
    ImplementsRecord
CHECK_DEADLOCK FALSE
