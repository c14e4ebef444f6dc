SPECIFICATION CrankSpec
CONSTANTS
    Runs = {r1, r2}
    NoPrice = NoPrice
    Quotes <- MCQuotes
    Denominator = 10
    WeightSix = 8
    MinNav = 9
    MaxNav = 11
    MaxNavChange = 1
    CronPeriod = 2
    MinUpdateInterval = 2
    MaxMoves = 2
    MaxRestarts = 1
INVARIANT CrankTypeOK
PROPERTIES
    WritesWithinGuard
    FollowsWithinGuard
