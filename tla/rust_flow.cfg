SPECIFICATION FairSpec
CONSTANTS
    eq = eq
    val = val
    rng = rng
    Settings <- AllSettings
    MaxRetries = 1
INVARIANTS ErrorNamesOpenAccounts ErrorLeavesNoneVerified
PROPERTIES KeepsPromise CallReturns RecoveryCloses
CHECK_DEADLOCK FALSE
