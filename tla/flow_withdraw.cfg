SPECIFICATION FairSpec
CONSTANTS
    eq = eq
    val = val
    rng = rng
    Proofs <- WithdrawProofs
    Plan <- WithdrawPlan
    Retries = 1
    BatchSize = 8
    MaxLostCloses = 1
INVARIANT CleanedUpMeansNotPaid
PROPERTIES CallReturns RecoveryCloses
CHECK_DEADLOCK FALSE
