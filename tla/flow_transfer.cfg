SPECIFICATION Spec
CONSTANTS
    eq = eq
    val = val
    rng = rng
    Proofs <- TransferProofs
    Plan <- HookPlan
    Retries = 1
    BatchSize = 8
    MaxLostCloses = 1
INVARIANTS TypeOK PaysAtMostOnce AnswerIsTrue LeftOpenIsReported
PROPERTY KeepsPromise
CHECK_DEADLOCK FALSE
