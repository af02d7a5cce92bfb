SPECIFICATION FairSpec
CONSTANT MaxFaults = 2
INVARIANTS SavedIsOnChain MalloryNeverPaid PaysAgainOnlyBlind
PROPERTY Completes
CHECK_DEADLOCK FALSE
