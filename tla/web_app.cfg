SPECIFICATION FairSpec
CONSTANTS
    w1 = w1
    w2 = w2
    m1 = m1
    m2 = m2
    Wallets = {w1, w2}
    Mints = {m1, m2}
    DecimalsOf <- SixAndNine
    Callers = {"init", "app"}
    MaxFailures = 2
INVARIANTS OneLoadForAll KeysAreTheOwners OneMintPerCall
PROPERTY RunEnds
