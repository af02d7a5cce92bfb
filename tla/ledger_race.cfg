SPECIFICATION Spec
CONSTANTS
    c1 = c1
    c2 = c2
    c3 = c3
    ClientOf <- BobUsesRust
    alice = alice
    bob = bob
    LoBase = 2
    MaxAmount = 3
    DecryptMax = 2
    MaxCounter = 2
    Accounts = {alice, bob}
    AutoApprove = TRUE
    Togglers = {}
    InitStatus <- AllConfigured
    InitPublic <- BobPublic6
    InitAvailable <- BothHold
    Ops = {"configure", "deposit", "apply", "transfer", "withdraw"}
    Amounts = {3}
    Retries = 1
    Calls = {c1, c2, c3}
SYMMETRY CallSymmetry
INVARIANTS TypeOK AgreesUnlessRaced ResultIsTrue LowPartDecrypts
PROPERTIES MoneyMovesOnce
CHECK_DEADLOCK FALSE
