SPECIFICATION FairSpec
CONSTANTS
    c1 = c1
    c2 = c2
    c3 = c3
    ClientOf <- BobUsesRust
    alice = alice
    bob = bob
    LoBase = 2
    MaxAmount = 3
    DecryptMax = 2
    MaxCounter = 1
    Accounts = {alice}
    Ops = {"configure", "deposit", "apply", "withdraw"}
    Amounts = {0, 3, 4}
    Retries = 1
    AutoApprove = FALSE
    Togglers = {alice}
    InitStatus <- FromNothing
    InitPublic <- AlicePublic3
    InitAvailable <- Nothing
    Calls = {c1, c2, c3}
INVARIANTS ResultIsTrue
PROPERTIES CallsReturn
CHECK_DEADLOCK FALSE
