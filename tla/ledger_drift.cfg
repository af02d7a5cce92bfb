SPECIFICATION Spec
CONSTANTS
    c1 = c1
    c2 = c2
    ClientOf <- BobUsesRust
    alice = alice
    bob = bob
    LoBase = 2
    MaxAmount = 3
    DecryptMax = 2
    MaxCounter = 2
    Accounts = {alice, bob}
    AutoApprove = TRUE
    Togglers = {}
    InitStatus <- AllConfigured
    InitPublic <- Nothing
    InitAvailable <- BobHolds6
    Ops = {"apply", "transfer"}
    Amounts = {3}
    Retries = 0
    Calls = {c1, c2}
INVARIANT DecryptedBalanceIsAvailable
CHECK_DEADLOCK FALSE
