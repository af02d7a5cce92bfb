SPECIFICATION FairSpec
CONSTANTS
    Programs <- MCPrograms
    Lists <- MCLists
    Data = {"x", "y"}
    DataAccounts <- MCDataAccounts
    MaxChanges = 2
INVARIANTS ExactUnlessChanged OneHook
PROPERTY CallReturns
CHECK_DEADLOCK FALSE
