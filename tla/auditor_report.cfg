SPECIFICATION FairReportSpec
CONSTANTS
    None = None
    TicksPerSecond = 2
    PageSize = 2
    MaxHistory = 4
    Transactions <- SomeTransactions
    Inputs <- SomeInputs
INVARIANTS ReportIsExact
PROPERTY CallReturns
CHECK_DEADLOCK FALSE
