SPECIFICATION ThrottleSpec
CONSTANTS
    Attempts = {p1, p2, p3, p4}
    NoTicket = NoTicket
    Accounts = {a1, a2, a3}
    MaxFailuresPerAccount = 2
    AccountWindow = 3
    MaxFailuresGlobal = 3
    GlobalWindow = 3
    MaxTrackedAccounts = 2
    TicksPerSecond = 2
    MaxTime = 5
INVARIANTS
    BudgetsHold
    RetryAfterSuffices
SYMMETRY SignInSymmetry
CHECK_DEADLOCK FALSE
