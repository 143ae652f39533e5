SPECIFICATION Spec
CONSTANTS
    o1 = o1
    o2 = o2
    Accounts = {a1, a2}
    NoAccount = NoAccount
    Ops = {o1, o2}
    Kind <- TwoTransactions
    ChainOf <- OtherAndPolygon
    Switching = TRUE
    Viewing = FALSE
    Tokens = {}
    Disposable = {}
    Missing = Missing
    LoggedOut = LoggedOut
    MaxPolls = 1
    MaxForeign = 0
CHECK_DEADLOCK FALSE
INVARIANT SignedWasApproved
