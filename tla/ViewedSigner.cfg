SPECIFICATION Spec
CONSTANTS
    o1 = o1
    o2 = o2
    Accounts = {a1}
    NoAccount = NoAccount
    Ops = {o1}
    Kind <- AloneKind
    ChainOf <- AloneOther
    Switching = FALSE
    Viewing = TRUE
    Tokens = {t1}
    Disposable = {t1}
    Missing = Missing
    LoggedOut = LoggedOut
    MaxPolls = 1
    MaxForeign = 0
CHECK_DEADLOCK FALSE
INVARIANT ApprovedCallHasItsSigner
