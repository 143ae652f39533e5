SPECIFICATION FairSpec
CONSTANTS
    o1 = o1
    o2 = o2
    Accounts = {a1}
    NoAccount = NoAccount
    Ops = {o1, o2}
    Kind <- TransactionAndMessage
    ChainOf <- BothOther
    Switching = FALSE
    Viewing = TRUE
    Tokens = {t1, t2}
    Disposable = {t1}
    Missing = Missing
    LoggedOut = LoggedOut
    MaxPolls = 2
    MaxForeign = 0
CHECK_DEADLOCK FALSE
INVARIANT TypeOK
PROPERTIES EveryCallEnds StepsRunOut
