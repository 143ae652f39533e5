SPECIFICATION Spec
CONSTANTS
    o1 = o1
    o2 = o2
    Accounts = {a1}
    NoAccount = NoAccount
    Ops = {o1, o2}
    Kind <- TwoTransactions
    ChainOf <- BothOther
    Switching = FALSE
    Viewing = FALSE
    Tokens = {t1, t2}
    Disposable = {t1, t2}
    Missing = Missing
    LoggedOut = LoggedOut
    MaxPolls = 0
    MaxForeign = 2
CHECK_DEADLOCK FALSE
INVARIANTS FreshBundleExecutes SignedWasApproved BundleIsOneWallets AnsweredTokenIsGone
SYMMETRY TwoSymmetry
