SPECIFICATION FairSpec
CONSTANTS
    Keygens = {k1, k2}
    Signs = {s1}
    OneTime = {k1, s1}
    plain = plain
    spelled = spelled
    broken = broken
    Passwords <- AllPasswords
    Nfkc <- OneForm
    Malformed = {broken}
    None = None
    MaxAttempts = 2
CHECK_DEADLOCK FALSE
INVARIANTS TypeOK ReturnedKeyIsFinished OneKeyPerToken
PROPERTIES EveryCallEnds StepsRunOut KeepsKeyPromise
