SPECIFICATION Spec
CONSTANTS
    Keysets <- TwoKeysets
    Delays <- OneDelay
    Impls = {i1}
    None = None
    Builders = {b1, b2}
    Shared = {b2}
    Wanted <- OneOfEach
    Nonces = {1, 2}
    MaxGrants = 2
    MaxTime = 1
CHECK_DEADLOCK FALSE
INVARIANTS TypeOK FreshTxIsAccepted
PROPERTY KeepsAccountPromise
