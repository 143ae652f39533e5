SPECIFICATION Spec
CONSTANTS
    master = master
    device = device
    mailbox = mailbox
    contract = contract
    Keysets <- AllKeysets
    Addresses = {master, device, mailbox, contract}
    Nobody = Nobody
    Messages = {m1, m2}
    Sessions = {s1}
    Times <- Clock
    SessionWeights = {100}
    None = None
    MaxMade = 2
    MaxIssued = 1
SYMMETRY MessageSymmetry
INVARIANTS TypeOK ValidMeansApproved SignedValidates SigSizeIsExact
PROPERTIES RestoredPermitCounts
