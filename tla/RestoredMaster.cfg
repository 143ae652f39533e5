SPECIFICATION Spec
CONSTANTS
    master = master
    device = device
    mailbox = mailbox
    contract = contract
    Keysets <- AloneKeysets
    Addresses = {master, device, mailbox, contract}
    Nobody = Nobody
    Messages = {m1}
    Sessions = {s1}
    Times <- Clock
    SessionWeights = {100}
    None = None
    MaxMade = 3
    MaxIssued = 1
INVARIANTS MasterKeySigns

