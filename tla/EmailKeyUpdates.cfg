SPECIFICATION Spec
CONSTANTS
    Emails = {e1, e2}
    Peppers = {p1, p2}
    Digests = {d1, d2}
    Undefined = Undefined
    Masked = Masked
    NoPepper = NoPepper
    MaxRounds = 3
INVARIANTS TypeOK RawKeyHashKept SignatureProvesKey
PROPERTY PreparedKeySigns
