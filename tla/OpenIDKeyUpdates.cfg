SPECIFICATION Spec
CONSTANTS
    Emails = {e1, e2}
    Peppers = {p1}
    Subjects = {s1, s2}
    Digests = {d1, d2}
    Undefined = Undefined
    Masked = Masked
    NoPepper = NoPepper
INVARIANTS TypeOK MailHashKept LoginHashKept SignatureProvesKey
PROPERTY PreparedKeySigns
SYMMETRY KeySymmetry
