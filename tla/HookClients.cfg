SPECIFICATION Spec
CONSTANTS
    Selectors = {nonce, entry, exec, validate}
    Impls = {impl, other}
    NoHook = NoHook
    Clients = {c1, c2}
    Adding = {impl, other}
    None = None
INVARIANTS TypeOK
PROPERTIES FreshBundleTakesEffect InstalledStays
