--------------------------- MODULE MCAccountLayer ---------------------------
(* Keysets for the runs of AccountLayer: two keys that own the wallet only    *)
(* together and guard it together or one by one; and one key that owns it     *)
(* alone beside a guardian.                                                   *)
EXTENDS AccountLayer

Key(owner, guardian) == [owner |-> owner, guardian |-> guardian]

Together == <<Key(60, 50), Key(40, 50)>>
Alone    == <<Key(100, 0)>>
TwoKeysets == {Together, Alone}
OneDelay == {1}

Change(kind, keyset, delay, impl) ==
    [kind |-> kind, keyset |-> keyset, delay |-> delay, impl |-> impl]

OneOfEach == {
    Change("UpdateKeysetHash", Alone, None, None),
    Change("UpdateKeysetHashWithTimeLock", Alone, None, None),
    Change("UnlockKeysetHash", None, None, None),
    Change("CancelLockKeysetHash", None, None, None),
    Change("UpdateTimeLockDuring", None, 1, None),
    Change("UpdateImplementation", None, None, CHOOSE i \in Impls : TRUE),
    Change("SyncAccount", Alone, 1, CHOOSE i \in Impls : TRUE)}

=============================================================================
