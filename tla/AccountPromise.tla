---------------------------- MODULE AccountPromise ----------------------------
(***************************************************************************)
(* What the account layer of a wallet promises: who may change what         *)
(* controls the wallet (the keyset in force, the keyset waiting behind the  *)
(* time lock, the length of the lock, the implementation).                  *)
(*  - a change takes effect only with an agreement to it by keys of the     *)
(*    keyset in force whose weight is enough for its kind;                  *)
(*  - an agreement brings about one change, and is then used up;            *)
(*  - without a new agreement only a locked keyset comes into force, when   *)
(*    its lock is due.                                                      *)
(* How agreements are collected and carried to the contract is left out.    *)
(* An agreement names the action type of the change and not the operation:  *)
(* the two operations that replace the keyset have the same type.           *)
(***************************************************************************)
EXTENDS Integers, Sequences

CONSTANTS
    Keysets, \* the weights [owner, guardian] of the keys of each keyset
    Delays,  \* the lengths a lock can have
    Impls,   \* implementations of the wallet contract
    None

VARIABLES
    control, \* [keyset, lock, delay, impl] of the wallet
    granted, \* the agreements of key holders so far
    used,    \* the agreements that have brought about a change
    now      \* the chain's clock

vars == <<control, granted, used, now>>

-----------------------------------------------------------------------------
\* The account-layer operations of the wallet contract.
Kinds == {"UpdateKeysetHash", "UpdateKeysetHashWithTimeLock", "UnlockKeysetHash",
          "CancelLockKeysetHash", "UpdateTimeLockDuring", "UpdateImplementation",
          "SyncAccount"}

AccountLayerActionType ==
    [k \in Kinds |->
        CASE k = "UnlockKeysetHash"     -> 1
          [] k = "CancelLockKeysetHash" -> 2
          [] k = "UpdateTimeLockDuring" -> 3
          [] k = "UpdateImplementation" -> 4
          [] k = "SyncAccount"          -> 6
          [] OTHER                      -> 0]

\* The changes of each operation with its arguments; None for an argument that
\* the operation does not have.
Updates == [kind : {"UpdateKeysetHash"}, keyset : Keysets, delay : {None}, impl : {None}]
LockedUpdates == [kind : {"UpdateKeysetHashWithTimeLock"}, keyset : Keysets,
                  delay : {None}, impl : {None}]
Unlocks == [kind : {"UnlockKeysetHash"}, keyset : {None}, delay : {None}, impl : {None}]
Cancels == [kind : {"CancelLockKeysetHash"}, keyset : {None}, delay : {None}, impl : {None}]
NewDelays == [kind : {"UpdateTimeLockDuring"}, keyset : {None}, delay : Delays,
              impl : {None}]
NewImpls == [kind : {"UpdateImplementation"}, keyset : {None}, delay : {None},
             impl : Impls]
Syncs == [kind : {"SyncAccount"}, keyset : Keysets, delay : Delays, impl : Impls]

Changes == UNION {Updates, LockedUpdates, Unlocks, Cancels, NewDelays, NewImpls, Syncs}

Locks == [keyset : Keysets, until : Nat]
Controls == [keyset : Keysets, lock : Locks \cup {None}, delay : Delays, impl : Impls]

\* The weight of the keys at the places S.
Weight(w, S) ==
    LET upTo[i \in 0..Len(w)] ==
            IF i = 0 THEN 0 ELSE upTo[i-1] + (IF i \in S THEN w[i] ELSE 0)
    IN  upTo[Len(w)]

OwnerWeight(ks, S) == Weight([i \in 1..Len(ks) |-> ks[i].owner], S)
GuardianWeight(ks, S) == Weight([i \in 1..Len(ks) |-> ks[i].guardian], S)

\* The weight the contract asks for.
Enough(kind, ks, S) ==
    CASE kind = "UpdateKeysetHash" ->
            OwnerWeight(ks, S) >= 100 \/ GuardianWeight(ks, S) >= 100
      [] kind = "UpdateKeysetHashWithTimeLock" -> GuardianWeight(ks, S) >= 50
      [] kind = "CancelLockKeysetHash" -> OwnerWeight(ks, S) >= 1
      [] OTHER -> OwnerWeight(ks, S) >= 100

\* g is an agreement to the change c.
AgreesTo(g, c) ==
    /\ g.action = AccountLayerActionType[c.kind]
    /\ g.keyset = c.keyset /\ g.delay = c.delay /\ g.impl = c.impl

\* What a change makes of the wallet.  Whether a direct update drops a pending
\* lock is the contract's affair.
Outcomes(c, change) ==
    CASE change.kind = "UpdateKeysetHash" ->
            {[c EXCEPT !.keyset = change.keyset, !.lock = l] : l \in {c.lock, None}}
      [] change.kind = "UpdateKeysetHashWithTimeLock" ->
            {[c EXCEPT !.lock = [keyset |-> change.keyset, until |-> now + c.delay]]}
      [] change.kind = "CancelLockKeysetHash" -> {[c EXCEPT !.lock = None]}
      [] change.kind = "UpdateTimeLockDuring" -> {[c EXCEPT !.delay = change.delay]}
      [] change.kind = "UpdateImplementation" -> {[c EXCEPT !.impl = change.impl]}
      [] change.kind = "SyncAccount" ->
            {[keyset |-> change.keyset, lock |-> l, delay |-> change.delay,
              impl |-> change.impl] : l \in {c.lock, None}}

Due(c) == c.lock # None /\ now >= c.lock.until
Unlocked(c) == [c EXCEPT !.keyset = c.lock.keyset, !.lock = None]

-----------------------------------------------------------------------------
Init ==
    /\ control \in [keyset : Keysets, lock : {None}, delay : Delays, impl : Impls]
    /\ granted = {} /\ used = {} /\ now = 0

\* Key holders agree to something.
Grant ==
    /\ granted \subseteq granted'
    /\ UNCHANGED <<control, used, now>>

\* The agreement s, made by keys of the keyset in force, brings about c.
Apply(s, c) ==
    /\ s.keyset = control.keyset
    /\ AgreesTo(s.digest, c)
    /\ c.kind # "UnlockKeysetHash" /\ Enough(c.kind, s.keyset, s.signers)
    /\ control' \in Outcomes(control, c)
    /\ used' = used \cup {s}
    /\ UNCHANGED <<granted, now>>

Unlock ==
    /\ Due(control)
    /\ control' = Unlocked(control)
    /\ UNCHANGED <<granted, used, now>>

Wait ==
    /\ now' = now + 1
    /\ UNCHANGED <<control, granted, used>>

Next ==
    \/ Grant
    \/ \E s \in granted \ used, c \in Changes : Apply(s, c)
    \/ Unlock
    \/ Wait

Spec == Init /\ [][Next]_vars
=============================================================================
