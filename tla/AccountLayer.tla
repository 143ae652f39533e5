----------------------------- MODULE AccountLayer -----------------------------
(***************************************************************************)
(* The builders of account-layer transactions (transaction-builders/src):   *)
(* a builder is made for one change of the wallet and one meta nonce, lets  *)
(* the keys of a wallet object sign it, and builds the transaction that is  *)
(* sent.  The wallet contract, the key holders and the clock are external.  *)
(* The wallet objects may be those of the provider, whose keyset is         *)
(* overwritten in place while a builder waits for its keys.                 *)
(***************************************************************************)
EXTENDS Integers, Sequences, FiniteSets

CONSTANTS
    Keysets, Delays, Impls, None, \* see AccountPromise
    Builders,  \* the builder objects of the applications
    Shared,    \* those that sign with a wallet object of the provider
    Wanted,    \* the changes applications ask for
    Nonces,    \* the meta nonces they give
    MaxGrants, \* bound on the signatures made
    MaxTime    \* bound on the chain's clock

VARIABLES
    builder,   \* the builder object, or None
    call,      \* its generateSignature under way, or None
    granted,   \* the signatures made by key holders
    txs,       \* the transactions sent
    control,   \* what controls the wallet, on the chain
    metaNonce, \* the wallet's meta nonce, on the chain
    used,      \* the signatures of executed transactions
    now        \* the chain's clock

vars == <<builder, call, granted, txs, control, metaNonce, used, now>>
client == <<builder, call, granted, txs>>
world == <<control, metaNonce, used, now>>

P == INSTANCE AccountPromise

ASSUME LayerAssumption ==
    /\ Keysets \subseteq Seq([owner : Nat, guardian : Nat])
    /\ Delays \subseteq Nat
    /\ Shared \subseteq Builders
    /\ Wanted \subseteq P!Changes
    /\ Nonces \subseteq Nat

-----------------------------------------------------------------------------
\* Mutants.
DigestWithoutNonce(c, n) ==
    [action |-> P!AccountLayerActionType[c.kind], nonce |-> 0,
     keyset |-> c.keyset, delay |-> c.delay, impl |-> c.impl]

ValidateRoleWeightAlike(kind, ks, S) ==
    CASE kind \in {"UpdateKeysetHash", "UpdateKeysetHashWithTimeLock"} ->
            P!OwnerWeight(ks, S) >= 100 \/ P!GuardianWeight(ks, S) >= 100
      [] kind = "CancelLockKeysetHash" -> P!OwnerWeight(ks, S) >= 1
      [] OTHER -> P!OwnerWeight(ks, S) >= 100

SendUnsigned(b) ==
    /\ builder[b] # None
    /\ txs' = txs \cup {builder[b]}
    /\ UNCHANGED <<builder, call, granted, world>>

-----------------------------------------------------------------------------
\* What is signed: the action type, the meta nonce and the arguments.
Digest(c, n) ==
    [action |-> P!AccountLayerActionType[c.kind], nonce |-> n,
     keyset |-> c.keyset, delay |-> c.delay, impl |-> c.impl]

Digests == {Digest(c, n) : c \in Wanted, n \in Nonces}

\* A signature says which keys of which keyset made it.
Signatures == [digest : Digests, keyset : Keysets, signers : SUBSET Nat]

Objects == [change : Wanted, nonce : Nonces, sig : Signatures \cup {None},
            own : BOOLEAN]

\* What the keys have signed, and the keyset of the wallet object since then.
Calls == [wallet : Keysets, sig : Signatures]

Signable(b) == builder[b].change.kind # "UnlockKeysetHash"

\* The weights each class asks for.
ValidateRoleWeight(kind, ks, S) ==
    CASE kind = "UpdateKeysetHash" ->
            P!OwnerWeight(ks, S) >= 100 \/ P!GuardianWeight(ks, S) >= 100
      [] kind = "UpdateKeysetHashWithTimeLock" -> P!GuardianWeight(ks, S) >= 50
      [] kind = "UnlockKeysetHash" -> TRUE
      [] kind = "CancelLockKeysetHash" -> P!OwnerWeight(ks, S) >= 1
      [] OTHER -> P!OwnerWeight(ks, S) >= 100

-----------------------------------------------------------------------------
Init ==
    /\ builder = [b \in Builders |-> None]
    /\ call = [b \in Builders |-> None]
    /\ granted = {} /\ txs = {} /\ metaNonce = 0
    /\ used = {} /\ now = 0
    /\ control \in [keyset : Keysets, lock : {None}, delay : Delays, impl : Impls]

\* The constructors.  All but UnlockKeysetHash take a signature that was kept.
New(b, c, n, s) ==
    /\ builder[b] = None
    /\ s \in granted \cup {None}
    /\ c.kind = "UnlockKeysetHash" => s = None
    /\ builder' = [builder EXCEPT ![b] =
                       [change |-> c, nonce |-> n, sig |-> s, own |-> FALSE]]
    /\ UNCHANGED <<call, granted, txs, world>>

\* generateSignature until every key asked has signed: the digest and the keys
\* are those of the moment after preGenerateSignatureFunc.  A call that rejects
\* before (the function refuses, UnlockKeysetHash has no message to digest, a key
\* does not sign), or that is given no signer, changes nothing.
GenerateSignature(b, ks, S) ==
    /\ builder[b] # None /\ call[b] = None /\ Signable(b)
    /\ S \subseteq 1..Len(ks) /\ S # {}
    /\ Cardinality(granted) < MaxGrants
    /\ LET s == [digest  |-> Digest(builder[b].change, builder[b].nonce),
                 keyset  |-> ks,
                 signers |-> S]
       IN  /\ granted' = granted \cup {s}
           /\ call' = [call EXCEPT ![b] = [wallet |-> ks, sig |-> s]]
    /\ UNCHANGED <<builder, txs, world>>

\* getSignRoleWeight asks the wallet as it is now.
EnoughWeight(b) ==
    LET S == call[b].sig.signers \cap (1..Len(call[b].wallet))
    IN  S # {} /\ ValidateRoleWeight(builder[b].change.kind, call[b].wallet, S)

Resolve(b) ==
    /\ call[b] # None /\ EnoughWeight(b)
    /\ builder' = [builder EXCEPT ![b].sig = call[b].sig, ![b].own = TRUE]
    /\ call' = [call EXCEPT ![b] = None]
    /\ UNCHANGED <<granted, txs, world>>

\* "Invalid Role Weight To Sign": the builder stays as it was.
Rejects(b) ==
    /\ call[b] # None /\ ~EnoughWeight(b)
    /\ call' = [call EXCEPT ![b] = None]
    /\ UNCHANGED <<builder, granted, txs, world>>

\* getInstance of the provider gives a wallet object another keyset.
Overwrite(b, ks) ==
    /\ b \in Shared /\ call[b] # None
    /\ call' = [call EXCEPT ![b].wallet = ks]
    /\ UNCHANGED <<builder, granted, txs, world>>

\* build throws without a signature; an unlock needs none.
Send(b) ==
    /\ builder[b] # None
    /\ Signable(b) => builder[b].sig # None
    /\ txs' = txs \cup {builder[b]}
    /\ UNCHANGED <<builder, call, granted, world>>

-----------------------------------------------------------------------------
\* What the contract asks of a transaction.
Accepts(tx) ==
    /\ tx.nonce > metaNonce
    /\ IF tx.change.kind = "UnlockKeysetHash" THEN P!Due(control)
       ELSE /\ tx.sig.digest = Digest(tx.change, tx.nonce)
            /\ tx.sig.keyset = control.keyset
            /\ P!Enough(tx.change.kind, tx.sig.keyset, tx.sig.signers)
    /\ tx.change.kind = "CancelLockKeysetHash" => control.lock # None

\* The relayer has it executed, now or later, or never.
Execute(tx) ==
    /\ Accepts(tx)
    /\ metaNonce' = tx.nonce
    /\ IF tx.change.kind = "UnlockKeysetHash"
       THEN /\ control' = P!Unlocked(control)
            /\ used' = used
       ELSE /\ control' \in P!Outcomes(control, tx.change)
            /\ used' = used \cup {tx.sig}
    /\ UNCHANGED <<client, now>>

Tick ==
    /\ now < MaxTime
    /\ now' = now + 1
    /\ UNCHANGED <<client, control, metaNonce, used>>

Next ==
    \/ \E b \in Builders :
        \/ \E c \in Wanted, n \in Nonces, s \in granted \cup {None} : New(b, c, n, s)
        \/ \E ks \in Keysets : \E S \in SUBSET (1..Len(ks)) : GenerateSignature(b, ks, S)
        \/ Resolve(b) \/ Rejects(b) \/ Send(b)
        \/ \E ks \in Keysets : Overwrite(b, ks)
    \/ \E tx \in txs : Execute(tx)
    \/ Tick

Spec == Init /\ [][Next]_vars

-----------------------------------------------------------------------------
\* TypeOK: the values of the state; what is sent has a signature or needs none.
TypeOK ==
    /\ builder \in [Builders -> Objects \cup {None}]
    /\ call \in [Builders -> Calls \cup {None}]
    /\ granted \subseteq Signatures /\ used \subseteq Signatures
    /\ txs \subseteq Objects
    /\ \A tx \in txs : tx.change.kind # "UnlockKeysetHash" => tx.sig \in Signatures
    /\ control \in P!Controls
    /\ metaNonce \in Nat /\ now \in Nat

\* What was sent of a builder after its own generateSignature is accepted by the
\* contract unless the wallet has moved on since (or there is no lock to cancel):
\* what generateSignature lets pass carries the weight that its operation needs,
\* over the digest of what build sends.
FreshTxIsAccepted ==
    \A b \in Builders \ Shared :
        LET tx == builder[b]
        IN  /\ tx # None /\ tx \in txs /\ tx.own /\ tx.nonce > metaNonce
            /\ tx.sig.keyset = control.keyset
            /\ tx.change.kind = "CancelLockKeysetHash" => control.lock # None
            => Accepts(tx)

\* The builders and the contract together keep the account's promise.
KeepsAccountPromise == P!Spec
=============================================================================
