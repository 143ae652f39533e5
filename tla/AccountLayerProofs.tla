-------------------------- MODULE AccountLayerProofs --------------------------
(***************************************************************************)
(* Proofs about AccountLayer for every set of keysets, changes, nonces and  *)
(* builders: type correctness, that a fresh transaction is accepted, and    *)
(* that the builders with the contract implement AccountPromise.            *)
(***************************************************************************)
EXTENDS AccountLayer, TLAPS

USE DEF client, world, P!Updates, P!LockedUpdates, P!Unlocks, P!Cancels, P!NewDelays,
        P!NewImpls, P!Syncs

\* A signature is of the wallet only when key holders have made it.
Backed ==
    /\ \A b \in Builders : builder[b] # None => builder[b].sig \in granted \cup {None}
    /\ \A b \in Builders : call[b] # None => builder[b] # None /\ call[b].sig \in granted
    /\ \A tx \in txs : tx.change.kind # "UnlockKeysetHash" => tx.sig \in granted

\* While its keys sign, a wallet object that nobody overwrites stays what it was.
CallIsOwn(b) ==
    call[b] # None =>
        /\ builder[b] # None /\ Signable(b)
        /\ call[b].wallet = call[b].sig.keyset
        /\ call[b].sig.digest = Digest(builder[b].change, builder[b].nonce)
        /\ call[b].sig.signers \subseteq 1..Len(call[b].wallet)

\* So what was weighed is what had signed.
OwnIsEnough(b) ==
    builder[b] # None /\ builder[b].own =>
        /\ Signable(b)
        /\ builder[b].sig.digest = Digest(builder[b].change, builder[b].nonce)
        /\ ValidateRoleWeight(builder[b].change.kind, builder[b].sig.keyset,
                              builder[b].sig.signers)

OwnInv == \A b \in Builders \ Shared : CallIsOwn(b) /\ OwnIsEnough(b)

\* No signature that was executed has a nonce still to come.
UsedIsPast == \A s \in used : s.digest.nonce <= metaNonce

AccountInv == TypeOK /\ Backed /\ OwnInv /\ UsedIsPast

-----------------------------------------------------------------------------
\* The types in parts, as the steps change them.
BuilderOK == builder \in [Builders -> Objects \cup {None}]
CallOK == call \in [Builders -> Calls \cup {None}]
SignedOK == granted \subseteq Signatures /\ used \subseteq Signatures
SentOK ==
    /\ txs \subseteq Objects
    /\ \A tx \in txs : tx.change.kind # "UnlockKeysetHash" => tx.sig \in Signatures
ChainOK == control \in P!Controls /\ metaNonce \in Nat /\ now \in Nat

LEMMA TypeOKIsParts ==
    TypeOK <=> BuilderOK /\ CallOK /\ SignedOK /\ SentOK /\ ChainOK
BY DEF TypeOK, BuilderOK, CallOK, SignedOK, SentOK, ChainOK

LEMMA InitInv == Init => AccountInv
<1> SUFFICES ASSUME Init PROVE AccountInv
    OBVIOUS
<1>1. TypeOK
    BY DEF Init, TypeOK, P!Controls
<1>2. Backed /\ OwnInv /\ UsedIsPast
    BY DEF Init, Backed, OwnInv, CallIsOwn, OwnIsEnough, UsedIsPast
<1> QED
    BY <1>1, <1>2 DEF AccountInv

\* What a change makes of the wallet is a wallet.
LEMMA OutcomesAreControls ==
    ASSUME now \in Nat, NEW c \in P!Controls, NEW change \in Wanted,
           change.kind # "UnlockKeysetHash", NEW d \in P!Outcomes(c, change)
    PROVE  d \in P!Controls
<1>1. change \in P!Changes
    BY LayerAssumption
<1>2. now + c.delay \in Nat
    <2>1. c.delay \in Delays
        BY DEF P!Controls
    <2>2. c.delay \in Nat
        BY <2>1, LayerAssumption
    <2> QED
        BY <2>2
<1>3. CASE change.kind = "UpdateKeysetHash"
    <2>1. PICK l \in {c.lock, None} :
              d = [c EXCEPT !.keyset = change.keyset, !.lock = l]
        BY <1>3 DEF P!Outcomes
    <2>2. change.keyset \in Keysets
        BY <1>1, <1>3 DEF P!Changes
    <2> QED
        BY <2>1, <2>2 DEF P!Controls
<1>4. CASE change.kind = "UpdateKeysetHashWithTimeLock"
    <2>1. d = [c EXCEPT !.lock = [keyset |-> change.keyset, until |-> now + c.delay]]
        BY <1>4 DEF P!Outcomes
    <2>2. [keyset |-> change.keyset, until |-> now + c.delay] \in P!Locks
        BY <1>1, <1>2, <1>4 DEF P!Changes, P!Locks
    <2> QED
        BY <2>1, <2>2 DEF P!Controls
<1>5. CASE change.kind = "CancelLockKeysetHash"
    BY <1>5 DEF P!Outcomes, P!Controls
<1>6. CASE change.kind = "UpdateTimeLockDuring"
    BY <1>1, <1>6 DEF P!Outcomes, P!Changes, P!Controls
<1>7. CASE change.kind = "UpdateImplementation"
    BY <1>1, <1>7 DEF P!Outcomes, P!Changes, P!Controls
<1>8. CASE change.kind = "SyncAccount"
    BY <1>1, <1>8 DEF P!Outcomes, P!Changes, P!Controls
<1> QED
    BY <1>1, <1>3, <1>4, <1>5, <1>6, <1>7, <1>8 DEF P!Changes

LEMMA UnlockedIsControl ==
    ASSUME NEW c \in P!Controls, P!Due(c)
    PROVE  P!Unlocked(c) \in P!Controls
BY DEF P!Due, P!Unlocked, P!Controls, P!Locks

-----------------------------------------------------------------------------
\* One lemma per action.

LEMMA NewKeepsInv ==
    ASSUME AccountInv, NEW b \in Builders, NEW c \in Wanted, NEW n \in Nonces,
           NEW s \in granted \cup {None}, New(b, c, n, s)
    PROVE  AccountInv'
<1> USE TypeOKIsParts DEF AccountInv, New
<1>1. BuilderOK'
    BY DEF BuilderOK, SignedOK, Objects
<1>2. TypeOK'
    BY <1>1 DEF CallOK, SignedOK, SentOK, ChainOK, TypeOK, BuilderOK
<1>3. Backed'
    BY DEF Backed, BuilderOK
<1>4. OwnInv'
    <2> SUFFICES ASSUME NEW x \in Builders \ Shared
        PROVE CallIsOwn(x)' /\ OwnIsEnough(x)'
        BY DEF OwnInv
    <2>1. CASE x = b
        BY <2>1 DEF OwnInv, BuilderOK, CallIsOwn, OwnIsEnough
    <2>2. CASE x # b
        BY <2>2 DEF OwnInv, BuilderOK, CallIsOwn, OwnIsEnough, Signable
    <2> QED
        BY <2>1, <2>2
<1>5. UsedIsPast'
    BY DEF UsedIsPast
<1> QED
    BY <1>2, <1>3, <1>4, <1>5

LEMMA GenerateKeepsInv ==
    ASSUME AccountInv, NEW b \in Builders, NEW ks \in Keysets,
           NEW S \in SUBSET (1..Len(ks)), GenerateSignature(b, ks, S)
    PROVE  AccountInv'
<1> USE TypeOKIsParts DEF AccountInv
<1> DEFINE s == [digest  |-> Digest(builder[b].change, builder[b].nonce),
                 keyset  |-> ks,
                 signers |-> S]
<1>0. /\ builder[b] # None /\ call[b] = None /\ Signable(b) /\ S \subseteq 1..Len(ks)
      /\ granted' = granted \cup {s}
      /\ call' = [call EXCEPT ![b] = [wallet |-> ks, sig |-> s]]
      /\ UNCHANGED <<builder, txs, world>>
    BY DEF GenerateSignature
<1>1. s \in Signatures
    <2>1. builder[b] \in Objects
        BY <1>0 DEF BuilderOK
    <2>2. Digest(builder[b].change, builder[b].nonce) \in Digests
        BY <2>1 DEF Objects, Digests
    <2> QED
        BY <2>2 DEF Signatures
<1> HIDE DEF s
<1>2. CallOK'
    BY <1>0, <1>1 DEF CallOK, Calls
<1>3. TypeOK'
    BY <1>0, <1>1, <1>2 DEF TypeOK, CallOK, SignedOK, SentOK, ChainOK, BuilderOK
<1>4. Backed'
    BY <1>0 DEF Backed, CallOK
<1>5. OwnInv'
    <2> SUFFICES ASSUME NEW x \in Builders \ Shared
        PROVE CallIsOwn(x)' /\ OwnIsEnough(x)'
        BY DEF OwnInv
    <2>1. CASE x = b
        <3>1. call'[x] = [wallet |-> ks, sig |-> s]
            BY <1>0, <2>1 DEF CallOK
        <3>2. CallIsOwn(x)'
            BY <1>0, <2>1, <3>1 DEF CallIsOwn, Signable, s
        <3> QED
            BY <1>0, <3>2 DEF OwnInv, OwnIsEnough, Signable
    <2>2. CASE x # b
        BY <1>0, <2>2 DEF OwnInv, CallOK, CallIsOwn, OwnIsEnough, Signable
    <2> QED
        BY <2>1, <2>2
<1>6. UsedIsPast'
    BY <1>0 DEF UsedIsPast
<1> QED
    BY <1>3, <1>4, <1>5, <1>6

LEMMA ResolveKeepsInv ==
    ASSUME AccountInv, NEW b \in Builders, Resolve(b)
    PROVE  AccountInv'
<1> USE TypeOKIsParts DEF AccountInv, Resolve
<1>1. builder[b] \in Objects /\ call[b] \in Calls
    BY DEF BuilderOK, CallOK, Backed
<1>2. [builder[b] EXCEPT !.sig = call[b].sig, !.own = TRUE] \in Objects
    BY <1>1 DEF Objects, Calls
<1>3. builder' = [builder EXCEPT ![b] =
                      [builder[b] EXCEPT !.sig = call[b].sig, !.own = TRUE]]
    BY DEF BuilderOK
<1>4. TypeOK'
    BY <1>2, <1>3 DEF TypeOK, CallOK, SignedOK, SentOK, ChainOK, BuilderOK
<1>5. Backed'
    BY <1>1, <1>3 DEF Backed, CallOK, BuilderOK, Objects
<1>6. OwnInv'
    <2> SUFFICES ASSUME NEW x \in Builders \ Shared
        PROVE CallIsOwn(x)' /\ OwnIsEnough(x)'
        BY DEF OwnInv
    <2>1. CASE x = b
        <3>1. call'[x] = None
            BY <2>1 DEF CallOK
        <3>2. /\ builder'[x].sig = call[b].sig
              /\ builder'[x].change = builder[b].change
              /\ builder'[x].nonce = builder[b].nonce
            BY <1>1, <1>3, <2>1 DEF BuilderOK, Objects
        <3>3. CallIsOwn(b)
            BY <2>1 DEF OwnInv
        <3>4. call[b].sig.signers \cap (1..Len(call[b].wallet)) = call[b].sig.signers
            BY <3>3 DEF CallIsOwn
        <3>5. ValidateRoleWeight(builder[b].change.kind, call[b].wallet, call[b].sig.signers)
            BY <3>4 DEF EnoughWeight
        <3> QED
            BY <3>1, <3>2, <3>3, <3>5 DEF CallIsOwn, OwnIsEnough, Signable
    <2>2. CASE x # b
        BY <1>3, <2>2 DEF OwnInv, CallOK, BuilderOK, CallIsOwn, OwnIsEnough, Signable
    <2> QED
        BY <2>1, <2>2
<1>7. UsedIsPast'
    BY DEF UsedIsPast
<1> QED
    BY <1>4, <1>5, <1>6, <1>7

LEMMA RejectsKeepsInv ==
    ASSUME AccountInv, NEW b \in Builders, Rejects(b)
    PROVE  AccountInv'
<1> USE TypeOKIsParts DEF AccountInv, Rejects
<1>1. TypeOK'
    BY DEF TypeOK, CallOK, SignedOK, SentOK, ChainOK, BuilderOK
<1>2. Backed' /\ UsedIsPast'
    BY DEF Backed, CallOK, UsedIsPast
<1>3. OwnInv'
    BY DEF OwnInv, CallOK, CallIsOwn, OwnIsEnough, Signable
<1> QED
    BY <1>1, <1>2, <1>3

LEMMA OverwriteKeepsInv ==
    ASSUME AccountInv, NEW b \in Builders, NEW ks \in Keysets, Overwrite(b, ks)
    PROVE  AccountInv'
<1> USE TypeOKIsParts DEF AccountInv, Overwrite
<1>1. call[b] \in Calls
    BY DEF CallOK
<1>2. [call[b] EXCEPT !.wallet = ks] \in Calls
    BY <1>1 DEF Calls
<1>3. call' = [call EXCEPT ![b] = [call[b] EXCEPT !.wallet = ks]]
    BY DEF CallOK
<1>4. TypeOK'
    BY <1>2, <1>3 DEF TypeOK, CallOK, SignedOK, SentOK, ChainOK, BuilderOK
<1>5. Backed' /\ UsedIsPast'
    BY <1>1, <1>3 DEF Backed, CallOK, Calls, UsedIsPast
<1>6. OwnInv'
    BY <1>3 DEF OwnInv, CallOK, CallIsOwn, OwnIsEnough, Signable
<1> QED
    BY <1>4, <1>5, <1>6

LEMMA SendKeepsInv ==
    ASSUME AccountInv, NEW b \in Builders, Send(b)
    PROVE  AccountInv'
<1> USE TypeOKIsParts DEF AccountInv, Send
<1>1. builder[b] \in Objects
    BY DEF BuilderOK
<1>2. builder[b].change.kind # "UnlockKeysetHash" => builder[b].sig \in Signatures
    BY <1>1 DEF Objects, Signable
<1>3. TypeOK'
    BY <1>1, <1>2 DEF TypeOK, CallOK, SignedOK, SentOK, ChainOK, BuilderOK
<1>4. Backed' /\ UsedIsPast'
    BY DEF Backed, UsedIsPast, Signable
<1>5. OwnInv'
    BY DEF OwnInv, CallIsOwn, OwnIsEnough, Signable
<1> QED
    BY <1>3, <1>4, <1>5

\* The signature of a transaction the contract accepts was not used before.
LEMMA AcceptedIsNew ==
    ASSUME AccountInv, NEW tx \in txs, Accepts(tx),
           tx.change.kind # "UnlockKeysetHash"
    PROVE  tx.sig \in granted \ used /\ tx.sig \in Signatures
<1> USE TypeOKIsParts DEF AccountInv
<1>1. tx \in Objects /\ tx.sig \in Signatures
    BY DEF SentOK
<1>2. tx.sig \in granted /\ tx.sig.digest.nonce = tx.nonce
    BY DEF Backed, Accepts, Digest
<1>3. tx.sig \notin used
    <2>1. tx.nonce \in Nat /\ metaNonce \in Nat
        BY <1>1, LayerAssumption DEF Objects, ChainOK
    <2> QED
        BY <1>2, <2>1 DEF UsedIsPast, Accepts
<1> QED
    BY <1>1, <1>2, <1>3

LEMMA ExecuteKeepsInv ==
    ASSUME AccountInv, NEW tx \in txs, Execute(tx)
    PROVE  AccountInv'
<1> USE TypeOKIsParts DEF AccountInv
<1>0. /\ Accepts(tx) /\ metaNonce' = tx.nonce
      /\ UNCHANGED <<builder, call, granted, txs, now>>
    BY DEF Execute
<1>1. tx \in Objects /\ tx.change \in Wanted /\ tx.nonce \in Nat
    BY LayerAssumption DEF SentOK, Objects
<1>2. control' \in P!Controls
    <2>1. CASE tx.change.kind = "UnlockKeysetHash"
        BY <1>0, <2>1, UnlockedIsControl DEF Execute, Accepts, ChainOK
    <2>2. CASE tx.change.kind # "UnlockKeysetHash"
        BY <1>1, <2>2, OutcomesAreControls DEF Execute, ChainOK
    <2> QED
        BY <2>1, <2>2
<1>3. used' \subseteq Signatures
    BY <1>0, AcceptedIsNew DEF Execute, SignedOK
<1>4. TypeOK'
    BY <1>0, <1>1, <1>2, <1>3 DEF TypeOK, CallOK, SignedOK, SentOK, ChainOK, BuilderOK
<1>5. UsedIsPast'
    <2> SUFFICES ASSUME NEW s \in used' PROVE s.digest.nonce <= tx.nonce
        BY <1>0 DEF UsedIsPast
    <2>1. CASE s \in used
        <3>1. s.digest.nonce \in Nat /\ metaNonce \in Nat
            BY <2>1, LayerAssumption DEF SignedOK, Signatures, Digests, Digest, ChainOK
        <3>2. s.digest.nonce <= metaNonce /\ tx.nonce > metaNonce
            BY <1>0, <2>1 DEF UsedIsPast, Accepts
        <3> QED
            BY <1>1, <3>1, <3>2
    <2>2. CASE s \notin used
        <3>1. s = tx.sig /\ tx.change.kind # "UnlockKeysetHash"
            BY <2>2 DEF Execute
        <3>2. s.digest.nonce = tx.nonce
            BY <1>0, <3>1 DEF Accepts, Digest
        <3> QED
            BY <1>1, <3>2
    <2> QED
        BY <2>1, <2>2
<1>6. Backed' /\ OwnInv'
    BY <1>0 DEF Backed, OwnInv, CallIsOwn, OwnIsEnough, Signable
<1> QED
    BY <1>4, <1>5, <1>6

LEMMA QuietKeepsInv ==
    ASSUME AccountInv, Tick \/ UNCHANGED vars
    PROVE  AccountInv'
<1> USE TypeOKIsParts DEF AccountInv
<1>1. /\ UNCHANGED <<builder, call, granted, txs, control, metaNonce, used>>
      /\ now' \in Nat
    BY DEF Tick, vars, ChainOK
<1>2. TypeOK'
    BY <1>1 DEF TypeOK, CallOK, SignedOK, SentOK, ChainOK, BuilderOK
<1>3. Backed' /\ OwnInv' /\ UsedIsPast'
    BY <1>1 DEF Backed, OwnInv, CallIsOwn, OwnIsEnough, Signable, UsedIsPast
<1> QED
    BY <1>2, <1>3

LEMMA NextKeepsInv == AccountInv /\ [Next]_vars => AccountInv'
<1> SUFFICES ASSUME AccountInv, [Next]_vars PROVE AccountInv'
    OBVIOUS
<1>1. CASE \E b \in Builders, c \in Wanted, n \in Nonces, s \in granted \cup {None} :
               New(b, c, n, s)
    BY <1>1, NewKeepsInv
<1>2. CASE \E b \in Builders, ks \in Keysets : \E S \in SUBSET (1..Len(ks)) :
               GenerateSignature(b, ks, S)
    BY <1>2, GenerateKeepsInv
<1>3. CASE \E b \in Builders : Resolve(b)
    BY <1>3, ResolveKeepsInv
<1>4. CASE \E b \in Builders : Rejects(b)
    BY <1>4, RejectsKeepsInv
<1>5. CASE \E b \in Builders : Send(b)
    BY <1>5, SendKeepsInv
<1>6. CASE \E b \in Builders, ks \in Keysets : Overwrite(b, ks)
    BY <1>6, OverwriteKeepsInv
<1>7. CASE \E tx \in txs : Execute(tx)
    BY <1>7, ExecuteKeepsInv
<1>8. CASE Tick \/ UNCHANGED vars
    BY <1>8, QuietKeepsInv
<1> QED
    BY <1>1, <1>2, <1>3, <1>4, <1>5, <1>6, <1>7, <1>8 DEF Next

-----------------------------------------------------------------------------
LEMMA InvHolds == Spec => []AccountInv
BY InitInv, NextKeepsInv, PTL DEF Spec

\* The types of the builders, the calls, the signatures and the wallet hold always.
THEOREM AccountTypeCorrect == Spec => []TypeOK
<1>1. AccountInv => TypeOK
    BY DEF AccountInv
<1> QED
    BY <1>1, InvHolds, PTL

\* What generateSignature lets pass is enough for the contract, for all weights
\* and thresholds, as long as nobody overwrites the keyset of the wallet object.
LEMMA InvIsFresh == AccountInv => FreshTxIsAccepted
<1> SUFFICES ASSUME AccountInv, NEW b \in Builders \ Shared,
                    builder[b] # None, builder[b].own, builder[b].nonce > metaNonce,
                    builder[b].sig.keyset = control.keyset,
                    builder[b].change.kind = "CancelLockKeysetHash" => control.lock # None
             PROVE  Accepts(builder[b])
    BY DEF FreshTxIsAccepted
<1>1. OwnIsEnough(b)
    BY DEF AccountInv, OwnInv
<1>2. builder[b].change.kind \in P!Kinds
    <2>1. builder[b] \in Objects
        BY TypeOKIsParts DEF AccountInv, BuilderOK
    <2> QED
        BY <2>1, LayerAssumption DEF Objects, P!Changes, P!Kinds
<1>3. P!Enough(builder[b].change.kind, builder[b].sig.keyset, builder[b].sig.signers)
    BY <1>1, <1>2 DEF OwnIsEnough, ValidateRoleWeight, P!Enough, P!Kinds, Signable
<1> QED
    BY <1>1, <1>3 DEF Accepts, OwnIsEnough, Signable

THEOREM FreshTxTheorem == Spec => []FreshTxIsAccepted
BY InvHolds, InvIsFresh, PTL

-----------------------------------------------------------------------------
LEMMA InitPromises == Init => P!Init
BY DEF Init, P!Init

LEMMA StepPromises == AccountInv /\ [Next]_vars => [P!Next]_(P!vars)
<1> SUFFICES ASSUME AccountInv, [Next]_vars PROVE [P!Next]_(P!vars)
    OBVIOUS
<1>1. CASE \E tx \in txs : Execute(tx)
    <2>1. PICK tx \in txs : Execute(tx)
        BY <1>1
    <2>2. CASE tx.change.kind = "UnlockKeysetHash"
        <3>1. P!Unlock
            BY <2>1, <2>2 DEF Execute, Accepts, P!Unlock
        <3> QED
            BY <3>1 DEF P!Next
    <2>3. CASE tx.change.kind # "UnlockKeysetHash"
        <3>1. tx.change \in P!Changes
            BY TypeOKIsParts, LayerAssumption DEF AccountInv, SentOK, Objects
        <3>2. tx.sig \in granted \ used
            BY <2>1, <2>3, AcceptedIsNew DEF Execute
        <3>3. P!AgreesTo(tx.sig.digest, tx.change)
            BY <2>1, <2>3 DEF Execute, Accepts, Digest, P!AgreesTo
        <3>4. P!Apply(tx.sig, tx.change)
            BY <2>1, <2>3, <3>3 DEF Execute, Accepts, P!Apply
        <3> QED
            BY <3>1, <3>2, <3>4 DEF P!Next
    <2> QED
        BY <2>2, <2>3
<1>2. CASE \E b \in Builders, ks \in Keysets : \E S \in SUBSET (1..Len(ks)) :
               GenerateSignature(b, ks, S)
    BY <1>2 DEF GenerateSignature, P!Grant, P!Next
<1>3. CASE Tick
    BY <1>3 DEF Tick, P!Wait, P!Next
<1>4. CASE UNCHANGED <<control, granted, used, now>>
    BY <1>4 DEF P!vars
<1>5. ASSUME NEW b \in Builders,
             \/ \E c \in Wanted, n \in Nonces, s \in granted \cup {None} : New(b, c, n, s)
             \/ Resolve(b) \/ Rejects(b) \/ Send(b)
             \/ \E ks \in Keysets : Overwrite(b, ks)
      PROVE  UNCHANGED <<control, granted, used, now>>
    BY <1>5 DEF New, Resolve, Rejects, Send, Overwrite
<1>6. CASE UNCHANGED vars
    BY <1>4, <1>6 DEF vars
<1> QED
    BY <1>1, <1>2, <1>3, <1>4, <1>5, <1>6 DEF Next

\* The builders, the contract and the clock implement the account's promise.
THEOREM AccountRefinement == Spec => KeepsAccountPromise
<1>1. Spec => P!Spec
    BY InvHolds, InitPromises, StepPromises, PTL DEF Spec, P!Spec
<1> QED
    BY <1>1 DEF KeepsAccountPromise
=============================================================================
