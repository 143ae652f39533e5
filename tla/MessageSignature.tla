-------------------------- MODULE MessageSignature --------------------------
(***************************************************************************)
(* What a wallet signs for a message or for a session key, and what the      *)
(* off-chain validation makes of it: wallet/src/wallet.ts (signMessage,       *)
(* signPermit), permit.ts, sessionKey.ts, the plain keys of keys/src and       *)
(* isValidSignature of wallet/src/index.ts.  One wallet; its key objects are    *)
(* shared by every Wallet made with setKeyset.  Hashes are injective: a digest  *)
(* stands for what it was made of, and recovering a signature over another      *)
(* digest gives the address of nobody.                                         *)
(***************************************************************************)
EXTENDS Integers, Sequences, FiniteSets

CONSTANTS
    Keysets,            \* the keysets the account may have, as sequences of key objects
    Addresses,          \* the addresses and key hashes of their keys
    Nobody,             \* what ecrecover gives for a signature over something else
    Messages,           \* digests of messages
    Sessions,           \* addresses of session keys
    Times,              \* seconds: the clock and the timestamps of permits
    SessionWeights,     \* the weights permits are asked for
    None,
    MaxMade,            \* how many raw signatures are made
    MaxIssued           \* how many signatures are kept

\* Raw signatures: who signed, and what.
Permits == [session : Sessions, timestamp : Nat, weight : Nat, packed : BOOLEAN]
Digests == Messages \cup Permits
RawSigs == [by : Addresses \cup Sessions, over : Digests]

RoleWeights == [owner : Nat, assetsOp : Nat, guardian : Nat]
Classes == {"KeySecp256k1", "KeySecp256k1Wallet", "KeyERC1271", "KeyOpenIDWithEmail",
            "KeyEmailDkim"}

\* A key object; `signs`: it has a signFunc, a wallet, or the email or token of the
\* digest; `auth`: the raw signature its signFunc returns whatever it is asked to sign.
Keys == [class : Classes, address : Addresses, weight : RoleWeights, signs : BOOLEAN,
         auth : RawSigs \cup {None}]

ASSUME MessageSignatureAssumption ==
    /\ Keysets \subseteq Seq([class : Classes, address : Addresses, weight : RoleWeights,
                              signs : BOOLEAN, auth : {None}])
    /\ Nobody \notin Addresses \cup Sessions
    /\ None \notin RawSigs
    /\ Times \subseteq Nat /\ SessionWeights \subseteq Nat
    /\ MaxMade \in Nat /\ MaxIssued \in Nat

VARIABLES
    keys,       \* keyset.keys, one array for all wallet objects
    made,       \* the raw signatures the holders of keys have made
    permits,    \* the permit each SessionKey holds
    store,      \* a SessionKeyStore, or None
    issued,     \* what signMessage returned, for whom and with which keyset
    now

vars == <<keys, made, permits, store, issued, now>>

-----------------------------------------------------------------------------
(* Bytes.  A key in a signature keeps its place, its type, its weight and    *)
(* either its address or a signature.                                       *)

\* The keyType() of a key: both classes of plain accounts have the same, and so have
\* both classes of mailboxes.
KeyType(class) ==
    CASE class = "KeySecp256k1Wallet" -> "KeySecp256k1"
      [] class = "KeyEmailDkim" -> "KeyOpenIDWithEmail"
      [] OTHER -> class

\* key.serialize(), and the keyset hash as the sequence it is injective in.
Serialized(k) == <<KeyType(k.class), k.address, k.weight>>

KeysetHash(ks) == [i \in DOMAIN ks |-> Serialized(ks[i])]

\* A permit digest of the wallet; chain id 0 stands for every chain.
Digest(session, timestamp, weight, packed) ==
    [session |-> session, timestamp |-> timestamp, weight |-> weight, packed |-> packed]

\* digestPermitMessage packs the fields, isValidSignature encodes them.
PermitDigest(session, timestamp, weight) == Digest(session, timestamp, weight, TRUE)
CheckedDigest(session, timestamp, weight) == Digest(session, timestamp, weight, FALSE)

\* The raw signature generateSignature gets for digest d.
RawSig(k, d) == IF k.auth = None THEN [by |-> k.address, over |-> d] ELSE k.auth

\* Mutant: the digest is put where its signature belongs.
UnsignedPart(k, d, sign) ==
    [type |-> KeyType(k.class), signed |-> sign, weight |-> k.weight, address |-> k.address,
     raw |-> IF sign THEN d ELSE None]

\* generateSignature(d) when `sign`, generateKey() otherwise.
Part(k, d, sign) ==
    [type |-> KeyType(k.class), signed |-> sign, weight |-> k.weight, address |-> k.address,
     raw |-> IF sign THEN RawSig(k, d) ELSE None]

\* Mutant: the keys that do not sign are left out.
SignersOnly(ks, d, signers) ==
    SelectSeq([i \in DOMAIN ks |-> Part(ks[i], d, i \in signers)], LAMBDA p : p.signed)

\* signPermit: every key in its place.  `signers` may name places the keyset lacks.
SignPermit(ks, d, signers) == [i \in DOMAIN ks |-> Part(ks[i], d, i \in signers)]

\* Promise.all rejects when one of the signers cannot sign.
AllSign(ks, signers) == \A i \in DOMAIN ks \cap signers : ks[i].signs

\* What the holders have then signed themselves, those of a failed call included.
HandSigned(ks, d, signers) ==
    {[by |-> ks[i].address, over |-> d] :
        i \in {j \in DOMAIN ks \cap signers : ks[j].signs /\ ks[j].auth = None}}

-----------------------------------------------------------------------------
(* Sizes.  The EIP-4337 hook pays for as many bytes as getSigSize says.        *)

\* Bytes of an address or a key hash, of a raw signature with its sign type, of the
\* three weights.
IdSize(type) == IF type = "KeyOpenIDWithEmail" THEN 32 ELSE 20
RawSize == 66
WeightSize == 12

\* The bytes of one part: its type, whether it signs, the rest.
PartSize(p) == 2 + (IF p.signed THEN RawSize ELSE IdSize(p.type)) + WeightSize

\* The sum of a sequence of numbers.
Total(f) ==
    LET upTo[i \in 0..Len(f)] == IF i = 0 THEN 0 ELSE upTo[i - 1] + f[i]
    IN  upTo[Len(f)]

\* One byte says that the signature is not a session key's.
ByteSize(parts) == 1 + Total([i \in 1..Len(parts) |-> PartSize(parts[i])])

\* Mutant: a key that does not sign is taken for as long as one that does.
SignedSizes(ks, signers) == [i \in 1..Len(ks) |-> 80]

\* What getSigSize adds up; mailboxes and contracts that sign are left out here.
EstimatedSizes(ks, signers) ==
    [i \in 1..Len(ks) |-> IF i \in signers THEN 80 ELSE 2 + IdSize(KeyType(ks[i].class)) + 12]

GetSigSize(ks, signers) == 1 + Total(EstimatedSizes(ks, signers))

-----------------------------------------------------------------------------
(* isValidSignature.                                                        *)

\* bytesToUint32: the fold starts with the first byte as it is.
BytesToUint32(n) == (n \div 16777216) + (n % 16777216)

Recover(raw, d) == IF raw.over = d THEN raw.by ELSE Nobody

\* parseKey: the address a key is hashed with.
ParsedAddress(p, d) == IF p.signed THEN Recover(p.raw, d) ELSE p.address

ParsedWeight(w) == [owner |-> BytesToUint32(w.owner), assetsOp |-> BytesToUint32(w.assetsOp),
                    guardian |-> BytesToUint32(w.guardian)]

ParsedHash(parts, d) ==
    [i \in DOMAIN parts |->
        <<parts[i].type, ParsedAddress(parts[i], d), ParsedWeight(parts[i].weight)>>]

\* Mutant: a key counts whether it signs or not.
AnyWeights(parts) == [i \in 1..Len(parts) |-> parts[i].weight.assetsOp]

SignedWeights(parts) ==
    [i \in 1..Len(parts) |->
        IF parts[i].signed THEN BytesToUint32(parts[i].weight.assetsOp) ELSE 0]

\* parseKey throws for a key of a mailbox or of another contract that signs.
Unsupported(parts) == \E i \in DOMAIN parts : parts[i].signed /\ parts[i].type # "KeySecp256k1"

ValidateSignature(d, parts, keysetHash) ==
    keysetHash = ParsedHash(parts, d) /\ Total(SignedWeights(parts)) >= 100

\* The digest the keys of a signature must have signed for the message m.
CheckedOver(m, sig) ==
    IF sig.session
    THEN CheckedDigest(Recover(sig.raw, m), BytesToUint32(sig.timestamp), BytesToUint32(sig.weight))
    ELSE m

\* The line reads Date.now() / 1000 < timestamp.
ThrowsExpired(sig) == sig.session /\ now < BytesToUint32(sig.timestamp)

IsValidSignature(m, sig, keysetHash) ==
    CASE ThrowsExpired(sig) -> "expired"
      [] ~ThrowsExpired(sig) /\ Unsupported(sig.parts) -> "unsupported"
      [] OTHER -> IF /\ ValidateSignature(CheckedOver(m, sig), sig.parts, keysetHash)
                     /\ sig.session => Total(SignedWeights(sig.parts)) >= BytesToUint32(sig.weight)
                  THEN "valid" ELSE "invalid"

-----------------------------------------------------------------------------
Init ==
    /\ keys \in Keysets
    /\ made = {}
    /\ permits = [s \in Sessions |-> None]
    /\ store = None
    /\ issued = {}
    /\ now \in Times

Signers == (SUBSET (1..Len(keys))) \ {{}}

Make(raws) == made' = made \cup raws /\ Cardinality(made \cup raws) <= MaxMade

Issue(m, sig, signers) ==
    /\ Cardinality(issued) < MaxIssued
    /\ issued' = issued \cup {[message |-> m, sig |-> sig, keys |-> keys, signers |-> signers]}

\* wallet.signMessage(m, signers)
SignMessage(m, signers) ==
    /\ AllSign(keys, signers)
    /\ Make(HandSigned(keys, m, signers))
    /\ Issue(m, [session |-> FALSE, timestamp |-> 0, weight |-> 0, raw |-> None,
                 parts |-> SignPermit(keys, m, signers)], signers)
    /\ UNCHANGED <<keys, permits, store, now>>

\* One signer fails; what the others signed is dropped, but they have signed it.
SignFails(d, signers) ==
    /\ ~AllSign(keys, signers)
    /\ Make(HandSigned(keys, d, signers))
    /\ UNCHANGED <<keys, permits, store, issued, now>>

Permit(ks, session, timestamp, weight, signers) ==
    [timestamp |-> timestamp, weight |-> weight,
     parts |-> SignPermit(ks, PermitDigest(session, timestamp, weight), signers)]

\* session.generatePermit(timestamp, weight, wallet, signers)
GeneratePermit(s, timestamp, weight, signers) ==
    /\ AllSign(keys, signers)
    /\ Make(HandSigned(keys, PermitDigest(s, timestamp, weight), signers))
    /\ permits' = [permits EXCEPT ![s] = Permit(keys, s, timestamp, weight, signers)]
    /\ UNCHANGED <<keys, store, issued, now>>

\* wallet.signMessage(m, session)
SignWithSession(m, s) ==
    /\ permits[s] # None
    /\ LET raw == [by |-> s, over |-> m]
       IN  /\ Make({raw})
           /\ Issue(m, [session |-> TRUE, timestamp |-> permits[s].timestamp,
                        weight |-> permits[s].weight, raw |-> raw,
                        parts |-> permits[s].parts], {})
    /\ UNCHANGED <<keys, permits, store, now>>

\* The application keeps a session key with the master key's raw signature.
StoreSession(s, timestamp, weight) ==
    /\ keys # <<>> /\ keys[1].class = "KeySecp256k1"
    /\ LET raw == [by |-> keys[1].address, over |-> PermitDigest(s, timestamp, weight)]
       IN  /\ Make({raw})
           /\ store' = [session |-> s, timestamp |-> timestamp, weight |-> weight,
                        authorization |-> raw]
    /\ UNCHANGED <<keys, permits, issued, now>>

\* Mutant: the new key weighs what the session may weigh.
AuthorizedForSession(k, st) ==
    [class |-> "KeySecp256k1", address |-> k.address,
     weight |-> [owner |-> 0, assetsOp |-> st.weight, guardian |-> 0],
     signs |-> TRUE, auth |-> st.authorization]

\* The key put in the place of the master key k: a new KeySecp256k1 of k's address and
\* weight, whose signFunc returns the stored signature.
Authorized(k, st) ==
    [class |-> "KeySecp256k1", address |-> k.address, weight |-> k.weight, signs |-> TRUE,
     auth |-> st.authorization]

\* SessionKey.fromSessionKeyStore: keyset.keys[0] is replaced in the array all
\* wallets share, and the permit is made with it.
FromSessionKeyStore ==
    /\ store # None
    /\ keys # <<>> /\ keys[1].class = "KeySecp256k1"
    /\ keys' = [keys EXCEPT ![1] = Authorized(@, store)]
    /\ permits' = [permits EXCEPT ![store.session] =
                     Permit(keys', store.session, store.timestamp, store.weight, {1})]
    /\ UNCHANGED <<made, store, issued, now>>

\* What toJson writes of a key: its class as a tag, its weights, and the address, the
\* private key it is the address of, or what its hash is computed from (that this
\* hash stays is checked in OpenIDKey and EmailKey).  A signFunc is not written; of what
\* a mailbox signs with, a token and the headers of an email may be.
Written(k, kept) ==
    [tag |-> k.class, id |-> k.address, roleWeight |-> k.weight,
     means |-> \/ k.class = "KeySecp256k1Wallet"
               \/ k.class \in {"KeyOpenIDWithEmail", "KeyEmailDkim"} /\ k.signs /\ kept]

\* fromJsonObj: a new key of the class of the tag.
Restored(k, kept) ==
    LET obj == Written(k, kept)
    IN  [class |-> obj.tag, address |-> obj.id, weight |-> obj.roleWeight,
         signs |-> obj.means, auth |-> None]

RestoreKeyset(kept) ==
    /\ keys' = [i \in DOMAIN keys |-> Restored(keys[i], kept)]
    /\ UNCHANGED <<made, permits, store, issued, now>>

\* wallet.setKeyset(ks), after the account has been given another keyset.
SetKeyset(ks) ==
    /\ keys' = ks
    /\ UNCHANGED <<made, permits, store, issued, now>>

Tick ==
    /\ now' \in {t \in Times : t > now}
    /\ UNCHANGED <<keys, made, permits, store, issued>>

Next ==
    \/ \E m \in Messages, signers \in Signers : SignMessage(m, signers) \/ SignFails(m, signers)
    \/ \E s \in Sessions, t \in Times, w \in SessionWeights :
          \/ StoreSession(s, t, w)
          \/ \E signers \in Signers :
                \/ GeneratePermit(s, t, w, signers)
                \/ SignFails(PermitDigest(s, t, w), signers)
    \/ \E m \in Messages, s \in Sessions : SignWithSession(m, s)
    \/ FromSessionKeyStore \/ Tick \/ \E kept \in BOOLEAN : RestoreKeyset(kept)
    \/ \E ks \in Keysets : SetKeyset(ks)

Spec == Init /\ [][Next]_vars

-----------------------------------------------------------------------------
(* Properties.                                                              *)

Parts == [type : {KeyType(c) : c \in Classes}, signed : BOOLEAN, weight : RoleWeights,
          address : Addresses, raw : RawSigs \cup {None}]
Sigs == [session : BOOLEAN, timestamp : Nat, weight : Nat, raw : RawSigs \cup {None},
         parts : Seq(Parts)]

\* TypeOK: the shapes of the key objects, the permits, the store and the signatures.
TypeOK ==
    /\ keys \in Seq(Keys)
    /\ made \subseteq RawSigs
    /\ permits \in [Sessions -> [timestamp : Nat, weight : Nat, parts : Seq(Parts)] \cup {None}]
    /\ store \in [session : Sessions, timestamp : Nat, weight : Nat, authorization : RawSigs]
                \cup {None}
    /\ issued \subseteq [message : Messages, sig : Sigs, keys : Seq(Keys), signers : SUBSET Nat]
    /\ now \in Times

\* The places of ks whose holders have signed d themselves.
ApprovedBy(ks, d) == {i \in DOMAIN ks : [by |-> ks[i].address, over |-> d] \in made}

\* The weight for asset operations of the keys at the places S.
WeightOf(ks, S) == Total([i \in 1..Len(ks) |-> IF i \in S THEN ks[i].weight.assetsOp ELSE 0])

\* A signature that validates for a message, under the keyset the account now has,
\* has been made by holders of keys of this keyset who signed just this message (or
\* just this permit) and weigh 100 for asset operations, whatever keyset and session
\* key it was made with.
ValidMeansApproved ==
    \A x \in issued, m \in Messages :
        IsValidSignature(m, x.sig, KeysetHash(keys)) = "valid" =>
            \E S \in SUBSET ApprovedBy(keys, CheckedOver(m, x.sig)) : WeightOf(keys, S) >= 100

\* What signMessage gives for plain accounts of weight 100 validates, for the keyset
\* it was made with and for its message alone, unless the master key was one put in
\* its place by a restored session.
SignedValidates ==
    \A x \in issued :
        /\ ~x.sig.session
        /\ \A i \in x.signers : KeyType(x.keys[i].class) = "KeySecp256k1" /\ x.keys[i].auth = None
        /\ WeightOf(x.keys, x.signers) >= 100
        => \A m \in Messages :
             (IsValidSignature(m, x.sig, KeysetHash(x.keys)) = "valid") <=> (m = x.message)

\* Signatures of plain accounts are as long as the hook has them paid for.
SigSizeIsExact ==
    \A x \in issued :
        /\ ~x.sig.session
        /\ \A i \in x.signers : KeyType(x.keys[i].class) = "KeySecp256k1"
        => ByteSize(x.sig.parts) = GetSigSize(x.keys, x.signers)

\* The keyset hash that the parts of a permit prove to the account's contract, which
\* computes the digest permits are made for.
ProvedHash(parts, d) ==
    [i \in DOMAIN parts |-> <<parts[i].type, ParsedAddress(parts[i], d), parts[i].weight>>]

\* The permit of a session restored from its store proves the keyset the account has
\* now just when the store was made under the master key of this keyset: whatever
\* JSON, other sessions and other keysets the key objects went through since.
RestoredPermitCounts ==
    [][FromSessionKeyStore =>
         LET d == PermitDigest(store.session, store.timestamp, store.weight)
         IN  ProvedHash(permits'[store.session].parts, d) = KeysetHash(keys)
               <=> store.authorization.by = keys[1].address]_vars

\* SignedValidates without the exception for a restored session: violated.
MasterKeySigns ==
    \A x \in issued :
        /\ ~x.sig.session
        /\ \A i \in x.signers : KeyType(x.keys[i].class) = "KeySecp256k1"
        /\ WeightOf(x.keys, x.signers) >= 100
        => IsValidSignature(x.message, x.sig, KeysetHash(x.keys)) = "valid"
=============================================================================
