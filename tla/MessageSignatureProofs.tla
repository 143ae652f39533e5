----------------------- MODULE MessageSignatureProofs -----------------------
(***************************************************************************)
(* Proofs about MessageSignature, for all keysets, messages, session keys      *)
(* and times: the types, what a restored session's permit proves, and that what  *)
(* validates has been approved.  The invariant behind the last is Backed: every    *)
(* raw signature in a key's signFunc, a permit, the store or an issued signature   *)
(* has been made by its holder.                                                    *)
(***************************************************************************)
EXTENDS MessageSignature, TLAPS

PermitSet == [timestamp : Nat, weight : Nat, parts : Seq(Parts)]
StoreSet == [session : Sessions, timestamp : Nat, weight : Nat, authorization : RawSigs]
IssuedSet == [message : Messages, sig : Sigs, keys : Seq(Keys), signers : SUBSET Nat]

USE DEF PermitSet, StoreSet, IssuedSet

LEMMA TypeParts ==
    TypeOK <=> /\ keys \in Seq(Keys)
               /\ made \subseteq RawSigs
               /\ permits \in [Sessions -> PermitSet \cup {None}]
               /\ store \in StoreSet \cup {None}
               /\ issued \subseteq IssuedSet
               /\ now \in Times
    BY DEF TypeOK

-----------------------------------------------------------------------------
(* The operators.                                                          *)

\* The keysets of the constants are sequences of key objects.
LEMMA KeysetsAreKeys == \A ks \in Keysets : ks \in Seq(Keys) /\ \A i \in DOMAIN ks : ks[i].auth = None
<1> SUFFICES ASSUME NEW ks \in Keysets
             PROVE  ks \in Seq(Keys) /\ \A i \in DOMAIN ks : ks[i].auth = None
    OBVIOUS
<1> DEFINE Fresh == [class : Classes, address : Addresses, weight : RoleWeights,
                     signs : BOOLEAN, auth : {None}]
<1>1. ks \in Seq(Fresh)
    BY MessageSignatureAssumption
<1>2. Fresh \subseteq Keys
    BY DEF Keys
<1> HIDE DEF Fresh
<1>3. \A i \in DOMAIN ks : ks[i] \in Fresh
    BY <1>1
<1>4. ks \in [1..Len(ks) -> Keys] /\ Len(ks) \in Nat
    BY <1>1, <1>2, <1>3
<1>5. ks \in Seq(Keys)
    BY <1>4
<1> QED
    BY <1>3, <1>5 DEF Fresh

\* A permit digest is a digest.
LEMMA PermitDigestType ==
    \A s \in Sessions, t \in Nat, w \in Nat : PermitDigest(s, t, w) \in Digests
    BY DEF PermitDigest, Digest, Digests, Permits

\* A part of a signature made by a key that can be asked to.
LEMMA PartType ==
    ASSUME NEW k \in Keys, NEW d \in Digests, NEW sign \in BOOLEAN
    PROVE  Part(k, d, sign) \in Parts
<1>1. RawSig(k, d) \in RawSigs
    BY DEF RawSig, Keys, RawSigs
<1>2. KeyType(k.class) \in {KeyType(c) : c \in Classes} /\ k.weight \in RoleWeights
      /\ k.address \in Addresses
    BY DEF Keys
<1> QED
    BY <1>1, <1>2 DEF Part, Parts

LEMMA SignPermitType ==
    ASSUME NEW ks \in Seq(Keys), NEW d \in Digests, NEW signers
    PROVE  SignPermit(ks, d, signers) \in Seq(Parts)
<1>1. \A i \in DOMAIN ks : ks[i] \in Keys /\ (i \in signers) \in BOOLEAN
    OBVIOUS
<1>2. \A i \in DOMAIN ks : Part(ks[i], d, i \in signers) \in Parts
    BY <1>1, PartType
<1>3. DOMAIN ks = 1..Len(ks) /\ Len(ks) \in Nat
    OBVIOUS
<1> DEFINE p == SignPermit(ks, d, signers)
<1>4. p \in [1..Len(ks) -> Parts]
    BY <1>2, <1>3 DEF SignPermit
<1> HIDE DEF p
<1>5. p \in Seq(Parts)
    BY <1>3, <1>4
<1> QED
    BY <1>5 DEF p

\* The holders sign with addresses of keys.
LEMMA HandSignedType ==
    ASSUME NEW ks \in Seq(Keys), NEW d \in Digests, NEW signers
    PROVE  HandSigned(ks, d, signers) \subseteq RawSigs
<1>1. \A i \in DOMAIN ks : ks[i] \in Keys
    OBVIOUS
<1>2. \A i \in DOMAIN ks : ks[i].address \in Addresses
    BY <1>1 DEF Keys
<1> QED
    BY <1>2 DEF HandSigned, RawSigs

-----------------------------------------------------------------------------
(* What is in a signature has been made.                                     *)

PartsBacked(parts, raws) == \A i \in DOMAIN parts : parts[i].signed => parts[i].raw \in raws

Backed ==
    /\ \A i \in DOMAIN keys : keys[i].auth \in made \cup {None}
    /\ \A s \in Sessions : permits[s] # None => PartsBacked(permits[s].parts, made)
    /\ store # None => store.authorization \in made
    /\ \A x \in issued : PartsBacked(x.sig.parts, made)

SignatureInv == TypeOK /\ Backed

\* The parts of signPermit are backed once its holders have signed.
LEMMA SignPermitBacked ==
    ASSUME NEW ks \in Seq(Keys), NEW d, NEW signers, AllSign(ks, signers),
           NEW raws, HandSigned(ks, d, signers) \subseteq raws,
           \A i \in DOMAIN ks : ks[i].auth \in raws \cup {None}
    PROVE  \A i \in DOMAIN SignPermit(ks, d, signers) :
              SignPermit(ks, d, signers)[i].signed => SignPermit(ks, d, signers)[i].raw \in raws
<1> SUFFICES ASSUME NEW i \in DOMAIN ks, i \in signers
             PROVE  RawSig(ks[i], d) \in raws
    BY DEF SignPermit, Part
<1>1. CASE ks[i].auth = None
  <2>1. ks[i].signs
      BY DEF AllSign
  <2>2. [by |-> ks[i].address, over |-> d] \in HandSigned(ks, d, signers)
      BY <1>1, <2>1 DEF HandSigned
  <2> QED
      BY <1>1, <2>2 DEF RawSig
<1>2. CASE ks[i].auth # None
    BY <1>2 DEF RawSig
<1> QED
    BY <1>1, <1>2

LEMMA InitSignatureInv == Init => SignatureInv
<1> SUFFICES ASSUME Init PROVE SignatureInv
    OBVIOUS
<1>1. keys \in Seq(Keys) /\ \A i \in DOMAIN keys : keys[i].auth = None
    BY KeysetsAreKeys DEF Init
<1>2. TypeOK
    BY <1>1 DEF Init, TypeOK
<1>3. Backed
    BY <1>1 DEF Init, Backed
<1> QED
    BY <1>2, <1>3 DEF SignatureInv

\* Issuing a signature with backed parts.
LEMMA IssueKeepsInv ==
    ASSUME SignatureInv, NEW m \in Messages, NEW sig \in Sigs, NEW signers \in SUBSET Nat,
           NEW raws \in SUBSET RawSigs, Make(raws), Issue(m, sig, signers),
           \A i \in DOMAIN sig.parts : sig.parts[i].signed => sig.parts[i].raw \in made',
           UNCHANGED <<keys, permits, store, now>>
    PROVE  SignatureInv'
<1> DEFINE x == [message |-> m, sig |-> sig, keys |-> keys, signers |-> signers]
<1>1. made \subseteq made' /\ made' \subseteq RawSigs /\ issued' = issued \cup {x}
    BY DEF SignatureInv, TypeOK, Make, Issue
<1>2. x \in IssuedSet
    BY DEF SignatureInv, TypeOK
<1>3. TypeOK'
    BY <1>1, <1>2 DEF SignatureInv, TypeOK
<1>4. Backed'
    BY <1>1 DEF SignatureInv, Backed, PartsBacked
<1> QED
    BY <1>3, <1>4 DEF SignatureInv

\* Giving a session key a permit with backed parts.
LEMMA PermitKeepsInv ==
    ASSUME SignatureInv, NEW s \in Sessions, NEW p \in PermitSet,
           made \subseteq made', made' \subseteq RawSigs,
           permits' = [permits EXCEPT ![s] = p],
           \A i \in DOMAIN p.parts : p.parts[i].signed => p.parts[i].raw \in made',
           keys' \in Seq(Keys), \A i \in DOMAIN keys' : keys'[i].auth \in made' \cup {None},
           UNCHANGED <<store, issued, now>>
    PROVE  SignatureInv'
<1>1. TypeOK'
    BY DEF SignatureInv, TypeOK
<1>2. \A r \in Sessions : permits'[r] # None => PartsBacked(permits'[r].parts, made')
  <2> SUFFICES ASSUME NEW r \in Sessions, permits'[r] # None
               PROVE  PartsBacked(permits'[r].parts, made')
      OBVIOUS
  <2>1. CASE r = s
      BY <2>1 DEF PartsBacked, SignatureInv, TypeOK
  <2>2. CASE r # s
    <3>1. permits'[r] = permits[r]
        BY <2>2 DEF SignatureInv, TypeOK
    <3> QED
        BY <3>1 DEF SignatureInv, Backed, PartsBacked
  <2> QED
      BY <2>1, <2>2
<1>3. Backed'
    BY <1>2 DEF SignatureInv, Backed, PartsBacked
<1> QED
    BY <1>1, <1>3 DEF SignatureInv
\* Making raw signatures changes nothing that was backed.
LEMMA MakeKeepsInv ==
    ASSUME SignatureInv, made \subseteq made', made' \subseteq RawSigs,
           keys' \in Seq(Keys), \A i \in DOMAIN keys' : keys'[i].auth \in made' \cup {None},
           store' \in StoreSet \cup {None}, store' # None => store'.authorization \in made',
           now' \in Times, UNCHANGED <<permits, issued>>
    PROVE  SignatureInv'
<1>1. TypeOK'
    BY DEF SignatureInv, TypeOK
<1>2. Backed'
    BY DEF SignatureInv, Backed, PartsBacked
<1> QED
    BY <1>1, <1>2 DEF SignatureInv

\* signMessage of a set of signers.
LEMMA SignMessageKeepsInv ==
    ASSUME SignatureInv, NEW m \in Messages, NEW signers \in Signers, SignMessage(m, signers)
    PROVE  SignatureInv'
<1> DEFINE sig == [session |-> FALSE, timestamp |-> 0, weight |-> 0, raw |-> None,
                   parts |-> SignPermit(keys, m, signers)]
           raws == HandSigned(keys, m, signers)
<1>1. keys \in Seq(Keys) /\ m \in Digests /\ signers \in SUBSET Nat
    BY DEF SignatureInv, TypeOK, Digests, Signers
<1>2. sig \in Sigs
    BY <1>1, SignPermitType DEF Sigs
<1>3. raws \in SUBSET RawSigs
    BY <1>1, HandSignedType
<1>4. made' = made \cup raws /\ Make(raws) /\ Issue(m, sig, signers)
    BY DEF SignMessage, Make
<1>5. \A i \in DOMAIN keys : keys[i].auth \in made' \cup {None}
    BY <1>4 DEF SignatureInv, Backed
<1>6. AllSign(keys, signers) /\ HandSigned(keys, m, signers) \subseteq made'
    BY <1>4 DEF SignMessage
<1>7. \A i \in DOMAIN SignPermit(keys, m, signers) :
         SignPermit(keys, m, signers)[i].signed => SignPermit(keys, m, signers)[i].raw \in made'
    BY <1>1, <1>5, <1>6, SignPermitBacked
<1>8. \A i \in DOMAIN sig.parts : sig.parts[i].signed => sig.parts[i].raw \in made'
    BY <1>7
<1>9. UNCHANGED <<keys, permits, store, now>>
    BY DEF SignMessage
<1> HIDE DEF sig, raws
<1> QED
    BY <1>1, <1>2, <1>3, <1>4, <1>8, <1>9, IssueKeepsInv

\* signMessage of a session key.
LEMMA SignWithSessionKeepsInv ==
    ASSUME SignatureInv, NEW m \in Messages, NEW s \in Sessions, SignWithSession(m, s)
    PROVE  SignatureInv'
<1> DEFINE raw == [by |-> s, over |-> m]
           sig == [session |-> TRUE, timestamp |-> permits[s].timestamp,
                   weight |-> permits[s].weight, raw |-> raw, parts |-> permits[s].parts]
<1>1. permits[s] \in PermitSet
    BY DEF SignWithSession, SignatureInv, TypeOK
<1>2. raw \in RawSigs
    BY DEF RawSigs, Digests
<1>3. sig \in Sigs
    BY <1>1, <1>2 DEF Sigs
<1>4. Make({raw}) /\ Issue(m, sig, {})
    BY DEF SignWithSession
<1>5. made \subseteq made'
    BY <1>4 DEF Make
<1>6. \A i \in DOMAIN sig.parts : sig.parts[i].signed => sig.parts[i].raw \in made'
    BY <1>5 DEF SignWithSession, SignatureInv, Backed, PartsBacked
<1>7. {raw} \in SUBSET RawSigs /\ {} \in SUBSET Nat /\ UNCHANGED <<keys, permits, store, now>>
    BY <1>2 DEF SignWithSession
<1> HIDE DEF sig, raw
<1> QED
    BY <1>3, <1>4, <1>6, <1>7, IssueKeepsInv

\* A permit, made by keys that can be asked to.
LEMMA PermitType ==
    ASSUME NEW ks \in Seq(Keys), NEW s \in Sessions, NEW t \in Nat, NEW w \in Nat, NEW signers
    PROVE  Permit(ks, s, t, w, signers) \in PermitSet
<1>1. SignPermit(ks, PermitDigest(s, t, w), signers) \in Seq(Parts)
    BY PermitDigestType, SignPermitType
<1> QED
    BY <1>1 DEF Permit

LEMMA GeneratePermitKeepsInv ==
    ASSUME SignatureInv, NEW s \in Sessions, NEW t \in Times, NEW w \in SessionWeights,
           NEW signers, GeneratePermit(s, t, w, signers)
    PROVE  SignatureInv'
<1> DEFINE d == PermitDigest(s, t, w)
           p == Permit(keys, s, t, w, signers)
<1>1. keys \in Seq(Keys) /\ t \in Nat /\ w \in Nat /\ d \in Digests
    BY MessageSignatureAssumption, PermitDigestType DEF SignatureInv, TypeOK
<1>2. p \in PermitSet
    BY <1>1, PermitType
<1>3. /\ made' = made \cup HandSigned(keys, d, signers) /\ AllSign(keys, signers)
      /\ permits' = [permits EXCEPT ![s] = p] /\ UNCHANGED <<keys, store, issued, now>>
    BY DEF GeneratePermit, Make
<1>4. made \subseteq made' /\ made' \subseteq RawSigs /\ HandSigned(keys, d, signers) \subseteq made'
    BY <1>1, <1>3, HandSignedType DEF SignatureInv, TypeOK
<1>5. \A i \in DOMAIN keys : keys[i].auth \in made' \cup {None}
    BY <1>4 DEF SignatureInv, Backed
<1>6. \A i \in DOMAIN SignPermit(keys, d, signers) :
         SignPermit(keys, d, signers)[i].signed => SignPermit(keys, d, signers)[i].raw \in made'
    BY <1>1, <1>3, <1>4, <1>5, SignPermitBacked
<1>7. \A i \in DOMAIN p.parts : p.parts[i].signed => p.parts[i].raw \in made'
    BY <1>6 DEF Permit
<1>8. keys' \in Seq(Keys) /\ \A i \in DOMAIN keys' : keys'[i].auth \in made' \cup {None}
    BY <1>1, <1>3, <1>5
<1> HIDE DEF p, d
<1> QED
    BY <1>2, <1>3, <1>4, <1>7, <1>8, PermitKeepsInv

\* The keyset with the master key put in its place.
LEMMA RestoredKeys ==
    ASSUME SignatureInv, store # None, NEW ks,
           ks = [keys EXCEPT ![1] = Authorized(@, store)]
    PROVE  ks \in Seq(Keys) /\ \A i \in DOMAIN ks : ks[i].auth \in made \cup {None}
<1>1. keys \in Seq(Keys) /\ store \in StoreSet /\ store.authorization \in made
    BY DEF SignatureInv, TypeOK, Backed
<1>2. \A k \in Keys : /\ Authorized(k, store) \in Keys
                       /\ Authorized(k, store).auth = store.authorization
    BY <1>1 DEF Authorized, Keys, Classes
<1>3. ks \in Seq(Keys)
  <2> DEFINE k1 == Authorized(keys[1], store)
  <2>1. Len(keys) \in Nat /\ \A i \in 1..Len(keys) : keys[i] \in Keys
      BY <1>1
  <2>2. keys \in [1..Len(keys) -> Keys] /\ ks = [keys EXCEPT ![1] = k1]
      BY <1>1, <2>1
  <2>3. \A i \in 1..Len(keys) : i = 1 => k1 \in Keys
      BY <1>2, <2>1
  <2> HIDE DEF k1
  <2>4. ks \in [1..Len(keys) -> Keys]
      BY <2>1, <2>2, <2>3
  <2> QED
      BY <2>1, <2>4
<1>4. \A i \in DOMAIN ks : ks[i] = keys[i] \/ (i = 1 /\ ks[i] = Authorized(keys[1], store))
    BY <1>1
<1>5. \A i \in DOMAIN ks : i \in DOMAIN keys /\ keys[i] \in Keys
    BY <1>1
<1> QED
    BY <1>1, <1>2, <1>3, <1>4, <1>5 DEF SignatureInv, Backed

LEMMA FromSessionKeyStoreKeepsInv ==
    ASSUME SignatureInv, FromSessionKeyStore
    PROVE  SignatureInv'
<1> DEFINE d == PermitDigest(store.session, store.timestamp, store.weight)
           p == Permit(keys', store.session, store.timestamp, store.weight, {1})
<1>1. store \in StoreSet /\ store # None /\ keys \in Seq(Keys)
    BY DEF FromSessionKeyStore, SignatureInv, TypeOK
<1>2. keys' = [keys EXCEPT ![1] = Authorized(@, store)]
    BY DEF FromSessionKeyStore
<1>3. keys' \in Seq(Keys) /\ \A i \in DOMAIN keys' : keys'[i].auth \in made \cup {None}
    BY <1>1, <1>2, RestoredKeys
<1>4. \A i \in DOMAIN keys' : i = 1 => keys'[i].signs /\ keys'[i].auth = store.authorization
  <2>1. \A i \in DOMAIN keys' : i \in DOMAIN keys /\ keys[i] \in Keys
      BY <1>1, <1>2
  <2>2. \A i \in DOMAIN keys' : i = 1 => keys'[i] = Authorized(keys[i], store)
      BY <1>1, <1>2, <2>1
  <2>3. \A k \in Keys : /\ Authorized(k, store).signs
                         /\ Authorized(k, store).auth = store.authorization
      BY DEF Authorized, Keys
  <2> QED
      BY <2>1, <2>2, <2>3
<1>5. AllSign(keys', {1}) /\ HandSigned(keys', d, {1}) = {}
  <2>1. store.authorization # None
      BY <1>1, MessageSignatureAssumption
  <2> QED
      BY <1>4, <2>1 DEF AllSign, HandSigned
<1>6. p \in PermitSet
    BY <1>1, <1>3, PermitType
<1>7. /\ permits' = [permits EXCEPT ![store.session] = p] /\ made' = made
      /\ UNCHANGED <<store, issued, now>> /\ store.session \in Sessions
    BY <1>1 DEF FromSessionKeyStore
<1>8. \A i \in DOMAIN SignPermit(keys', d, {1}) :
         SignPermit(keys', d, {1})[i].signed => SignPermit(keys', d, {1})[i].raw \in made
    BY <1>3, <1>5, SignPermitBacked
<1>9. \A i \in DOMAIN p.parts : p.parts[i].signed => p.parts[i].raw \in made'
    BY <1>7, <1>8 DEF Permit
<1>10. made' \subseteq RawSigs
    BY <1>7 DEF SignatureInv, TypeOK
<1> HIDE DEF p, d
<1> QED
    BY <1>3, <1>6, <1>7, <1>9, <1>10, PermitKeepsInv

LEMMA NextSignatureInv == SignatureInv /\ [Next]_vars => SignatureInv'
<1> SUFFICES ASSUME SignatureInv, [Next]_vars PROVE SignatureInv'
    OBVIOUS
<1>0. /\ keys \in Seq(Keys) /\ \A i \in DOMAIN keys : keys[i].auth \in made \cup {None}
      /\ made \subseteq RawSigs /\ store \in StoreSet \cup {None}
      /\ store # None => store.authorization \in made
      /\ now \in Times
    BY DEF SignatureInv, TypeOK, Backed
<1>1. ASSUME NEW m \in Messages, NEW signers \in Signers, SignMessage(m, signers)
      PROVE  SignatureInv'
    BY <1>1, SignMessageKeepsInv
<1>2. ASSUME NEW d \in Digests, NEW signers \in Signers, SignFails(d, signers)
      PROVE  SignatureInv'
  <2>1. /\ made' = made \cup HandSigned(keys, d, signers)
        /\ UNCHANGED <<keys, permits, store, issued, now>>
      BY <1>2 DEF SignFails, Make
  <2>2. made \subseteq made' /\ made' \subseteq RawSigs
      BY <1>0, <2>1, HandSignedType
  <2> QED
      BY <1>0, <2>1, <2>2, MakeKeepsInv
<1>3. ASSUME NEW s \in Sessions, NEW t \in Times, NEW w \in SessionWeights,
             StoreSession(s, t, w)
      PROVE  SignatureInv'
  <2> DEFINE raw == [by |-> keys[1].address, over |-> PermitDigest(s, t, w)]
             st == [session |-> s, timestamp |-> t, weight |-> w, authorization |-> raw]
  <2>1. keys[1].address \in Addresses \cup Sessions
    <3>1. keys # <<>>
        BY <1>3 DEF StoreSession
    <3>2. keys[1] \in Keys
        BY <1>0, <3>1
    <3> QED
        BY <3>2 DEF Keys
  <2>2. t \in Nat /\ w \in Nat /\ PermitDigest(s, t, w) \in Digests
      BY MessageSignatureAssumption, PermitDigestType
  <2>3. raw \in RawSigs /\ st \in StoreSet
      BY <2>1, <2>2 DEF RawSigs
  <2>4. made' = made \cup {raw} /\ store' = st /\ UNCHANGED <<keys, permits, issued, now>>
      BY <1>3 DEF StoreSession, Make
  <2>5. store'.authorization \in made'
      BY <2>4
  <2> HIDE DEF raw, st
  <2> QED
      BY <1>0, <2>3, <2>4, <2>5, MakeKeepsInv
<1>4. ASSUME NEW s \in Sessions, NEW t \in Times, NEW w \in SessionWeights,
             NEW signers \in Signers, GeneratePermit(s, t, w, signers)
      PROVE  SignatureInv'
    BY <1>4, GeneratePermitKeepsInv
<1>5. ASSUME NEW m \in Messages, NEW s \in Sessions, SignWithSession(m, s)
      PROVE  SignatureInv'
    BY <1>5, SignWithSessionKeepsInv
<1>6. CASE FromSessionKeyStore
    BY <1>6, FromSessionKeyStoreKeepsInv
<1>7. ASSUME NEW kept \in BOOLEAN, RestoreKeyset(kept)
      PROVE  SignatureInv'
  <2>1. \A k \in Keys : Restored(k, kept) \in Keys /\ Restored(k, kept).auth = None
      BY DEF Restored, Written, Keys
  <2>2. keys' = [i \in 1..Len(keys) |-> Restored(keys[i], kept)] /\ UNCHANGED <<made, permits, store, issued, now>>
      BY <1>0, <1>7 DEF RestoreKeyset
  <2>3. \A i \in 1..Len(keys) : keys[i] \in Keys
      BY <1>0
  <2>4. keys' \in [1..Len(keys) -> Keys] /\ Len(keys) \in Nat
      BY <1>0, <2>1, <2>2, <2>3
  <2>5. keys' \in Seq(Keys) /\ \A i \in DOMAIN keys' : keys'[i].auth \in made' \cup {None}
      BY <2>1, <2>2, <2>3, <2>4
  <2> QED
      BY <1>0, <2>2, <2>5, MakeKeepsInv
<1>8. CASE Tick
    BY <1>0, <1>8, MakeKeepsInv DEF Tick
<1>9. ASSUME NEW ks \in Keysets, SetKeyset(ks)
      PROVE  SignatureInv'
  <2>1. keys' = ks /\ UNCHANGED <<made, permits, store, issued, now>>
      BY <1>9 DEF SetKeyset
  <2>2. keys' \in Seq(Keys) /\ \A i \in DOMAIN keys' : keys'[i].auth \in made' \cup {None}
      BY <2>1, KeysetsAreKeys
  <2> QED
      BY <1>0, <2>1, <2>2, MakeKeepsInv
<1>10. CASE UNCHANGED vars
    BY <1>0, <1>10, MakeKeepsInv DEF vars
<1>11. \A m \in Messages : m \in Digests
    BY DEF Digests
<1>12. \A s \in Sessions, t \in Times, w \in SessionWeights : PermitDigest(s, t, w) \in Digests
    BY MessageSignatureAssumption, PermitDigestType
<1> QED
    BY <1>1, <1>2, <1>3, <1>4, <1>5, <1>6, <1>7, <1>8, <1>9, <1>10, <1>11, <1>12 DEF Next

LEMMA SignatureInvTheorem == Spec => []SignatureInv
    BY InitSignatureInv, NextSignatureInv, PTL DEF Spec

-----------------------------------------------------------------------------
\* The key objects, permits and signatures always have their types.
THEOREM SignatureTypeCorrect == Spec => []TypeOK
<1>1. SignatureInv => TypeOK
    BY DEF SignatureInv
<1> QED
    BY <1>1, SignatureInvTheorem, PTL

LEMMA SameLength == \A m, n \in Nat : 1..m = 1..n => m = n
<1> SUFFICES ASSUME NEW m \in Nat, NEW n \in Nat, 1..m = 1..n PROVE m = n
    OBVIOUS
<1>1. (m \in 1..m \/ m = 0) /\ (n \in 1..n \/ n = 0)
    OBVIOUS
<1>2. (m \in 1..n \/ m = 0) /\ (n \in 1..m \/ n = 0)
    BY <1>1
<1> QED
    BY <1>2

\* What the keys of a parsed signature weigh is what the keyset gives them.
LEMMA ParsedWeights ==
    ASSUME NEW ks \in Seq(Keys), NEW parts \in Seq(Parts), NEW d,
           KeysetHash(ks) = ParsedHash(parts, d)
    PROVE  /\ Len(parts) = Len(ks)
           /\ \A i \in 1..Len(ks) :
                 /\ ParsedAddress(parts[i], d) = ks[i].address
                 /\ BytesToUint32(parts[i].weight.assetsOp) = ks[i].weight.assetsOp
<1>1. DOMAIN ks = 1..Len(ks) /\ Len(ks) \in Nat /\ DOMAIN parts = 1..Len(parts) /\ Len(parts) \in Nat
    OBVIOUS
<1>2. DOMAIN KeysetHash(ks) = 1..Len(ks) /\ DOMAIN ParsedHash(parts, d) = 1..Len(parts)
    BY <1>1 DEF KeysetHash, ParsedHash
<1>3. Len(parts) = Len(ks)
    BY <1>1, <1>2, SameLength
<1>4. ASSUME NEW i \in 1..Len(ks)
      PROVE  /\ ParsedAddress(parts[i], d) = ks[i].address
             /\ BytesToUint32(parts[i].weight.assetsOp) = ks[i].weight.assetsOp
  <2>1. KeysetHash(ks)[i] = Serialized(ks[i])
      BY <1>1 DEF KeysetHash
  <2>2. ParsedHash(parts, d)[i]
          = <<parts[i].type, ParsedAddress(parts[i], d), ParsedWeight(parts[i].weight)>>
      BY <1>1, <1>3 DEF ParsedHash
  <2>3. ParsedAddress(parts[i], d) = ks[i].address /\ ParsedWeight(parts[i].weight) = ks[i].weight
      BY <2>1, <2>2 DEF Serialized
  <2>4. ParsedWeight(parts[i].weight).assetsOp = BytesToUint32(parts[i].weight.assetsOp)
      BY DEF ParsedWeight
  <2> QED
      BY <2>3, <2>4
<1> QED
    BY <1>3, <1>4

\* A signature of backed parts that the validation accepts has been approved by keys
\* of weight 100.
LEMMA ValidatedIsApproved ==
    ASSUME SignatureInv, NEW d, NEW parts \in Seq(Parts), PartsBacked(parts, made),
           ValidateSignature(d, parts, KeysetHash(keys))
    PROVE  \E S \in SUBSET ApprovedBy(keys, d) : WeightOf(keys, S) >= 100
<1> DEFINE S == {i \in 1..Len(keys) : parts[i].signed}
<1>0. keys \in Seq(Keys) /\ made \subseteq RawSigs
    BY DEF SignatureInv, TypeOK
<1>1. KeysetHash(keys) = ParsedHash(parts, d) /\ Total(SignedWeights(parts)) >= 100
    BY DEF ValidateSignature
<1>2. /\ Len(parts) = Len(keys)
      /\ \A i \in 1..Len(keys) :
            /\ ParsedAddress(parts[i], d) = keys[i].address
            /\ BytesToUint32(parts[i].weight.assetsOp) = keys[i].weight.assetsOp
    BY <1>0, <1>1, ParsedWeights
<1>3. SignedWeights(parts) = [i \in 1..Len(keys) |-> IF i \in S THEN keys[i].weight.assetsOp ELSE 0]
    BY <1>2 DEF SignedWeights
<1>4. WeightOf(keys, S) >= 100
    BY <1>1, <1>3 DEF WeightOf
<1>5. ASSUME NEW i \in S
      PROVE  i \in ApprovedBy(keys, d)
  <2>1. i \in DOMAIN keys /\ i \in DOMAIN parts /\ parts[i].signed
      BY <1>0, <1>2
  <2>2. parts[i].raw \in made /\ parts[i].raw \in RawSigs
      BY <1>0, <2>1 DEF PartsBacked
  <2>3. Recover(parts[i].raw, d) = keys[i].address
      BY <1>2, <2>1 DEF ParsedAddress
  <2>4. keys[i].address \in Addresses
    <3>1. keys[i] \in Keys
        BY <1>0, <2>1
    <3> QED
        BY <3>1 DEF Keys
  <2>5. parts[i].raw.over = d /\ parts[i].raw.by = keys[i].address
      BY <2>3, <2>4, MessageSignatureAssumption DEF Recover
  <2>6. parts[i].raw = [by |-> keys[i].address, over |-> d]
      BY <2>2, <2>5 DEF RawSigs
  <2> QED
      BY <2>1, <2>2, <2>6 DEF ApprovedBy
<1> HIDE DEF S
<1> QED
    BY <1>4, <1>5

\* Whatever validates off chain, under the keyset the account has now, has been
\* approved by holders of its keys who weigh 100 for asset operations.
THEOREM ValidMeansApprovedTheorem == Spec => []ValidMeansApproved
<1>1. SignatureInv => ValidMeansApproved
  <2> SUFFICES ASSUME SignatureInv, NEW x \in issued, NEW m \in Messages,
                      IsValidSignature(m, x.sig, KeysetHash(keys)) = "valid"
               PROVE  \E S \in SUBSET ApprovedBy(keys, CheckedOver(m, x.sig)) :
                          WeightOf(keys, S) >= 100
      BY DEF ValidMeansApproved
  <2>1. x.sig.parts \in Seq(Parts)
      BY DEF SignatureInv, TypeOK, Sigs
  <2>2. PartsBacked(x.sig.parts, made)
      BY DEF SignatureInv, Backed
  <2>3. ValidateSignature(CheckedOver(m, x.sig), x.sig.parts, KeysetHash(keys))
      BY DEF IsValidSignature
  <2> QED
      BY <2>1, <2>2, <2>3, ValidatedIsApproved
<1> QED
    BY <1>1, SignatureInvTheorem, PTL

\* For every keyset and choice of plain accounts, the bytes that getSigSize has paid for
\* are the bytes signMessage signs.
THEOREM SigSizeTheorem ==
    ASSUME NEW ks \in Seq(Keys), NEW d, NEW signers,
           \A i \in DOMAIN ks \cap signers : KeyType(ks[i].class) = "KeySecp256k1"
    PROVE  ByteSize(SignPermit(ks, d, signers)) = GetSigSize(ks, signers)
<1> DEFINE parts == SignPermit(ks, d, signers)
<1>1. DOMAIN ks = 1..Len(ks) /\ Len(ks) \in Nat
    OBVIOUS
<1>2. parts = [i \in 1..Len(ks) |-> Part(ks[i], d, i \in signers)]
    BY <1>1 DEF SignPermit
<1>3. Len(parts) = Len(ks)
    BY <1>1, <1>2
<1>4. ASSUME NEW i \in 1..Len(ks)
      PROVE  PartSize(parts[i]) = EstimatedSizes(ks, signers)[i]
  <2>1. parts[i] = Part(ks[i], d, i \in signers)
      BY <1>2
  <2>2. parts[i].type = KeyType(ks[i].class) /\ parts[i].signed = (i \in signers)
      BY <2>1 DEF Part
  <2>3. EstimatedSizes(ks, signers)[i]
          = IF i \in signers THEN 80 ELSE 2 + IdSize(KeyType(ks[i].class)) + 12
      BY DEF EstimatedSizes
  <2>4. IdSize(KeyType(ks[i].class)) \in Nat
      BY DEF IdSize
  <2>5. CASE i \in signers
    <3>1. PartSize(parts[i]) = 2 + 66 + 12
        BY <2>2, <2>5 DEF PartSize, RawSize, WeightSize
    <3>2. EstimatedSizes(ks, signers)[i] = 80
        BY <2>3, <2>5
    <3> QED
        BY <3>1, <3>2
  <2>6. CASE i \notin signers
      BY <2>2, <2>3, <2>4, <2>6 DEF PartSize, WeightSize
  <2> QED
      BY <2>5, <2>6
<1> HIDE DEF parts
<1>5. [i \in 1..Len(parts) |-> PartSize(parts[i])] = EstimatedSizes(ks, signers)
    BY <1>3, <1>4 DEF EstimatedSizes
<1>6. ByteSize(parts) = GetSigSize(ks, signers)
    BY <1>5 DEF ByteSize, GetSigSize
<1> QED
    BY <1>6 DEF parts

\* A stored authorization is over the permit of the session it is stored with.
StoreOwn ==
    store # None =>
        store.authorization.over = PermitDigest(store.session, store.timestamp, store.weight)

LEMMA NextStoreOwn == StoreOwn /\ [Next]_vars => StoreOwn'
<1> SUFFICES ASSUME StoreOwn, [Next]_vars PROVE StoreOwn'
    OBVIOUS
<1>1. CASE UNCHANGED store
    BY <1>1 DEF StoreOwn
<1>2. ASSUME NEW s \in Sessions, NEW t \in Times, NEW w \in SessionWeights, StoreSession(s, t, w)
      PROVE  StoreOwn'
    BY <1>2 DEF StoreSession, StoreOwn
<1>3. ASSUME NEW m \in Messages, NEW signers \in Signers,
             SignMessage(m, signers) \/ SignFails(m, signers)
      PROVE  StoreOwn'
    BY <1>1, <1>3 DEF SignMessage, SignFails
<1>4. ASSUME NEW s \in Sessions, NEW t \in Times, NEW w \in SessionWeights, NEW signers \in Signers,
             GeneratePermit(s, t, w, signers) \/ SignFails(PermitDigest(s, t, w), signers)
      PROVE  StoreOwn'
    BY <1>1, <1>4 DEF GeneratePermit, SignFails
<1>5. CASE \/ \E m \in Messages, s \in Sessions : SignWithSession(m, s)
           \/ FromSessionKeyStore \/ Tick \/ \E kept \in BOOLEAN : RestoreKeyset(kept)
           \/ \E ks \in Keysets : SetKeyset(ks)
    BY <1>1, <1>5 DEF SignWithSession, FromSessionKeyStore, Tick, RestoreKeyset, SetKeyset
<1>6. CASE UNCHANGED vars
    BY <1>1, <1>6 DEF vars
<1> QED
    BY <1>2, <1>3, <1>4, <1>5, <1>6 DEF Next

\* What the part of each key of a restored permit proves.
LEMMA RestoredParts ==
    ASSUME SignatureInv, StoreOwn, FromSessionKeyStore
    PROVE  LET d     == PermitDigest(store.session, store.timestamp, store.weight)
               parts == permits'[store.session].parts
           IN  /\ DOMAIN parts = DOMAIN keys
               /\ \A i \in DOMAIN keys :
                     /\ parts[i].type = KeyType(keys[i].class) /\ parts[i].weight = keys[i].weight
                     /\ ParsedAddress(parts[i], d) =
                           IF i = 1 THEN store.authorization.by ELSE keys[i].address
<1> DEFINE d == PermitDigest(store.session, store.timestamp, store.weight)
           parts == SignPermit(keys', d, {1})
<1>1. /\ keys \in Seq(Keys) /\ keys # <<>> /\ keys[1].class = "KeySecp256k1"
      /\ store \in StoreSet /\ permits \in [Sessions -> PermitSet \cup {None}]
    BY DEF FromSessionKeyStore, SignatureInv, TypeOK
<1>2. permits'[store.session].parts = parts
    BY <1>1 DEF FromSessionKeyStore, Permit
<1>3. keys' = [keys EXCEPT ![1] = Authorized(@, store)] /\ 1 \in DOMAIN keys
    BY <1>1 DEF FromSessionKeyStore
<1>4. /\ DOMAIN parts = DOMAIN keys
      /\ \A i \in DOMAIN keys : parts[i] = Part(keys'[i], d, i = 1)
    BY <1>3 DEF SignPermit
<1> HIDE DEF parts
<1>5. ASSUME NEW i \in DOMAIN keys, i # 1
      PROVE  /\ parts[i].type = KeyType(keys[i].class) /\ parts[i].weight = keys[i].weight
             /\ ParsedAddress(parts[i], d) = keys[i].address
  <2>1. keys'[i] = keys[i] /\ parts[i] = Part(keys[i], d, FALSE)
      BY <1>3, <1>4, <1>5
  <2> QED
      BY <2>1 DEF Part, ParsedAddress
<1>6. /\ parts[1].type = KeyType(keys[1].class) /\ parts[1].weight = keys[1].weight
      /\ ParsedAddress(parts[1], d) = store.authorization.by
  <2>1. parts[1] = Part(Authorized(keys[1], store), d, TRUE)
      BY <1>3, <1>4
  <2>2. store.authorization \in RawSigs /\ store.authorization # None
      BY <1>1, MessageSignatureAssumption
  <2>3. /\ parts[1].type = KeyType("KeySecp256k1") /\ parts[1].weight = keys[1].weight
        /\ parts[1].signed /\ parts[1].raw = store.authorization
      BY <2>1, <2>2 DEF Part, Authorized, RawSig
  <2>4. Recover(store.authorization, d) = store.authorization.by
      BY <1>1, <2>2 DEF StoreOwn, FromSessionKeyStore, Recover
  <2> QED
      BY <1>1, <2>3, <2>4 DEF ParsedAddress
<1>7. /\ DOMAIN parts = DOMAIN keys
      /\ \A i \in DOMAIN keys :
            /\ parts[i].type = KeyType(keys[i].class) /\ parts[i].weight = keys[i].weight
            /\ ParsedAddress(parts[i], d) = IF i = 1 THEN store.authorization.by ELSE keys[i].address
    BY <1>4, <1>5, <1>6
<1> QED
    BY <1>2, <1>7

\* For every keyset, session and history of the key objects, the permit of a restored
\* session proves the keyset it is restored for just when its store was made under the
\* master key of this keyset.
THEOREM RestoredPermitTheorem == Spec => RestoredPermitCounts
<1>1. Init => StoreOwn
    BY DEF Init, StoreOwn
<1>2. ASSUME SignatureInv, StoreOwn, FromSessionKeyStore
      PROVE  LET d == PermitDigest(store.session, store.timestamp, store.weight)
             IN  ProvedHash(permits'[store.session].parts, d) = KeysetHash(keys)
                   <=> store.authorization.by = keys[1].address
  <2> DEFINE d == PermitDigest(store.session, store.timestamp, store.weight)
             parts == permits'[store.session].parts
  <2>1. 1 \in DOMAIN keys
      BY <1>2 DEF FromSessionKeyStore, SignatureInv, TypeOK
  <2>2. /\ DOMAIN parts = DOMAIN keys
        /\ \A i \in DOMAIN keys :
              /\ parts[i].type = KeyType(keys[i].class) /\ parts[i].weight = keys[i].weight
              /\ ParsedAddress(parts[i], d) = IF i = 1 THEN store.authorization.by ELSE keys[i].address
      BY <1>2, RestoredParts
  <2> HIDE DEF parts, d
  <2>3. ASSUME store.authorization.by = keys[1].address
        PROVE  ProvedHash(parts, d) = KeysetHash(keys)
      BY <2>2, <2>3 DEF ProvedHash, KeysetHash, Serialized
  <2>4. ASSUME ProvedHash(parts, d) = KeysetHash(keys)
        PROVE  store.authorization.by = keys[1].address
    <3>1. ProvedHash(parts, d)[1][2] = store.authorization.by
        BY <2>1, <2>2 DEF ProvedHash
    <3>2. KeysetHash(keys)[1][2] = keys[1].address
        BY <2>1 DEF KeysetHash, Serialized
    <3> QED
        BY <2>4, <3>1, <3>2
  <2> QED
      BY <2>3, <2>4 DEF parts, d
<1>3. SignatureInv /\ StoreOwn =>
        [FromSessionKeyStore =>
           LET d == PermitDigest(store.session, store.timestamp, store.weight)
           IN  ProvedHash(permits'[store.session].parts, d) = KeysetHash(keys)
                 <=> store.authorization.by = keys[1].address]_vars
    BY <1>2
<1> QED
    BY <1>1, <1>3, NextStoreOwn, SignatureInvTheorem, PTL DEF Spec, RestoredPermitCounts

-----------------------------------------------------------------------------
(* What signMessage returned is what it made of the keyset it was made with. *)

\* A message's signature x is the one signPermit made for some of the keys.
AsMade(x) ==
    ~x.sig.session => /\ x.sig.parts = SignPermit(x.keys, x.message, x.signers)
                      /\ x.signers # {} /\ x.signers \subseteq 1..Len(x.keys)

IssuedOK == \A x \in issued : AsMade(x)

LEMMA NextIssued == IssuedOK /\ [Next]_vars => IssuedOK'
<1> SUFFICES ASSUME IssuedOK, [Next]_vars PROVE IssuedOK'
    OBVIOUS
<1>1. ASSUME NEW m \in Messages, NEW signers \in Signers, SignMessage(m, signers)
      PROVE  IssuedOK'
  <2> DEFINE sig == [session |-> FALSE, timestamp |-> 0, weight |-> 0, raw |-> None,
                     parts |-> SignPermit(keys, m, signers)]
             x == [message |-> m, sig |-> sig, keys |-> keys, signers |-> signers]
  <2>1. issued' = issued \cup {x}
      BY <1>1 DEF SignMessage, Issue
  <2>2. /\ x.sig.parts = SignPermit(x.keys, x.message, x.signers)
        /\ x.signers # {} /\ x.signers \subseteq 1..Len(x.keys)
      BY DEF Signers
  <2> HIDE DEF x
  <2> QED
      BY <2>1, <2>2 DEF IssuedOK, AsMade
<1>2. ASSUME NEW m \in Messages, NEW s \in Sessions, SignWithSession(m, s)
      PROVE  IssuedOK'
  <2>1. PICK sig, signers : /\ sig.session
                            /\ issued' = issued \cup {[message |-> m, sig |-> sig, keys |-> keys,
                                                       signers |-> signers]}
      BY <1>2 DEF SignWithSession, Issue
  <2> QED
      BY <2>1 DEF IssuedOK, AsMade
<1>3. CASE UNCHANGED issued
    BY <1>3 DEF IssuedOK
<1>4. ASSUME NEW s \in Sessions, NEW t \in Times, NEW w \in SessionWeights, NEW signers \in Signers,
             GeneratePermit(s, t, w, signers) \/ SignFails(PermitDigest(s, t, w), signers)
      PROVE  IssuedOK'
    BY <1>3, <1>4 DEF GeneratePermit, SignFails
<1>5. CASE \/ \E s \in Sessions, t \in Times, w \in SessionWeights : StoreSession(s, t, w)
           \/ \E m \in Messages, signers \in Signers : SignFails(m, signers)
    BY <1>3, <1>5 DEF StoreSession, SignFails
<1>6. CASE \/ FromSessionKeyStore \/ Tick \/ \E kept \in BOOLEAN : RestoreKeyset(kept)
           \/ \E ks \in Keysets : SetKeyset(ks)
    BY <1>3, <1>6 DEF FromSessionKeyStore, Tick, RestoreKeyset, SetKeyset
<1>7. CASE UNCHANGED vars
    BY <1>3, <1>7 DEF vars
<1> QED
    BY <1>1, <1>2, <1>4, <1>5, <1>6, <1>7 DEF Next

LEMMA IssuedInvariant == Spec => []IssuedOK
<1>1. Init => IssuedOK
    BY DEF Init, IssuedOK
<1> QED
    BY <1>1, NextIssued, PTL DEF Spec

\* What signMessage of plain accounts returns is as long as getSigSize says.
THEOREM IssuedSizeTheorem == Spec => []SigSizeIsExact
<1>1. SignatureInv /\ IssuedOK => SigSizeIsExact
  <2> SUFFICES ASSUME SignatureInv, IssuedOK, NEW x \in issued, ~x.sig.session,
                      \A i \in x.signers : KeyType(x.keys[i].class) = "KeySecp256k1"
               PROVE  ByteSize(x.sig.parts) = GetSigSize(x.keys, x.signers)
      BY DEF SigSizeIsExact
  <2>1. x.keys \in Seq(Keys)
      BY DEF SignatureInv, TypeOK
  <2>2. x.sig.parts = SignPermit(x.keys, x.message, x.signers)
      BY DEF IssuedOK, AsMade
  <2> QED
      BY <2>1, <2>2, SigSizeTheorem
<1> QED
    BY <1>1, SignatureInvTheorem, IssuedInvariant, PTL

-----------------------------------------------------------------------------
(* What is issued validates.                                                *)

\* The weights that bytesToUint32 reads back as they were written.
Light(ks) ==
    \A i \in DOMAIN ks : /\ ks[i].weight.owner < 16777216
                         /\ ks[i].weight.assetsOp < 16777216
                         /\ ks[i].weight.guardian < 16777216

LightOK == Light(keys) /\ \A x \in issued : Light(x.keys)

LEMMA LightIsParsed ==
    ASSUME NEW ks \in Seq(Keys), Light(ks), NEW i \in DOMAIN ks
    PROVE  /\ ParsedWeight(ks[i].weight) = ks[i].weight
           /\ BytesToUint32(ks[i].weight.assetsOp) = ks[i].weight.assetsOp
<1>1. \A n \in Nat : n < 16777216 => BytesToUint32(n) = n
    BY DEF BytesToUint32
<1>2. ks[i] \in Keys
    OBVIOUS
<1>3. ks[i].weight \in RoleWeights
    BY <1>2 DEF Keys
<1> QED
    BY <1>1, <1>3 DEF Light, ParsedWeight, RoleWeights

\* A signature by plain accounts of their own is the keyset's for its own digest only.
LEMMA ParsedIsKeyset ==
    ASSUME NEW ks \in Seq(Keys), Light(ks), NEW d, NEW m, NEW signers,
           signers # {}, signers \subseteq 1..Len(ks), \A i \in signers : ks[i].auth = None
    PROVE  ParsedHash(SignPermit(ks, d, signers), m) = KeysetHash(ks) <=> m = d
<1> DEFINE parts == SignPermit(ks, d, signers)
<1>1. DOMAIN ks = 1..Len(ks) /\ Len(ks) \in Nat /\ DOMAIN parts = DOMAIN ks
    BY DEF SignPermit
<1>2. ASSUME NEW i \in DOMAIN ks
      PROVE  /\ parts[i].type = KeyType(ks[i].class) /\ parts[i].weight = ks[i].weight
             /\ parts[i].signed = (i \in signers) /\ parts[i].address = ks[i].address
             /\ i \in signers => parts[i].raw = [by |-> ks[i].address, over |-> d]
    BY <1>2 DEF SignPermit, Part, RawSig
<1> HIDE DEF parts
<1>3. ASSUME NEW i \in DOMAIN ks
      PROVE  /\ i \notin signers => ParsedAddress(parts[i], m) = ks[i].address
             /\ i \in signers => ParsedAddress(parts[i], m) = IF m = d THEN ks[i].address ELSE Nobody
  <2>1. CASE i \notin signers
    <3>1. ~parts[i].signed /\ parts[i].address = ks[i].address
        BY <1>2, <2>1
    <3> QED
        BY <2>1, <3>1 DEF ParsedAddress
  <2>2. CASE i \in signers
    <3>1. parts[i].signed /\ parts[i].raw = [by |-> ks[i].address, over |-> d]
        BY <1>2, <2>2
    <3>2. parts[i].raw.by = ks[i].address /\ parts[i].raw.over = d
        BY <3>1
    <3> QED
        BY <2>2, <3>1, <3>2 DEF ParsedAddress, Recover
  <2> QED
      BY <2>1, <2>2
<1>4. ASSUME m = d PROVE ParsedHash(parts, m) = KeysetHash(ks)
  <2>1. ASSUME NEW i \in DOMAIN ks
        PROVE  <<parts[i].type, ParsedAddress(parts[i], m), ParsedWeight(parts[i].weight)>>
                  = Serialized(ks[i])
    <3>1. ParsedAddress(parts[i], m) = ks[i].address
        BY <1>3, <1>4
    <3>2. parts[i].type = KeyType(ks[i].class) /\ parts[i].weight = ks[i].weight
        BY <1>2
    <3>3. ParsedWeight(ks[i].weight) = ks[i].weight
        BY LightIsParsed
    <3> QED
        BY <3>1, <3>2, <3>3 DEF Serialized
  <2> QED
      BY <1>1, <2>1 DEF ParsedHash, KeysetHash
<1>5. ASSUME m # d PROVE ParsedHash(parts, m) # KeysetHash(ks)
  <2>1. PICK i \in signers : i \in DOMAIN ks
      BY <1>1
  <2>2. ParsedAddress(parts[i], m) = Nobody
      BY <1>3, <1>5, <2>1
  <2>3. ks[i].address \in Addresses
    <3>1. ks[i] \in Keys
        BY <2>1
    <3> QED
        BY <3>1 DEF Keys
  <2>4. ParsedHash(parts, m)[i][2] = Nobody
      BY <1>1, <2>1, <2>2 DEF ParsedHash
  <2>5. KeysetHash(ks)[i][2] = ks[i].address
      BY <2>1 DEF KeysetHash, Serialized
  <2> QED
      BY <2>3, <2>4, <2>5, MessageSignatureAssumption
<1> QED
    BY <1>4, <1>5 DEF parts

\* The signers' weights are found again.
LEMMA SignedWeightsAre ==
    ASSUME NEW ks \in Seq(Keys), Light(ks), NEW d, NEW signers
    PROVE  Total(SignedWeights(SignPermit(ks, d, signers))) = WeightOf(ks, signers)
<1> DEFINE parts == SignPermit(ks, d, signers)
<1>1. DOMAIN ks = 1..Len(ks) /\ Len(ks) \in Nat
    OBVIOUS
<1>2. parts = [i \in 1..Len(ks) |-> Part(ks[i], d, i \in signers)]
    BY <1>1 DEF SignPermit
<1>3. Len(parts) = Len(ks)
    BY <1>1, <1>2
<1>4. ASSUME NEW i \in 1..Len(ks)
      PROVE  /\ parts[i].signed = (i \in signers)
             /\ BytesToUint32(parts[i].weight.assetsOp) = ks[i].weight.assetsOp
    BY <1>1, <1>2, LightIsParsed DEF Part
<1> HIDE DEF parts
<1>5. SignedWeights(parts) = [i \in 1..Len(ks) |-> IF i \in signers THEN ks[i].weight.assetsOp ELSE 0]
    BY <1>3, <1>4 DEF SignedWeights
<1>6. Total(SignedWeights(parts)) = WeightOf(ks, signers)
    BY <1>5 DEF WeightOf
<1> QED
    BY <1>6 DEF parts

LEMMA NextLight ==
    ASSUME \A ks \in Keysets : Light(ks)
    PROVE  SignatureInv /\ LightOK /\ [Next]_vars => LightOK'
<1> SUFFICES ASSUME SignatureInv, LightOK, [Next]_vars PROVE LightOK'
    OBVIOUS
<1>0. keys \in Seq(Keys)
    BY DEF SignatureInv, TypeOK
<1>1. ASSUME NEW m, NEW sig, NEW signers, Issue(m, sig, signers), keys' = keys PROVE LightOK'
    BY <1>1 DEF Issue, LightOK
<1>2. CASE \/ \E m \in Messages, signers \in Signers : SignMessage(m, signers)
           \/ \E m \in Messages, s \in Sessions : SignWithSession(m, s)
    BY <1>1, <1>2 DEF SignMessage, SignWithSession
<1>3. CASE UNCHANGED <<keys, issued>>
    BY <1>3 DEF LightOK
<1>4. ASSUME NEW s \in Sessions, NEW t \in Times, NEW w \in SessionWeights, NEW signers \in Signers,
             GeneratePermit(s, t, w, signers) \/ SignFails(PermitDigest(s, t, w), signers)
      PROVE  LightOK'
    BY <1>3, <1>4 DEF GeneratePermit, SignFails
<1>5. CASE \/ \E s \in Sessions, t \in Times, w \in SessionWeights : StoreSession(s, t, w)
           \/ \E m \in Messages, signers \in Signers : SignFails(m, signers)
           \/ Tick
    BY <1>3, <1>5 DEF StoreSession, SignFails, Tick
<1>6. ASSUME issued' = issued, DOMAIN keys' = DOMAIN keys,
             \A i \in DOMAIN keys : keys'[i].weight = keys[i].weight
      PROVE  LightOK'
    BY <1>6 DEF LightOK, Light
<1>7. CASE FromSessionKeyStore
  <2>1. \A k \in Keys : Authorized(k, store).weight = k.weight
      BY DEF Authorized, Keys
  <2>2. /\ DOMAIN keys' = DOMAIN keys
        /\ \A i \in DOMAIN keys : keys'[i].weight = keys[i].weight
      BY <1>0, <1>7, <2>1 DEF FromSessionKeyStore
  <2> QED
      BY <1>6, <1>7, <2>2 DEF FromSessionKeyStore
<1>8. ASSUME NEW kept \in BOOLEAN, RestoreKeyset(kept) PROVE LightOK'
  <2>1. \A k \in Keys : Restored(k, kept).weight = k.weight
      BY DEF Restored, Written, Keys
  <2>2. /\ DOMAIN keys' = DOMAIN keys
        /\ \A i \in DOMAIN keys : keys'[i].weight = keys[i].weight
      BY <1>0, <1>8, <2>1 DEF RestoreKeyset
  <2> QED
      BY <1>6, <1>8, <2>2 DEF RestoreKeyset
<1>9. ASSUME NEW ks \in Keysets, SetKeyset(ks) PROVE LightOK'
    BY <1>9 DEF SetKeyset, LightOK
<1>10. CASE UNCHANGED vars
    BY <1>3, <1>10 DEF vars
<1> QED
    BY <1>2, <1>4, <1>5, <1>7, <1>8, <1>9, <1>10 DEF Next

\* What signMessage of plain accounts of weight 100 returns validates, for the keyset it
\* was made with and for its message alone, when no weight is beyond the 24 bits that
\* bytesToUint32 reads back: for every keyset, message and history of the key objects.
THEOREM SignedValidatesTheorem ==
    ASSUME \A ks \in Keysets : Light(ks)
    PROVE  Spec => []SignedValidates
<1>1. Init => LightOK
    BY DEF Init, LightOK
<1>2. SignatureInv /\ LightOK /\ [Next]_vars => LightOK'
    BY NextLight
<1>3. SignatureInv /\ IssuedOK /\ LightOK => SignedValidates
  <2> SUFFICES ASSUME SignatureInv, IssuedOK, LightOK, NEW x \in issued, ~x.sig.session,
                      \A i \in x.signers : /\ KeyType(x.keys[i].class) = "KeySecp256k1"
                                           /\ x.keys[i].auth = None,
                      WeightOf(x.keys, x.signers) >= 100,
                      NEW m \in Messages
               PROVE  (IsValidSignature(m, x.sig, KeysetHash(x.keys)) = "valid") <=> (m = x.message)
      BY DEF SignedValidates
  <2>1. x.keys \in Seq(Keys) /\ Light(x.keys)
      BY DEF SignatureInv, TypeOK, LightOK
  <2>2. /\ x.sig.parts = SignPermit(x.keys, x.message, x.signers)
        /\ x.signers # {} /\ x.signers \subseteq 1..Len(x.keys)
      BY DEF IssuedOK, AsMade
  <2>3. ParsedHash(x.sig.parts, m) = KeysetHash(x.keys) <=> m = x.message
      BY <2>1, <2>2, ParsedIsKeyset
  <2>4. Total(SignedWeights(x.sig.parts)) >= 100
    <3>1. Total(SignedWeights(x.sig.parts)) = WeightOf(x.keys, x.signers)
        BY <2>1, <2>2, SignedWeightsAre
    <3> QED
        BY <3>1
  <2>5. ~Unsupported(x.sig.parts)
    <3>1. ASSUME NEW i \in DOMAIN x.sig.parts, x.sig.parts[i].signed
          PROVE  x.sig.parts[i].type = "KeySecp256k1"
      <4>1. x.sig.parts[i] = Part(x.keys[i], x.message, i \in x.signers)
          BY <2>2, <3>1 DEF SignPermit
      <4>2. /\ x.sig.parts[i].signed = (i \in x.signers)
            /\ x.sig.parts[i].type = KeyType(x.keys[i].class)
          BY <4>1 DEF Part
      <4>3. i \in x.signers
          BY <3>1, <4>2
      <4> QED
          BY <4>2, <4>3
    <3> QED
        BY <3>1 DEF Unsupported
  <2>6. ~ThrowsExpired(x.sig) /\ CheckedOver(m, x.sig) = m
      BY DEF ThrowsExpired, CheckedOver
  <2>7. IsValidSignature(m, x.sig, KeysetHash(x.keys)) = "valid"
          <=> ValidateSignature(m, x.sig.parts, KeysetHash(x.keys))
      BY <2>5, <2>6 DEF IsValidSignature
  <2> QED
      BY <2>3, <2>4, <2>7 DEF ValidateSignature
<1> QED
    BY <1>1, <1>2, <1>3, SignatureInvTheorem, IssuedInvariant, PTL DEF Spec
=============================================================================
