--------------------------- MODULE EmailKeyProofs ----------------------------
(***************************************************************************)
(* For every set of addresses, peppers and digests: a KeyEmailDkim that       *)
(* still knows its address keeps its key hash and signs what proves it.       *)
(*                                                                           *)
(* The invariant keeps, for the key and for the key in its JSON, that raw     *)
(* options are those of the mailbox the key was created with (Own).           *)
(***************************************************************************)
EXTENDS EmailKey, TLAPS

Signs == {"RawEmail", "DkimZK"}

\* A raw key of the mailbox with this key hash.
Own(k) ==
    k.type = "Raw" => /\ k.from \in Emails /\ k.pepper \in Peppers
                      /\ k.emailHash = PureEmailHash(k.from, k.pepper)
                      /\ KeyHashOf(PureEmailHash(k.from, k.pepper)) = identity

KeyInv ==
    /\ TypeOK
    /\ Own(key) /\ SenderMatches(key)
    /\ json # Undefined => Own(json)

\* The raw fields of k are not touched: what Renew keeps.
LEMMA RenewKeepsInv ==
    ASSUME KeyInv, NEW k \in Keys, NEW hash \in Hash, Own(k), Renew(k, hash)
    PROVE  KeyInv'
<1>1. SenderMatches(k) /\ key' = New(k, hash) /\ UNCHANGED <<json, identity>>
    BY DEF Renew
<1>2. EmailHashOf(k, hash) \in Hash
    BY DEF EmailHashOf, Own, PureEmailHash, Hash
<1>3. /\ key' \in Keys
      /\ key'.type = k.type /\ key'.from = k.from /\ key'.pepper = k.pepper
      /\ key'.dkim = k.dkim /\ key'.sign = k.sign
      /\ key'.emailHash = EmailHashOf(k, hash)
    BY <1>1, <1>2 DEF New, Keys
<1>4. Own(key)'
    BY <1>1, <1>3 DEF Own, EmailHashOf, KeyHashOf, PureEmailHash
<1>5. SenderMatches(key)'
    BY <1>1, <1>3 DEF SenderMatches
<1> QED
    BY <1>1, <1>3, <1>4, <1>5 DEF KeyInv, TypeOK, Own

LEMMA KeyHashIsHash == ASSUME NEW k \in Keys PROVE KeyHash(k) \in Hash
    BY DEF KeyHash, KeyHashOf, Keys, Hash

LEMMA InitInv == Init => KeyInv
<1> SUFFICES ASSUME Init PROVE KeyInv
    OBVIOUS
<1>1. PICK from \in Emails, pepper \in Peppers, sign \in Signs : key = Raw(from, pepper, sign)
    BY DEF Init, Signs
<1>2. json = Undefined /\ identity = KeyHash(key)
    BY DEF Init
<1>3. PureEmailHash(from, pepper) \in Hash
    BY DEF PureEmailHash, Hash
<1>4. key \in Keys /\ key.dkim = Undefined
    BY <1>1, <1>3 DEF Raw, Keys, Signs
<1>5. Own(key)
    BY <1>1, <1>2 DEF Own, Raw, KeyHash
<1> QED
    BY <1>2, <1>4, <1>5, KeyHashIsHash DEF KeyInv, TypeOK, SenderMatches

LEMMA NextInv == KeyInv /\ [Next]_vars => KeyInv'
<1> SUFFICES ASSUME KeyInv, [Next]_vars PROVE KeyInv'
    OBVIOUS
<1>0. /\ key \in Keys /\ Own(key) /\ KeyHash(key) \in Hash /\ key.emailHash \in Hash
    BY KeyHashIsHash DEF KeyInv, TypeOK, Keys
<1>1. ASSUME NEW v \in Dkims, UpdateDkimParams(v) PROVE KeyInv'
  <2>1. WithDkim(key, v) \in Keys /\ Own(WithDkim(key, v))
      BY <1>0 DEF WithDkim, Keys, Own
  <2> QED
      BY <1>0, <1>1, <2>1, RenewKeepsInv DEF UpdateDkimParams, Update
<1>2. ASSUME NEW v \in Dkims, SetDkimParams(v) PROVE KeyInv'
  <2>1. key' = [key EXCEPT !.dkim = v] /\ UNCHANGED <<json, identity>>
      BY <1>2 DEF SetDkimParams
  <2>2. key' \in Keys /\ Own(key)'
      BY <1>0, <2>1 DEF Keys, Own
  <2>3. SenderMatches(key)'
      BY <1>0, <1>2, <2>1 DEF SenderMatches, SetDkimParams, Keys
  <2> QED
      BY <2>1, <2>2, <2>3 DEF KeyInv, TypeOK, Own
<1>3. CASE UpdateZKParams
  <2>1. [key EXCEPT !.zk = TRUE] \in Keys /\ Own([key EXCEPT !.zk = TRUE])
      BY <1>0 DEF Keys, Own
  <2> QED
      BY <1>0, <1>3, <2>1, RenewKeepsInv DEF UpdateZKParams, Update
<1>4. ASSUME NEW s \in Signs, UpdateEmailSignType(s) PROVE KeyInv'
  <2>1. [key EXCEPT !.sign = s] \in Keys /\ Own([key EXCEPT !.sign = s])
      BY <1>0 DEF Keys, Own, Signs
  <2> QED
      BY <1>0, <1>4, <2>1, RenewKeepsInv DEF UpdateEmailSignType, Update
<1>5. CASE Obscure
  <2> DEFINE copy == [key EXCEPT !.type = "Hash", !.from = Masked, !.pepper = NoPepper,
                                 !.zk = FALSE]
  <2>1. copy \in Keys /\ copy.type = "Hash"
      BY <1>0 DEF Keys
  <2> QED
      BY <1>0, <1>5, <2>1, RenewKeepsInv DEF Obscure, Own
<1>6. CASE ToJson
  <2>1. json' = [key EXCEPT !.zk = FALSE] /\ UNCHANGED <<key, identity>>
      BY <1>6 DEF ToJson
  <2>2. json' \in Keys /\ Own(json)'
      BY <1>0, <2>1 DEF Keys, Own
  <2> QED
      BY <2>1, <2>2 DEF KeyInv, TypeOK, Own
<1>7. CASE FromJson
  <2>1. json \in Keys /\ Own(json)
      BY <1>7 DEF FromJson, KeyInv, TypeOK
  <2>2. /\ [json EXCEPT !.sign = "DkimZK"] \in Keys
        /\ Own([json EXCEPT !.sign = "DkimZK"]) /\ json.emailHash \in Hash
      BY <2>1 DEF Keys, Own
  <2> QED
      BY <1>7, <2>2, RenewKeepsInv DEF FromJson
<1>8. CASE UNCHANGED vars
    BY <1>8 DEF vars, KeyInv, TypeOK, Own, SenderMatches
<1> QED
    BY <1>1, <1>2, <1>3, <1>4, <1>5, <1>6, <1>7, <1>8 DEF Next, Signs

LEMMA KeyInvTheorem == Spec => []KeyInv
    BY InitInv, NextInv, PTL DEF Spec

-----------------------------------------------------------------------------
\* A key that knows its address has, after any updates, the hash it was created with.
THEOREM RawKeyHashTheorem == Spec => []RawKeyHashKept
<1>1. KeyInv => RawKeyHashKept
    BY DEF KeyInv, Own, RawKeyHashKept, KeyHash
<1> QED
    BY <1>1, KeyInvTheorem, PTL

\* A signature over a raw email proves the key hash of the key it is made for.
THEOREM EmailSignatureTheorem == Spec => []SignatureProvesKey
<1>1. KeyInv => SignatureProvesKey
  <2> SUFFICES ASSUME KeyInv, NEW d \in Digests, CanSign(key, d), key.sign = "RawEmail"
               PROVE  KeyHashOf(PureEmailHash(key.dkim.from, key.pepper)) = KeyHash(key)
      BY DEF SignatureProvesKey
  <2>1. key.dkim.from = key.from
      BY DEF CanSign, KeyInv, SenderMatches
  <2> QED
      BY <2>1 DEF CanSign, KeyInv, Own, KeyHash
<1> QED
    BY <1>1, KeyInvTheorem, PTL

\* The keys of a guardian's mailbox and their JSON keep their shapes, hashes included.
THEOREM EmailTypeCorrect == Spec => []TypeOK
<1>1. KeyInv => TypeOK
    BY DEF KeyInv
<1> QED
    BY <1>1, KeyInvTheorem, PTL

\* A guardian's key to which the email of a digest is given can sign the digest.
THEOREM EmailPreparedTheorem == Spec => PreparedKeySigns
<1> DEFINE Prepared ==
        \A v \in Dkims :
           (/\ UpdateDkimParams(v) \/ SetDkimParams(v)
            /\ key.type = "Raw" /\ (key.sign = "DkimZK" => key.zk))
               => CanSign(key', v.digest)
<1>1. KeyInv /\ [Next]_vars => [Prepared]_vars
  <2> SUFFICES ASSUME KeyInv, NEW v \in Dkims, UpdateDkimParams(v) \/ SetDkimParams(v),
                      key.type = "Raw", key.sign = "DkimZK" => key.zk
               PROVE  CanSign(key', v.digest)
      OBVIOUS
  <2>1. key \in Keys /\ v # Undefined
      BY EmailKeyAssumption DEF KeyInv, TypeOK
  <2>2. key'.type = key.type /\ key'.dkim = v /\ key'.sign = key.sign /\ key'.zk = key.zk
    <3>1. CASE UpdateDkimParams(v)
      <4>1. key' = New(WithDkim(key, v), KeyHash(key))
          BY <3>1 DEF UpdateDkimParams, Update, Renew
      <4> QED
          BY <2>1, <4>1 DEF New, WithDkim, Keys
    <3>2. CASE SetDkimParams(v)
        BY <2>1, <3>2 DEF SetDkimParams, Keys
    <3> QED
        BY <3>1, <3>2
  <2> QED
      BY <2>1, <2>2 DEF CanSign
<1> QED
    BY <1>1, KeyInvTheorem, PTL DEF Spec, PreparedKeySigns
=============================================================================
