------------------------------ MODULE EmailKey -------------------------------
(***************************************************************************)
(* A KeyEmailDkim of a keyset (keys/src/keyEmailDkim.ts): a guardian's        *)
(* mailbox.  Unlike a KeyOpenIDWithEmail it is obscured by making a copy, its  *)
(* email may be set in place, and only a key that still knows its address      *)
(* can sign.  `key` is the object the caller goes on with; an update that      *)
(* throws changes nothing and is no step.                                      *)
(***************************************************************************)
EXTENDS Naturals

CONSTANTS
    Emails, Peppers, Digests,   \* addresses, their secrets, what is to be signed
    Undefined, Masked, NoPepper,    \* no value; an obscured address; "0x"
    MaxRounds                   \* how often a hash is taken for an email hash

VARIABLES
    key,        \* the key object
    json,       \* the text toJson gave last
    identity    \* keyHash when the key was created

vars == <<key, json, identity>>

Dkims == [from : Emails, digest : Digests]

\* undefined is no object.
ASSUME EmailKeyAssumption == MaxRounds \in Nat /\ Undefined \notin Dkims

\* A hash: pureEmailHash of an address and a pepper, hashed again `rounds` times.
Hash == [from : Emails, pepper : Peppers, rounds : Nat]
PureEmailHash(from, pepper) == [from |-> from, pepper |-> pepper, rounds |-> 0]

\* keyHash: keccak256 of emailHash and zero.
KeyHashOf(emailHash) == [emailHash EXCEPT !.rounds = @ + 1]
KeyHash(k) == KeyHashOf(k.emailHash)

Keys == [type : {"Raw", "Hash"}, from : Emails \cup {Masked}, pepper : Peppers \cup {NoPepper},
         dkim : Dkims \cup {Undefined}, emailHash : Hash,
         sign : {"RawEmail", "DkimZK"}, zk : BOOLEAN]

-----------------------------------------------------------------------------
(* The constructor.                                                        *)

\* Mutant: the sender of the email is not looked at.
AnySender(k) == TRUE

SenderMatches(k) ==
    (k.type = "Raw" /\ k.dkim # Undefined /\ k.sign = "RawEmail") => k.dkim.from = k.from

\* Mutant: the hash that was given is taken over, whatever the type.
GivenHash(k, hash) == hash

\* Mutant: an address is hashed whatever the type.
AddressHash(k, hash) == PureEmailHash(k.from, k.pepper)

\* A raw key hashes its address, another one takes the hash it is given.
EmailHashOf(k, hash) == IF k.type = "Raw" THEN PureEmailHash(k.from, k.pepper) ELSE hash

\* new KeyEmailDkim(..., hash, ...) with the fields of k.
New(k, hash) == [k EXCEPT !.emailHash = EmailHashOf(k, hash)]

Renew(k, hash) ==
    /\ SenderMatches(k)
    /\ key' = New(k, hash)
    /\ UNCHANGED <<json, identity>>

-----------------------------------------------------------------------------
Raw(from, pepper, sign) ==
    [type |-> "Raw", from |-> from, pepper |-> pepper, dkim |-> Undefined,
     emailHash |-> PureEmailHash(from, pepper), sign |-> sign, zk |-> FALSE]

Init ==
    /\ \E from \in Emails, pepper \in Peppers, sign \in {"RawEmail", "DkimZK"} :
          key = Raw(from, pepper, sign)
    /\ json = Undefined
    /\ identity = KeyHash(key)

\* The bound on the rounds is only reached by a key that knows no address.
MayRenew == key.type = "Hash" => key.emailHash.rounds < MaxRounds

\* Every update hands the old key's keyHash, not its emailHash, to the constructor.
Update(k) == MayRenew /\ Renew(k, KeyHash(key))

\* Mutant: the proof that is already there is not handed on.
WithDkimOnly(k, v) == [k EXCEPT !.dkim = v, !.zk = FALSE]

WithDkim(k, v) == [k EXCEPT !.dkim = v]

UpdateDkimParams(v) ==
    /\ (key.sign = "RawEmail" /\ key.type = "Raw") => v.from = key.from
    /\ Update(WithDkim(key, v))

UpdateZKParams == Update([key EXCEPT !.zk = TRUE])

UpdateEmailSignType(sign) == Update([key EXCEPT !.sign = sign])

\* The only change in place.
SetDkimParams(v) ==
    /\ key.type = "Raw" => v.from = key.from
    /\ key' = [key EXCEPT !.dkim = v]
    /\ UNCHANGED <<json, identity>>

\* The obscured copy keeps the email and has no proof.
Obscure ==
    /\ key.type = "Raw"
    /\ Renew([key EXCEPT !.type = "Hash", !.from = Masked, !.pepper = NoPepper, !.zk = FALSE],
             key.emailHash)

ToJson ==
    /\ json' = [key EXCEPT !.zk = FALSE]
    /\ UNCHANGED <<key, identity>>

\* emailSignType 0 (RawEmail) is false, so that DkimZK takes its place.
FromJson ==
    /\ json # Undefined
    /\ Renew([json EXCEPT !.sign = "DkimZK"], json.emailHash)

Next ==
    \/ \E v \in Dkims : UpdateDkimParams(v) \/ SetDkimParams(v)
    \/ UpdateZKParams
    \/ \E s \in {"RawEmail", "DkimZK"} : UpdateEmailSignType(s)
    \/ Obscure \/ ToJson \/ FromJson

Spec == Init /\ [][Next]_vars

-----------------------------------------------------------------------------
\* generateSignature(digestHash) resolves when CanSign holds, else it throws; a key
\* without email throws when digestHash is read from undefined.
CanSign(k, digest) ==
    /\ k.type = "Raw"
    /\ k.dkim # Undefined
    /\ k.dkim.digest = digest
    /\ k.sign = "DkimZK" => k.zk

-----------------------------------------------------------------------------
\* TypeOK: the shapes of the key and of its JSON.
TypeOK == key \in Keys /\ json \in Keys \cup {Undefined} /\ identity \in Hash

\* The key hash of a key that knows its address is the one it was created with,
\* after any updates and a trip through JSON; so a guardian who can sign is still
\* the guardian of the keyset.
RawKeyHashKept == key.type = "Raw" => KeyHash(key) = identity

\* A signature over a raw email shows the sender and the pepper that keyHash was
\* made of, in whatever order the email and the signature type were set.
SignatureProvesKey ==
    \A d \in Digests :
        (CanSign(key, d) /\ key.sign = "RawEmail")
            => KeyHashOf(PureEmailHash(key.dkim.from, key.pepper)) = KeyHash(key)

\* A key to which the email of a digest is given can sign the digest, the proof
\* having been given before.
PreparedKeySigns ==
    [][\A v \in Dkims :
          (/\ UpdateDkimParams(v) \/ SetDkimParams(v)
           /\ key.type = "Raw" /\ (key.sign = "DkimZK" => key.zk))
              => CanSign(key', v.digest)]_vars
=============================================================================
