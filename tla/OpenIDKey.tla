------------------------------ MODULE OpenIDKey ------------------------------
(***************************************************************************)
(* A KeyOpenIDWithEmail of a keyset (keys/src/keyOpenIDWithEmail.ts): the    *)
(* key of a user's mailbox and OpenID login.  Its hash is part of the keyset *)
(* hash, and so of the wallet's address; it must survive every update that   *)
(* prepares the key for a signature, obscuring and a trip through JSON.      *)
(*                                                                           *)
(* Every update makes a new object; `key` is the one the caller goes on      *)
(* with.  An update that throws changes nothing: it is no step.              *)
(***************************************************************************)

CONSTANTS
    Emails, Peppers,    \* addresses and the secrets they are hashed with
    Subjects,           \* issuer and sub of an OpenID login
    Digests,            \* what is to be signed
    Undefined,          \* a field without value
    Masked,             \* an address after obscureEmail
    NoPepper            \* "0x"

VARIABLES
    key,        \* the key object
    json,       \* the text toJson gave last
    identity,   \* keyHash when the key was created
    logins      \* the login it was created with and those of the ID tokens it was given

vars == <<key, json, identity, logins>>

\* DkimParamsBase: an email's sender and the digest in its subject.
Dkims == [from : Emails, digest : Digests]

\* An ID token; readable: generateSignature finds every claim at its place.
Tokens == [subject : Subjects, nonce : Digests, readable : BOOLEAN]

\* undefined is no object.
ASSUME OpenIDKeyAssumption == Undefined \notin Tokens \cup Dkims

\* pureEmailHash: sha256 of address and pepper, named by the two.
PureEmailHash(from, pepper) == [from |-> from, pepper |-> pepper]
MailHashes == [from : Emails \cup {Undefined}, pepper : Peppers \cup {Undefined}]
HashZero == PureEmailHash(Undefined, Undefined)

\* emailOptionsOrEmailHash; type "string": only the hash was given.
Mail == [type : {"Raw", "Hash", "string"},
         from : Emails \cup {Masked, Undefined},
         pepper : Peppers \cup {NoPepper, Undefined},
         sign : {"RawEmail", "DkimZK"},
         dkim : Dkims \cup {Undefined},
         zk : BOOLEAN,
         hash : MailHashes]

\* openIDOptionsOrOpenIDHash; the hash of issuer and sub is named by the subject,
\* Undefined is HashZero; known: issuer and sub are given, not only their hash.
OpenID == [known : BOOLEAN, token : Tokens \cup {Undefined},
           subject : Subjects \cup {Undefined}]

Keys == [mail : Mail, openID : OpenID, sign : {"EmailSign", "OpenIDSign"},
         hash : [mail : MailHashes, openID : Subjects \cup {Undefined}]]

-----------------------------------------------------------------------------
(* The constructor.                                                        *)

\* Mutant: the sender of the email is not looked at.
AnySender(mail) == TRUE

SenderMatches(mail) ==
    (mail.sign = "RawEmail" /\ mail.type = "Raw" /\ mail.dkim # Undefined)
        => mail.dkim.from = mail.from

\* emailHash is computed for raw options and taken over otherwise.
MailHashOf(mail) == IF mail.type = "Raw" THEN PureEmailHash(mail.from, mail.pepper) ELSE mail.hash

\* Mutant: the claims are not read from the token.
GivenSubject(openID) == openID.subject

\* issuer and sub are those of the token, if there is one.
SubjectOf(openID) == IF openID.token # Undefined THEN openID.token.subject ELSE openID.subject

\* "0x" is no bytes32: hashing with it throws.
Constructible(mail, openID, sign) ==
    /\ IF mail.type = "string" THEN sign # "EmailSign" ELSE SenderMatches(mail)
    /\ mail.type = "Raw" => mail.pepper # NoPepper
    /\ ~openID.known => sign # "OpenIDSign"

New(mail, openID, sign) ==
    [mail |-> [mail EXCEPT !.hash = MailHashOf(mail)],
     openID |-> [openID EXCEPT !.subject = SubjectOf(openID)],
     sign |-> sign,
     hash |-> [mail |-> MailHashOf(mail), openID |-> SubjectOf(openID)]]

-----------------------------------------------------------------------------
HashOnly(hash) ==
    [type |-> "string", from |-> Undefined, pepper |-> Undefined, sign |-> "DkimZK",
     dkim |-> Undefined, zk |-> FALSE, hash |-> hash]

Options(type, from, pepper, sign, hash) ==
    [type |-> type, from |-> from, pepper |-> pepper, sign |-> sign,
     dkim |-> Undefined, zk |-> FALSE, hash |-> hash]

\* Keyset.create gives raw options; a keyset read from the backend has obscured
\* options; either half may be only a hash.
FirstMails ==
    {HashOnly(h) : h \in [from : Emails, pepper : Peppers] \cup {HashZero}}
        \cup {Options("Raw", e, p, s, HashZero) :
                 e \in Emails, p \in Peppers, s \in {"RawEmail", "DkimZK"}}
        \cup {Options("Hash", Masked, NoPepper, s, h) :
                 s \in {"RawEmail", "DkimZK"}, h \in [from : Emails, pepper : Peppers]}

FirstOpenIDs ==
    {[known |-> k, token |-> Undefined, subject |-> s] : k \in BOOLEAN, s \in Subjects}
        \cup {[known |-> FALSE, token |-> Undefined, subject |-> Undefined]}

Init ==
    /\ \E mail \in FirstMails, openID \in FirstOpenIDs, sign \in {"EmailSign", "OpenIDSign"} :
          /\ Constructible(mail, openID, sign)
          /\ key = New(mail, openID, sign)
    /\ json = Undefined
    /\ identity = key.hash
    /\ logins = {key.hash.openID}

\* A new key takes the place of the old one, unless its constructor throws.
Renew(mail, openID, sign) ==
    /\ Constructible(mail, openID, sign)
    /\ key' = New(mail, openID, sign)
    /\ UNCHANGED <<json, identity>>

HasMail == key.mail.type # "string"

UpdateDkimParams(v) ==
    /\ HasMail
    /\ Renew([key.mail EXCEPT !.dkim = v], key.openID, key.sign)
    /\ UNCHANGED logins

UpdateEmailDkimSignType(sign) ==
    /\ HasMail
    /\ Renew([key.mail EXCEPT !.sign = sign], key.openID, key.sign)
    /\ UNCHANGED logins

\* Mutant: the new options are only the proof's.
WithProofOnly(mail) == [mail EXCEPT !.zk = TRUE, !.dkim = Undefined]

WithProof(mail) == [mail EXCEPT !.zk = TRUE]

UpdateZKParams ==
    /\ HasMail
    /\ Renew(WithProof(key.mail), key.openID, key.sign)
    /\ UNCHANGED logins

\* The options are replaced by the token, which may be of another login.
UpdateIDToken(v) ==
    /\ key.openID.known
    /\ Renew(key.mail, [known |-> TRUE, token |-> v, subject |-> Undefined], key.sign)
    /\ logins' = logins \cup {v.subject}

UpdateSignType(sign) ==
    /\ HasMail
    /\ Renew(key.mail, key.openID, sign)
    /\ UNCHANGED logins

\* Mutant: only the address is obscured.
ObscuredAddressOnly(mail) == [mail EXCEPT !.from = Masked]

\* What obscure() writes into the options of the key it is called on.
Obscured(mail) == [mail EXCEPT !.from = Masked, !.pepper = NoPepper, !.type = "Hash"]

\* The caller goes on with the obscured key (which has the default signType) or
\* with the one obscure() was called on, whose options are obscured as well.
Obscure ==
    /\ key.mail.type = "Raw"
    /\ \/ key' = New(Obscured(key.mail), key.openID, "EmailSign")
       \/ key' = [key EXCEPT !.mail = Obscured(@)]
    /\ UNCHANGED <<json, identity, logins>>

ToJson ==
    /\ json' = [mail |-> key.mail, openID |-> key.openID, sign |-> key.sign]
    /\ UNCHANGED <<key, identity, logins>>

\* fromJsonObj looks for dkimParams beside the options, where toJson does not
\* write them; signType 0 (RawEmail) is false, so that DkimZK takes its place.
Restored(mail) ==
    IF mail.type = "string" THEN mail ELSE [mail EXCEPT !.dkim = Undefined, !.sign = "DkimZK"]

FromJson ==
    /\ json # Undefined
    /\ Renew(Restored(json.mail), json.openID, json.sign)
    /\ UNCHANGED logins

Next ==
    \/ \E v \in Dkims : UpdateDkimParams(v)
    \/ \E s \in {"RawEmail", "DkimZK"} : UpdateEmailDkimSignType(s)
    \/ UpdateZKParams
    \/ \E v \in Tokens : UpdateIDToken(v)
    \/ \E s \in {"EmailSign", "OpenIDSign"} : UpdateSignType(s)
    \/ Obscure \/ ToJson \/ FromJson

Spec == Init /\ [][Next]_vars

-----------------------------------------------------------------------------
(* generateSignature(digestHash): it changes nothing.  It resolves when        *)
(* CanSign holds and throws otherwise.                                         *)

SignsMail(k) == k.sign = "EmailSign" /\ k.mail.sign = "RawEmail"

CanSign(k, digest) ==
    IF k.sign = "EmailSign"
      THEN /\ k.mail.type # "string"
           /\ k.mail.dkim # Undefined
           /\ k.mail.dkim.digest = digest
           /\ IF k.mail.sign = "RawEmail" THEN k.mail.type = "Raw" ELSE k.mail.zk
      ELSE /\ k.openID.known
           /\ k.openID.token # Undefined
           /\ k.openID.token.nonce = digest
           /\ k.openID.token.readable

\* The key a verifier finds in the signature: the sender hashed with the pepper, or
\* the token's claims, beside the hash of the other half.
SignedKey(k) ==
    IF SignsMail(k)
      THEN [mail |-> PureEmailHash(k.mail.dkim.from, k.mail.pepper), openID |-> k.openID.subject]
      ELSE [mail |-> k.mail.hash, openID |-> k.openID.token.subject]

-----------------------------------------------------------------------------
\* TypeOK: the shapes of the key and of its JSON.
TypeOK ==
    /\ key \in Keys
    /\ json \in [mail : Mail, openID : OpenID, sign : {"EmailSign", "OpenIDSign"}] \cup {Undefined}
    /\ identity \in [mail : MailHashes, openID : Subjects \cup {Undefined}]
    /\ logins \subseteq Subjects \cup {Undefined}

\* No sequence of updates, obscuring and JSON changes the email half of keyHash,
\* although obscuring forgets the address and the pepper it is computed from.
MailHashKept == key.hash.mail = identity.mail

\* Only an ID token of another login changes the OpenID half, which updateIDToken does
\* not look at: with tokens of the own login, keyHash, the keyset hash and the
\* wallet's address stay.
LoginHashKept == key.hash.openID \in logins

\* A signature over an email or an ID token proves the key it is made for: the
\* sender, the pepper and the claims in it are those that keyHash was made of,
\* in whatever order mailbox, signature type and token were updated.
SignatureProvesKey ==
    \A d \in Digests :
        (CanSign(key, d) /\ (SignsMail(key) \/ key.sign = "OpenIDSign"))
            => SignedKey(key) = key.hash

\* A key to which the email, proof or ID token of a digest was given can sign the
\* digest: no update takes away what an earlier one has given.
PreparedKeySigns ==
    [][/\ \A v \in Dkims :
             (/\ UpdateDkimParams(v) /\ key.sign = "EmailSign"
              /\ IF key.mail.sign = "RawEmail" THEN key.mail.type = "Raw" ELSE key.mail.zk)
                 => CanSign(key', v.digest)
       /\ (/\ UpdateZKParams /\ key.sign = "EmailSign"
           /\ key.mail.sign = "DkimZK" /\ key.mail.dkim # Undefined)
              => CanSign(key', key.mail.dkim.digest)
       /\ \A v \in Tokens :
             (UpdateIDToken(v) /\ key.sign = "OpenIDSign" /\ v.readable)
                 => CanSign(key', v.nonce)]_vars
=============================================================================
