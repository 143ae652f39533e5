--------------------------- MODULE OpenIDKeyProofs ---------------------------
(***************************************************************************)
(* For every set of addresses, peppers, logins and digests: the hash of a   *)
(* KeyOpenIDWithEmail survives its updates, what it signs proves it, and a   *)
(* key that was prepared for a signature can make it.                        *)
(*                                                                           *)
(* The invariant says of the key, and of the key its JSON will give, what    *)
(* the constructor establishes: Sound.  Every action makes its key with the  *)
(* constructor, except obscure(), which writes into the options of a made    *)
(* key; NewIsSound and the two steps of Obscure carry the argument.          *)
(***************************************************************************)
EXTENDS OpenIDKey, TLAPS

Signs == {"EmailSign", "OpenIDSign"}
Hashes == [mail : MailHashes, openID : Subjects \cup {Undefined}]
Written == [mail : Mail, openID : OpenID, sign : Signs]

\* Options whose hash, if they are raw, is that of their address and pepper.
HashesWell(mail) ==
    mail.type = "Raw" => /\ mail.from \in Emails /\ mail.pepper \in Peppers
                         /\ mail.hash = PureEmailHash(mail.from, mail.pepper)

\* Claims that are those of the token.
ReadsWell(openID) == openID.token # Undefined => openID.subject = openID.token.subject

\* What the constructor establishes.
Sound(k) ==
    /\ k.hash = [mail |-> k.mail.hash, openID |-> k.openID.subject]
    /\ HashesWell(k.mail) /\ ReadsWell(k.openID)
    /\ SenderMatches(k.mail)

\* The JSON of a sound key.
JsonSound ==
    json # Undefined => /\ HashesWell(json.mail) /\ ReadsWell(json.openID)
                        /\ json.mail.hash = identity.mail
                        /\ json.openID.subject \in logins

KeyInv ==
    /\ TypeOK
    /\ Sound(key)
    /\ MailHashKept
    /\ LoginHashKept
    /\ JsonSound

-----------------------------------------------------------------------------
\* A key made of options whose hash is well computed is sound and has the hashes of
\* its two halves.
LEMMA NewIsSound ==
    ASSUME NEW mail \in Mail, NEW openID \in OpenID, NEW sign \in Signs,
           HashesWell(mail), Constructible(mail, openID, sign)
    PROVE  /\ New(mail, openID, sign) \in Keys
           /\ Sound(New(mail, openID, sign))
           /\ New(mail, openID, sign).hash = [mail |-> mail.hash, openID |-> SubjectOf(openID)]
<1> DEFINE k == New(mail, openID, sign)
<1>1. MailHashOf(mail) = mail.hash /\ mail.hash \in MailHashes
    BY DEF HashesWell, MailHashOf, Mail
<1>2. SubjectOf(openID) \in Subjects \cup {Undefined}
    BY DEF SubjectOf, OpenID, Tokens
<1>3. k.mail = mail /\ k.sign = sign
    BY <1>1 DEF New, Mail
<1>4. /\ k.openID = [openID EXCEPT !.subject = SubjectOf(openID)]
      /\ k.openID \in OpenID /\ k.openID.subject = SubjectOf(openID)
    BY <1>2 DEF New, OpenID
<1>5. k.hash = [mail |-> mail.hash, openID |-> SubjectOf(openID)]
    BY <1>1 DEF New
<1>6. k \in Keys
  <2>1. k = [mail |-> k.mail, openID |-> k.openID, sign |-> k.sign, hash |-> k.hash]
      BY DEF New
  <2>2. k.hash \in Hashes
      BY <1>1, <1>2, <1>5 DEF Hashes
  <2> QED
      BY <1>3, <1>4, <2>1, <2>2 DEF Keys, Hashes, Signs
<1>7. ReadsWell(k.openID)
    BY <1>4 DEF ReadsWell, SubjectOf, OpenID
<1>8. SenderMatches(k.mail)
    BY <1>3 DEF Constructible, SenderMatches
<1> QED
    BY <1>3, <1>4, <1>5, <1>6, <1>7, <1>8 DEF Sound

\* What Renew keeps, for options that keep the hash of the mailbox and the subject.
LEMMA RenewKeepsInv ==
    ASSUME KeyInv,
           NEW mail \in Mail, NEW openID \in OpenID, NEW sign \in Signs,
           HashesWell(mail), mail.hash = identity.mail,
           Renew(mail, openID, sign),
           logins \subseteq logins', logins' \subseteq Subjects \cup {Undefined},
           SubjectOf(openID) \in logins'
    PROVE  KeyInv'
<1>1. /\ key' = New(mail, openID, sign) /\ UNCHANGED <<json, identity>>
      /\ Constructible(mail, openID, sign)
    BY DEF Renew
<1>2. key' \in Keys /\ Sound(key)' /\ key'.hash = [mail |-> mail.hash, openID |-> SubjectOf(openID)]
    BY <1>1, NewIsSound DEF Sound, HashesWell, ReadsWell, SenderMatches
<1>3. TypeOK'
    BY <1>1, <1>2 DEF KeyInv, TypeOK
<1>4. MailHashKept'
    BY <1>1, <1>2 DEF MailHashKept
<1>5. LoginHashKept'
    BY <1>1, <1>2 DEF LoginHashKept
<1>6. JsonSound'
    BY <1>1 DEF KeyInv, JsonSound
<1> QED
    BY <1>2, <1>3, <1>4, <1>5, <1>6 DEF KeyInv

\* Facts about a sound key that the updates use.
LEMMA KeyFacts ==
    ASSUME KeyInv
    PROVE  /\ key.mail \in Mail /\ key.openID \in OpenID /\ key.sign \in Signs
           /\ HashesWell(key.mail) /\ ReadsWell(key.openID)
           /\ key.mail.hash = identity.mail
           /\ SubjectOf(key.openID) = key.openID.subject
           /\ key.openID.subject \in logins /\ logins \subseteq Subjects \cup {Undefined}
<1>1. key.mail \in Mail /\ key.openID \in OpenID /\ key.sign \in Signs
    BY DEF KeyInv, TypeOK, Keys, Signs
<1>2. HashesWell(key.mail) /\ ReadsWell(key.openID)
    BY DEF KeyInv, Sound
<1>3. key.hash.mail = key.mail.hash /\ key.hash.openID = key.openID.subject
    BY DEF KeyInv, Sound
<1>4. /\ key.mail.hash = identity.mail /\ key.openID.subject \in logins
      /\ logins \subseteq Subjects \cup {Undefined}
    BY <1>3 DEF KeyInv, MailHashKept, LoginHashKept, TypeOK
<1> QED
    BY <1>1, <1>2, <1>4 DEF ReadsWell, SubjectOf

-----------------------------------------------------------------------------
LEMMA InitInv == Init => KeyInv
<1> SUFFICES ASSUME Init PROVE KeyInv
    OBVIOUS
<1>1. PICK mail \in FirstMails, openID \in FirstOpenIDs, sign \in Signs :
          Constructible(mail, openID, sign) /\ key = New(mail, openID, sign)
    BY DEF Init, Signs
<1>2. mail \in Mail
  <2>1. HashZero \in MailHashes
      BY DEF HashZero, PureEmailHash, MailHashes
  <2>2. [from : Emails, pepper : Peppers] \subseteq MailHashes
      BY DEF MailHashes
  <2>3. CASE \E h \in [from : Emails, pepper : Peppers] \cup {HashZero} : mail = HashOnly(h)
      BY <2>1, <2>2, <2>3 DEF HashOnly, Mail
  <2>4. CASE \E e \in Emails, p \in Peppers, s \in {"RawEmail", "DkimZK"} :
                 mail = Options("Raw", e, p, s, HashZero)
      BY <2>1, <2>4 DEF Options, Mail
  <2>5. CASE \E s \in {"RawEmail", "DkimZK"}, h \in [from : Emails, pepper : Peppers] :
                 mail = Options("Hash", Masked, NoPepper, s, h)
      BY <2>2, <2>5 DEF Options, Mail
  <2> QED
      BY <2>3, <2>4, <2>5 DEF FirstMails
<1>3. openID \in OpenID /\ openID.token = Undefined
  <2>1. CASE \E k \in BOOLEAN, s \in Subjects :
                 openID = [known |-> k, token |-> Undefined, subject |-> s]
      BY <2>1 DEF OpenID
  <2>2. CASE openID = [known |-> FALSE, token |-> Undefined, subject |-> Undefined]
      BY <2>2 DEF OpenID
  <2> QED
      BY <2>1, <2>2 DEF FirstOpenIDs
<1>4. mail.type = "Raw" => mail.from \in Emails /\ mail.pepper \in Peppers
    BY DEF FirstMails, HashOnly, Options
<1> DEFINE hashed == [mail EXCEPT !.hash = MailHashOf(mail)]
<1>5. /\ hashed \in Mail /\ HashesWell(hashed)
      /\ MailHashOf(hashed) = MailHashOf(mail) /\ hashed.hash = MailHashOf(mail)
    BY <1>2, <1>4 DEF Mail, HashesWell, MailHashOf, PureEmailHash, MailHashes
<1>6. Constructible(hashed, openID, sign)
    BY <1>1, <1>2 DEF Constructible, SenderMatches, Mail
<1>7. New(hashed, openID, sign) = key
    BY <1>1, <1>2, <1>5 DEF New, Mail
<1>8. key \in Keys /\ Sound(key)
    BY <1>3, <1>5, <1>6, <1>7, NewIsSound
<1>9. json = Undefined /\ identity = key.hash /\ logins = {key.hash.openID}
    BY DEF Init
<1> QED
    BY <1>8, <1>9 DEF KeyInv, TypeOK, MailHashKept, LoginHashKept, JsonSound, Keys

LEMMA NextInv == KeyInv /\ [Next]_vars => KeyInv'
<1> SUFFICES ASSUME KeyInv, [Next]_vars PROVE KeyInv'
    OBVIOUS
<1>0. /\ key.mail \in Mail /\ key.openID \in OpenID /\ key.sign \in Signs
      /\ HashesWell(key.mail) /\ ReadsWell(key.openID)
      /\ key.mail.hash = identity.mail
      /\ SubjectOf(key.openID) = key.openID.subject
      /\ key.openID.subject \in logins /\ logins \subseteq Subjects \cup {Undefined}
    BY KeyFacts
<1>1. ASSUME NEW v \in Dkims, UpdateDkimParams(v) PROVE KeyInv'
  <2> DEFINE mail == [key.mail EXCEPT !.dkim = v]
  <2>1. mail \in Mail /\ HashesWell(mail) /\ mail.hash = identity.mail
      BY <1>0 DEF Mail, HashesWell
  <2> QED
      BY <1>0, <1>1, <2>1, RenewKeepsInv DEF UpdateDkimParams
<1>2. ASSUME NEW s \in {"RawEmail", "DkimZK"}, UpdateEmailDkimSignType(s) PROVE KeyInv'
  <2> DEFINE mail == [key.mail EXCEPT !.sign = s]
  <2>1. mail \in Mail /\ HashesWell(mail) /\ mail.hash = identity.mail
      BY <1>0 DEF Mail, HashesWell
  <2> QED
      BY <1>0, <1>2, <2>1, RenewKeepsInv DEF UpdateEmailDkimSignType
<1>3. CASE UpdateZKParams
  <2> DEFINE mail == WithProof(key.mail)
  <2>1. mail \in Mail /\ HashesWell(mail) /\ mail.hash = identity.mail
      BY <1>0 DEF Mail, HashesWell, WithProof
  <2> QED
      BY <1>0, <1>3, <2>1, RenewKeepsInv DEF UpdateZKParams
<1>4. ASSUME NEW v \in Tokens, UpdateIDToken(v) PROVE KeyInv'
  <2> DEFINE openID == [known |-> TRUE, token |-> v, subject |-> Undefined]
  <2>1. openID \in OpenID
      BY DEF OpenID
  <2>2. v # Undefined => SubjectOf(openID) = v.subject
      BY DEF SubjectOf
  <2>3. v # Undefined
      BY OpenIDKeyAssumption
  <2>4. Renew(key.mail, openID, key.sign) /\ logins' = logins \cup {v.subject}
      BY <1>4 DEF UpdateIDToken
  <2>5. /\ logins \subseteq logins' /\ logins' \subseteq Subjects \cup {Undefined}
        /\ SubjectOf(openID) \in logins'
      BY <1>0, <2>2, <2>3, <2>4 DEF Tokens
  <2> HIDE DEF openID
  <2> QED
      BY <1>0, <2>1, <2>4, <2>5, RenewKeepsInv
<1>5. ASSUME NEW s \in Signs, UpdateSignType(s) PROVE KeyInv'
    BY <1>0, <1>5, RenewKeepsInv DEF UpdateSignType
<1>6. CASE Obscure
  <2> DEFINE mail == Obscured(key.mail)
  <2>1. /\ mail \in Mail /\ HashesWell(mail) /\ mail.hash = identity.mail
        /\ mail.type = "Hash" /\ SenderMatches(mail)
      BY <1>0 DEF Obscured, Mail, HashesWell, SenderMatches
  <2>2. CASE key' = New(mail, key.openID, "EmailSign") /\ UNCHANGED <<json, identity, logins>>
    <3>1. Constructible(mail, key.openID, "EmailSign")
        BY <2>1 DEF Constructible
    <3> QED
        BY <1>0, <2>1, <2>2, <3>1, RenewKeepsInv DEF Renew, Signs
  <2>3. CASE key' = [key EXCEPT !.mail = mail] /\ UNCHANGED <<json, identity, logins>>
    <3>1. /\ key' \in Keys
          /\ key'.mail = mail /\ key'.openID = key.openID /\ key'.hash = key.hash
        BY <1>0, <2>1, <2>3 DEF KeyInv, TypeOK, Keys
    <3>2. Sound(key)'
        BY <1>0, <2>1, <3>1 DEF KeyInv, Sound, HashesWell, ReadsWell, SenderMatches
    <3>3. TypeOK' /\ MailHashKept' /\ LoginHashKept' /\ JsonSound'
        BY <2>3, <3>1 DEF KeyInv, TypeOK, MailHashKept, LoginHashKept, JsonSound
    <3> QED
        BY <3>2, <3>3 DEF KeyInv
  <2> QED
      BY <1>6, <2>2, <2>3 DEF Obscure
<1>7. CASE ToJson
  <2>1. /\ json' = [mail |-> key.mail, openID |-> key.openID, sign |-> key.sign]
        /\ UNCHANGED <<key, identity, logins>>
      BY <1>7 DEF ToJson
  <2>2. TypeOK'
      BY <1>0, <2>1 DEF KeyInv, TypeOK, Signs
  <2>3. JsonSound'
      BY <1>0, <2>1 DEF JsonSound
  <2> QED
      BY <2>1, <2>2, <2>3 DEF KeyInv, Sound, MailHashKept, LoginHashKept
<1>8. CASE FromJson
  <2> DEFINE mail == Restored(json.mail)
  <2>1. json \in Written /\ json # Undefined /\ logins' = logins
      BY <1>8 DEF FromJson, KeyInv, TypeOK, Written, Signs
  <2>2. json.mail \in Mail /\ json.openID \in OpenID /\ json.sign \in Signs
      BY <2>1 DEF Written
  <2>3. /\ HashesWell(json.mail) /\ ReadsWell(json.openID) /\ json.mail.hash = identity.mail
        /\ json.openID.subject \in logins
      BY <2>1 DEF KeyInv, JsonSound
  <2>4. mail \in Mail /\ HashesWell(mail) /\ mail.hash = identity.mail
      BY <2>2, <2>3 DEF Restored, Mail, HashesWell
  <2>5. SubjectOf(json.openID) \in logins
      BY <2>3 DEF ReadsWell, SubjectOf
  <2> QED
      BY <1>0, <1>8, <2>1, <2>2, <2>4, <2>5, RenewKeepsInv DEF FromJson
<1>9. CASE UNCHANGED vars
    BY <1>9 DEF vars, KeyInv, TypeOK, Sound, MailHashKept, LoginHashKept, JsonSound
<1> QED
    BY <1>1, <1>2, <1>3, <1>4, <1>5, <1>6, <1>7, <1>8, <1>9 DEF Next, Signs

LEMMA KeyInvTheorem == Spec => []KeyInv
    BY InitInv, NextInv, PTL DEF Spec

-----------------------------------------------------------------------------
\* Every reachable key and every text of it has the shape of the code's.
THEOREM KeyTypeCorrect == Spec => []TypeOK
<1>1. KeyInv => TypeOK
    BY DEF KeyInv
<1> QED
    BY <1>1, KeyInvTheorem, PTL

\* The hash of the mailbox survives updates, obscuring and JSON.
THEOREM MailHashTheorem == Spec => []MailHashKept
<1>1. KeyInv => MailHashKept
    BY DEF KeyInv
<1> QED
    BY <1>1, KeyInvTheorem, PTL

\* The key hash changes only with ID tokens of other logins.
THEOREM LoginHashTheorem == Spec => []LoginHashKept
<1>1. KeyInv => LoginHashKept
    BY DEF KeyInv
<1> QED
    BY <1>1, KeyInvTheorem, PTL

\* Whatever was updated before, a signature over an email or an ID token proves the
\* very key hash it is made for.
THEOREM SignatureTheorem == Spec => []SignatureProvesKey
<1>1. KeyInv => SignatureProvesKey
  <2> SUFFICES ASSUME KeyInv, NEW d \in Digests, CanSign(key, d),
                      SignsMail(key) \/ key.sign = "OpenIDSign"
               PROVE  SignedKey(key) = key.hash
      BY DEF SignatureProvesKey
  <2>1. CASE SignsMail(key)
    <3>1. key.mail.type = "Raw" /\ key.mail.dkim # Undefined
        BY <2>1 DEF SignsMail, CanSign
    <3>2. key.mail.dkim.from = key.mail.from
        BY <2>1, <3>1 DEF KeyInv, Sound, SenderMatches, SignsMail
    <3> QED
        BY <2>1, <3>1, <3>2 DEF SignedKey, KeyInv, Sound, HashesWell
  <2>2. CASE ~SignsMail(key)
    <3>1. key.openID.token # Undefined
        BY <2>2 DEF CanSign
    <3> QED
        BY <2>2, <3>1 DEF SignedKey, KeyInv, Sound, ReadsWell
  <2> QED
      BY <2>1, <2>2
<1> QED
    BY <1>1, KeyInvTheorem, PTL

\* What New makes of its options, but for the hashes.
LEMMA NewKeeps ==
    ASSUME NEW mail \in Mail, NEW openID \in OpenID, NEW sign
    PROVE  LET k == New(mail, openID, sign)
           IN  /\ k.mail.type = mail.type /\ k.mail.sign = mail.sign
               /\ k.mail.dkim = mail.dkim /\ k.mail.zk = mail.zk
               /\ k.openID.known = openID.known /\ k.openID.token = openID.token
               /\ k.sign = sign
<1>1. /\ New(mail, openID, sign).mail = [mail EXCEPT !.hash = MailHashOf(mail)]
      /\ New(mail, openID, sign).openID = [openID EXCEPT !.subject = SubjectOf(openID)]
      /\ New(mail, openID, sign).sign = sign
    BY DEF New
<1> QED
    BY <1>1 DEF Mail, OpenID

\* A key to which the email, the proof or the ID token of a digest is given can sign
\* the digest: no update takes away what an earlier one has given.
THEOREM PreparedTheorem == Spec => PreparedKeySigns
<1> DEFINE
        MailPrepared ==
            \A v \in Dkims :
               (/\ UpdateDkimParams(v) /\ key.sign = "EmailSign"
                /\ IF key.mail.sign = "RawEmail" THEN key.mail.type = "Raw" ELSE key.mail.zk)
                   => CanSign(key', v.digest)
        ProofPrepared ==
            (/\ UpdateZKParams /\ key.sign = "EmailSign"
             /\ key.mail.sign = "DkimZK" /\ key.mail.dkim # Undefined)
                => CanSign(key', key.mail.dkim.digest)
        TokenPrepared ==
            \A v \in Tokens :
               (UpdateIDToken(v) /\ key.sign = "OpenIDSign" /\ v.readable)
                   => CanSign(key', v.nonce)
<1>1. KeyInv => MailPrepared
  <2> SUFFICES ASSUME KeyInv, NEW v \in Dkims, UpdateDkimParams(v), key.sign = "EmailSign",
                      IF key.mail.sign = "RawEmail" THEN key.mail.type = "Raw" ELSE key.mail.zk
               PROVE  CanSign(key', v.digest)
      OBVIOUS
  <2> DEFINE mail == [key.mail EXCEPT !.dkim = v]
  <2>1. /\ mail \in Mail /\ mail.dkim = v /\ v # Undefined /\ mail.type = key.mail.type
        /\ mail.sign = key.mail.sign /\ mail.zk = key.mail.zk
      BY KeyFacts, OpenIDKeyAssumption DEF Mail
  <2>2. key.mail.type # "string" /\ key' = New(mail, key.openID, key.sign)
      BY DEF UpdateDkimParams, HasMail, Renew
  <2> HIDE DEF mail
  <2>3. /\ key'.sign = "EmailSign" /\ key'.mail.dkim = v /\ key'.mail.type = key.mail.type
        /\ key'.mail.sign = key.mail.sign /\ key'.mail.zk = key.mail.zk
      BY <2>1, <2>2, KeyFacts, NewKeeps
  <2> QED
      BY <2>1, <2>2, <2>3 DEF CanSign
<1>2. KeyInv => ProofPrepared
  <2> SUFFICES ASSUME KeyInv, UpdateZKParams, key.sign = "EmailSign",
                      key.mail.sign = "DkimZK", key.mail.dkim # Undefined
               PROVE  CanSign(key', key.mail.dkim.digest)
      OBVIOUS
  <2>1. /\ WithProof(key.mail) \in Mail /\ WithProof(key.mail).zk = TRUE
        /\ WithProof(key.mail).type = key.mail.type /\ WithProof(key.mail).sign = key.mail.sign
        /\ WithProof(key.mail).dkim = key.mail.dkim
      BY KeyFacts DEF Mail, WithProof
  <2>2. key.mail.type # "string" /\ key' = New(WithProof(key.mail), key.openID, key.sign)
      BY DEF UpdateZKParams, HasMail, Renew
  <2> QED
      BY <2>1, <2>2, KeyFacts, NewKeeps DEF CanSign
<1>3. KeyInv => TokenPrepared
  <2> SUFFICES ASSUME KeyInv, NEW v \in Tokens, UpdateIDToken(v), key.sign = "OpenIDSign",
                      v.readable
               PROVE  CanSign(key', v.nonce)
      OBVIOUS
  <2> DEFINE openID == [known |-> TRUE, token |-> v, subject |-> Undefined]
  <2>1. openID \in OpenID /\ v # Undefined
      BY OpenIDKeyAssumption DEF OpenID
  <2>2. key' = New(key.mail, openID, key.sign)
      BY DEF UpdateIDToken, Renew
  <2>3. key'.sign = "OpenIDSign" /\ key'.openID.known = TRUE /\ key'.openID.token = v
      BY <2>1, <2>2, KeyFacts, NewKeeps
  <2> QED
      BY <2>1, <2>3 DEF CanSign
<1>4. KeyInv /\ [Next]_vars => [MailPrepared /\ ProofPrepared /\ TokenPrepared]_vars
    BY <1>1, <1>2, <1>3
<1> QED
    BY <1>4, KeyInvTheorem, PTL DEF Spec, PreparedKeySigns
=============================================================================
