--------------------------------- MODULE Tss ---------------------------------
(***************************************************************************)
(* Two-party keys (provider/src/utils/tss.ts): generateLocalKey makes a key  *)
(* together with the backend and keeps this side's share in a keystore,      *)
(* generateTxSig signs with it.  Each is a short protocol of requests; every *)
(* answer brings the token of the next one.  When the first step fails the   *)
(* call gives up, when a later one fails it starts again with the token it    *)
(* was given, as often as that takes.                                        *)
(* Backend and network are external: requests may be handled late, also      *)
(* those of an attempt that was given up; answers may be lost.               *)
(* The protocols implement KeyPromise.                                      *)
(***************************************************************************)
EXTENDS Integers, Sequences, FiniteSets

CONSTANTS
    Keygens,     \* the calls of generateLocalKey
    Signs,       \* the calls of generateTxSig
    OneTime,     \* the calls with tokens that the backend accepts only once
    Passwords,
    Nfkc,        \* the normal form of each password
    Malformed,   \* passwords that have no UTF-8 encoding
    None,
    MaxAttempts  \* bound on the attempts of a call

ASSUME TssAssumption ==
    /\ Keygens \cap Signs = {}
    /\ OneTime \subseteq Keygens \cup Signs
    /\ Malformed \subseteq Passwords
    /\ Nfkc \in [Passwords -> Passwords]
    /\ MaxAttempts \in Nat /\ MaxAttempts >= 2

VARIABLES
    pc,      \* where the call is
    step,    \* the request of the protocol it is at
    attempt, \* how often it has started
    token,   \* the upAuthToken of its next request
    share,   \* the key that its share (signContext2, localKey) is of
    input,   \* its arguments
    result,  \* what it resolved with: LocalKeyData, or the key a signature is by
    net,     \* requests and answers under way
    spent,   \* the tokens the backend has seen
    keys     \* the keys the backend has finished

vars == <<pc, step, attempt, token, share, input, result, net, spent, keys>>
locals == <<input, result, spent, keys>>
backend == <<pc, step, attempt, token, share, input, result>>

-----------------------------------------------------------------------------
Calls == Keygens \cup Signs

\* A mutant: what getKeygen gives is returned.
LastBeforeFinish(c) == 2

\* startKeygen, getKeygen, finishKeygen; startSign, sign.
Last(c) == IF c \in Keygens THEN 3 ELSE 2

\* A key is named by the session that made it: the attempt of a call.
Keys == [call : Keygens, attempt : 1..MaxAttempts]

ASSUME NoneAssumption == None \notin Keys

\* Tokens: the one a call is given, and one with each answer.
Token(c, a, i) == [call |-> c, attempt |-> a, step |-> i]
Given(c) == Token(c, 0, 0)
Tokens == [call : Calls, attempt : 0..MaxAttempts, step : 0..3]

\* The password bytes that the key of the keystore is derived from.
KdfKey(p) == Nfkc[p]
Keystores == [content : Keys, password : Passwords \ Malformed]

EncryptKeystore(content, p) == [content |-> content, password |-> p]

\* "invalid password", or no encoding of it, otherwise.
Opens(keystore, p) == p \notin Malformed /\ KdfKey(p) = KdfKey(keystore.password)
DecryptKeystore(keystore) == keystore.content

LocalKeys == [address : Keys, keystore : Keystores]

Messages == [type : {"request", "answer"}, call : Calls, attempt : 1..MaxAttempts,
             step : 1..3, token : Tokens, share : Keys \cup {None}]

Inputs == [password : Passwords, address : Keys \cup {None},
           keystore : Keystores \cup {None}]

-----------------------------------------------------------------------------
\* A mutant: a password that cannot be encoded is not noticed.
LocalWorksUnencoded(c) ==
    c \in Signs /\ step[c] = 1 => Opens(input[c].keystore, input[c].password)

\* A mutant: a new token is fetched for each start.
RestartWithNewToken(c) ==
    IF step[c] = 1
    THEN /\ pc' = [pc EXCEPT ![c] = "gaveup"]
         /\ UNCHANGED <<step, attempt, token, share>>
    ELSE /\ attempt[c] < MaxAttempts
         /\ pc' = [pc EXCEPT ![c] = "ready"]
         /\ step' = [step EXCEPT ![c] = 1]
         /\ attempt' = [attempt EXCEPT ![c] = @ + 1]
         /\ token' = [token EXCEPT ![c] = Token(c, attempt[c], 0)]
         /\ share' = [share EXCEPT ![c] = None]

-----------------------------------------------------------------------------
Init ==
    /\ pc = [c \in Calls |-> "idle"]
    /\ step = [c \in Calls |-> 1]
    /\ attempt = [c \in Calls |-> 1]
    /\ token = [c \in Calls |-> Given(c)]
    /\ share = [c \in Calls |-> None]
    /\ input = [c \in Calls |-> None]
    /\ result = [c \in Calls |-> None]
    /\ net = {} /\ spent = {} /\ keys = {}

\* generateLocalKey is given a password, generateTxSig also an address and a
\* keystore of keys that were generated before.
Begin(c, in) ==
    /\ pc[c] = "idle"
    /\ c \in Keygens <=> in.keystore = None
    /\ c \in Keygens <=> in.address = None
    /\ input' = [input EXCEPT ![c] = in]
    /\ pc' = [pc EXCEPT ![c] = "ready"]
    /\ UNCHANGED <<step, attempt, token, share, result, net, spent, keys>>

\* What the call does itself before the request: the share of a key is put into
\* a keystore before finishKeygen, and taken out of it before startSign.
LocalWorks(c) ==
    /\ c \in Keygens /\ step[c] = 3 => input[c].password \notin Malformed
    /\ c \in Signs /\ step[c] = 1 => Opens(input[c].keystore, input[c].password)

ShareAt(c) ==
    IF c \in Signs THEN DecryptKeystore(input[c].keystore) ELSE share[c]

Request(c) ==
    /\ pc[c] = "ready" /\ LocalWorks(c)
    /\ share' = [share EXCEPT ![c] = ShareAt(c)]
    /\ net' = net \cup {[type |-> "request", call |-> c, attempt |-> attempt[c],
                         step |-> step[c], token |-> token[c], share |-> ShareAt(c)]}
    /\ pc' = [pc EXCEPT ![c] = "waiting"]
    /\ UNCHANGED <<step, attempt, token, locals>>

\* The two nested try blocks: null or "" after the first step, and the whole call
\* again, with the arguments it was given, after a later one.
Restart(c) ==
    IF step[c] = 1
    THEN /\ pc' = [pc EXCEPT ![c] = "gaveup"]
         /\ UNCHANGED <<step, attempt, token, share>>
    ELSE /\ attempt[c] < MaxAttempts
         /\ pc' = [pc EXCEPT ![c] = "ready"]
         /\ step' = [step EXCEPT ![c] = 1]
         /\ attempt' = [attempt EXCEPT ![c] = @ + 1]
         /\ token' = [token EXCEPT ![c] = Given(c)]
         /\ share' = [share EXCEPT ![c] = None]

LocalFails(c) ==
    /\ pc[c] = "ready" /\ ~LocalWorks(c)
    /\ Restart(c)
    /\ UNCHANGED <<net, locals>>

\* The request or its answer is lost, refused or times out, or the worker fails.
Fails(c) ==
    /\ pc[c] = "waiting"
    /\ Restart(c)
    /\ UNCHANGED <<net, locals>>

IsAnswer(m, c) ==
    /\ m.type = "answer" /\ m.call = c
    /\ m.attempt = attempt[c] /\ m.step = step[c]

\* An answer but the last: its token is for the next request.  getP2KeyGen2 makes
\* this side's share of the session's key.
Continue(c, m) ==
    /\ pc[c] = "waiting" /\ IsAnswer(m, c) /\ step[c] < Last(c)
    /\ pc' = [pc EXCEPT ![c] = "ready"]
    /\ step' = [step EXCEPT ![c] = @ + 1]
    /\ token' = [token EXCEPT ![c] = m.token]
    /\ share' = [share EXCEPT ![c] = IF c \in Keygens /\ step[c] = 2
                                     THEN [call |-> c, attempt |-> attempt[c]]
                                     ELSE share[c]]
    /\ net' = net \ {m}
    /\ UNCHANGED <<attempt, locals>>

\* LocalKeyData: the address is that of the share.  Or the signature.
Finish(c, m) ==
    /\ pc[c] = "waiting" /\ IsAnswer(m, c) /\ step[c] = Last(c)
    /\ pc' = [pc EXCEPT ![c] = "done"]
    /\ result' = [result EXCEPT ![c] =
           IF c \in Keygens
           THEN [address  |-> share[c],
                 keystore |-> EncryptKeystore(share[c], input[c].password)]
           ELSE m.share]
    /\ net' = net \ {m}
    /\ UNCHANGED <<step, attempt, token, share, input, spent, keys>>

-----------------------------------------------------------------------------
\* What the backend asks of a request: a token that is not spent, if it cares.
Accepts(m) == m.call \in OneTime => m.token \notin spent

\* Neither side of startMessageSign and sign compares the address it was given with
\* the share in the keystore.  The backend signs with its share of the key that is
\* named; two shares of one key sign for it, shares of two keys for none.
SignedBy(m) ==
    IF m.call \in Signs /\ m.step = 2 /\ m.share # input[m.call].address
    THEN None ELSE m.share

\* The backend handles a request, maybe long after it was sent.  It answers with
\* the next token; at the end a key is in use, or the message is signed.
Handle(m) ==
    /\ m.type = "request" /\ Accepts(m)
    /\ spent' = spent \cup {m.token}
    /\ keys' = IF m.call \in Keygens /\ m.step = 3
               THEN keys \cup {[call |-> m.call, attempt |-> m.attempt]} ELSE keys
    /\ net' = (net \ {m}) \cup
              {[m EXCEPT !.type = "answer", !.token = Token(m.call, m.attempt, m.step),
                         !.share = SignedBy(m)]}
    /\ UNCHANGED backend

Refuse(m) ==
    /\ m.type = "request" /\ ~Accepts(m)
    /\ net' = net \ {m}
    /\ UNCHANGED <<backend, spent, keys>>

Returned == {result[k] : k \in {k \in Keygens : pc[k] = "done"}}

CallStep(c) ==
    \/ Request(c) \/ LocalFails(c) \/ Fails(c)
    \/ \E m \in net : Continue(c, m) \/ Finish(c, m)

Next ==
    \/ \E c \in Keygens, p \in Passwords :
           Begin(c, [password |-> p, address |-> None, keystore |-> None])
    \/ \E c \in Signs, p \in Passwords, k \in Returned, l \in Returned :
           Begin(c, [password |-> p, address |-> k.address, keystore |-> l.keystore])
    \/ \E c \in Calls : CallStep(c)
    \/ \E m \in net : Handle(m) \/ Refuse(m)

Spec == Init /\ [][Next]_vars

\* Every await of a call is settled in the end.
Fairness == \A c \in Calls : WF_vars(CallStep(c))

FairSpec == Spec /\ Fairness

-----------------------------------------------------------------------------
\* TypeOK: the values of the state.
TypeOK ==
    /\ pc \in [Calls -> {"idle", "ready", "waiting", "done", "gaveup"}]
    /\ step \in [Calls -> 1..3] /\ attempt \in [Calls -> 1..MaxAttempts]
    /\ token \in [Calls -> Tokens] /\ share \in [Calls -> Keys \cup {None}]
    /\ input \in [Calls -> Inputs \cup {None}]
    /\ result \in [Calls -> LocalKeys \cup Keys \cup {None}]
    /\ net \subseteq Messages /\ spent \subseteq Tokens /\ keys \subseteq Keys

\* A key that generateLocalKey resolved with is one the backend has finished, and
\* the keystore beside it holds the share of this key and opens with the password,
\* whatever happened to the attempts before.
ReturnedKeyIsFinished ==
    \A c \in Keygens : pc[c] = "done" =>
        /\ result[c].address \in keys
        /\ result[c].address.call = c
        /\ DecryptKeystore(result[c].keystore) = result[c].address
        /\ Opens(result[c].keystore, input[c].password)

\* With a token that is accepted once, a call leaves at most one key with the
\* backend, late requests included; so a key that is returned is the only one.
OneKeyPerToken ==
    \A c \in Keygens \cap OneTime, j, k \in keys : j.call = c /\ k.call = c => j = k

\* A call whose token is accepted once ends, though it starts again without limit:
\* its second start is refused.
EveryCallEnds ==
    \A c \in OneTime : pc[c] = "ready" ~> pc[c] \in {"done", "gaveup"}

\* What a call with such a token has at most before it: a request and its answer for
\* every step that is left, and one round more for the second start.
StepsLeft(c) ==
    IF pc[c] \in {"done", "gaveup"} THEN 0
    ELSE 2 * (IF attempt[c] = 1 THEN Last(c) + 2 - step[c] ELSE 1)
            + CASE pc[c] = "idle" -> 1 [] pc[c] = "ready" -> 0 [] pc[c] = "waiting" -> -1

\* Every step of such a call brings it nearer to its end, and nothing that the backend
\* does, early or late, sends it back.
StepsRunOut ==
    [][\A c \in OneTime :
          /\ StepsLeft(c)' \in 0..StepsLeft(c)
          /\ CallStep(c) => StepsLeft(c)' # StepsLeft(c)]_vars

\* What a call that is done has given: a new key, or a signature by one or by none.
KeyOf(c) == IF c \in Keygens THEN result[c].address ELSE result[c]

\* What generateTxSig was asked for: the key that is named, and the key of the keystore.
AskedOf(c) ==
    IF pc[c] = "idle" THEN [address |-> None, share |-> None]
    ELSE [address |-> input[c].address, share |-> DecryptKeystore(input[c].keystore)]

Promise == INSTANCE KeyPromise WITH
    asked <- [c \in Signs |-> AskedOf(c)],
    told <- [c \in Calls |-> IF pc[c] = "done" THEN KeyOf(c) ELSE None],
    given <- {c \in Calls : pc[c] = "done"},
    gaveup <- {c \in Calls : pc[c] = "gaveup"}

\* The protocols keep the promise, whatever is lost, late or started again.
KeepsKeyPromise == Promise!Spec
=============================================================================
