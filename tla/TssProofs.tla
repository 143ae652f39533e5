------------------------------ MODULE TssProofs ------------------------------
(***************************************************************************)
(* Proofs about Tss for every set of calls and passwords, however often a   *)
(* call starts again and whatever becomes of its messages: types, the three *)
(* promises about the keys and signatures that are returned, the bound on the *)
(* steps of a call whose token is accepted once, and the refinement of        *)
(* KeyPromise.                                                              *)
(***************************************************************************)
EXTENDS Tss, TLAPS

USE DEF locals, backend, Calls

Session(c) == [call |-> c, attempt |-> attempt[c]]

\* What the arguments of a call are once it has begun.
InputOK(c) ==
    IF pc[c] = "idle" THEN step[c] = 1
    ELSE /\ input[c] \in Inputs
         /\ c \in Signs => input[c].address \in keys /\ input[c].keystore \in Keystores

StepOK(c) == c \in Signs => step[c] <= 2

\* generateLocalKey: this side's share is of the session of this attempt.
ShareOK(c) ==
    c \in Keygens /\ step[c] = 3 /\ pc[c] \in {"ready", "waiting"} =>
        /\ share[c] = Session(c)
        /\ pc[c] = "waiting" => input[c].password \notin Malformed

KeyOK(c) ==
    c \in Keygens /\ pc[c] = "done" =>
        /\ result[c] \in LocalKeys
        /\ result[c].address = Session(c) /\ Session(c) \in keys
        /\ DecryptKeystore(result[c].keystore) = Session(c)
        /\ Opens(result[c].keystore, input[c].password)

\* generateTxSig: whose signature the two shares make.
Joint(c) ==
    IF DecryptKeystore(input[c].keystore) = input[c].address THEN input[c].address ELSE None

SignatureOK(c) == c \in Signs /\ pc[c] = "done" => result[c] = Joint(c)

CallOK(c) == InputOK(c) /\ StepOK(c) /\ ShareOK(c) /\ KeyOK(c) /\ SignatureOK(c)

CallsOK == \A c \in Calls : CallOK(c)

\* What a message under way says.
KeyMessageOK(m) ==
    m.call \in Keygens /\ m.step = 3 /\ m.type = "answer" =>
        [call |-> m.call, attempt |-> m.attempt] \in keys

SignMessageOK(m) ==
    m.call \in Signs =>
        /\ pc[m.call] # "idle"
        /\ m.share = IF m.step = 2 /\ m.type = "answer" THEN Joint(m.call)
                     ELSE DecryptKeystore(input[m.call].keystore)

NetOK == \A m \in net : KeyMessageOK(m) /\ SignMessageOK(m)

\* With a token that is accepted once, nothing of a second attempt gets beyond the
\* first request: the token was spent by the first attempt.
AttemptOK(c) ==
    /\ step[c] = 1 => token[c] = Given(c)
    /\ attempt[c] > 1 => step[c] = 1
    /\ attempt[c] > 1 \/ step[c] > 1 => Given(c) \in spent

OnceMessageOK(m) ==
    /\ m.step = 1 /\ m.type = "request" => m.token = Given(m.call)
    /\ m.step > 1 \/ m.type = "answer" => m.attempt = 1
    /\ m.step > 1 \/ m.attempt > 1 \/ m.type = "answer" => Given(m.call) \in spent

OnceOK ==
    /\ \A c \in OneTime : AttemptOK(c)
    /\ \A m \in net : m.call \in OneTime => OnceMessageOK(m)
    /\ \A k \in keys : k.call \in OneTime => k.attempt = 1

-----------------------------------------------------------------------------
\* The types in parts.
FlowOK ==
    /\ pc \in [Calls -> {"idle", "ready", "waiting", "done", "gaveup"}]
    /\ step \in [Calls -> 1..3] /\ attempt \in [Calls -> 1..MaxAttempts]
    /\ token \in [Calls -> Tokens] /\ share \in [Calls -> Keys \cup {None}]
ArgsOK ==
    /\ input \in [Calls -> Inputs \cup {None}]
    /\ result \in [Calls -> LocalKeys \cup Keys \cup {None}]
MessagesOK == net \subseteq Messages
BackendOK == spent \subseteq Tokens /\ keys \subseteq Keys

LEMMA TypeOKIsParts == TypeOK <=> FlowOK /\ ArgsOK /\ MessagesOK /\ BackendOK
BY DEF TypeOK, FlowOK, ArgsOK, MessagesOK, BackendOK

TssInv == TypeOK /\ CallsOK /\ NetOK

LEMMA TokensAreTokens ==
    ASSUME NEW c \in Calls, NEW a \in 0..MaxAttempts, NEW i \in 0..3
    PROVE  Token(c, a, i) \in Tokens
BY DEF Token, Tokens

LEMMA GivenIsToken == ASSUME NEW c \in Calls PROVE Given(c) \in Tokens
BY TssAssumption, TokensAreTokens DEF Given

LEMMA InitInv == Init => TssInv /\ OnceOK
<1> SUFFICES ASSUME Init PROVE TssInv /\ OnceOK
    OBVIOUS
<1> USE TssAssumption DEF Init
<1>1. TypeOK
    BY GivenIsToken DEF TypeOK
<1>2. CallsOK /\ NetOK
    BY DEF CallsOK, CallOK, NetOK, InputOK, StepOK, ShareOK, KeyOK, SignatureOK
<1>3. OnceOK
    BY DEF OnceOK, AttemptOK
<1> QED
    BY <1>1, <1>2, <1>3 DEF TssInv

-----------------------------------------------------------------------------
\* One lemma per action.  A call that another one does not touch stays as it is.

LEMMA OthersKeep ==
    ASSUME CallsOK, NEW x \in Calls, keys \subseteq keys',
           pc'[x] = pc[x], step'[x] = step[x], attempt'[x] = attempt[x],
           share'[x] = share[x], input'[x] = input[x], result'[x] = result[x]
    PROVE  CallOK(x)'
BY DEF CallsOK, CallOK, InputOK, StepOK, ShareOK, KeyOK, SignatureOK, Joint, Session

LEMMA BeginKeepsInv ==
    ASSUME TssInv, NEW c \in Calls, NEW in \in Inputs, Begin(c, in),
           c \in Signs => in.address \in keys /\ in.keystore \in Keystores
    PROVE  TssInv'
<1> USE TypeOKIsParts DEF TssInv, Begin
<1>1. TypeOK'
    BY DEF TypeOK, FlowOK, ArgsOK, MessagesOK, BackendOK
<1>2. CallsOK'
    <2> SUFFICES ASSUME NEW x \in Calls
        PROVE CallOK(x)'
        BY DEF CallsOK
    <2>1. CASE x = c
        BY <2>1 DEF CallsOK, CallOK, FlowOK, ArgsOK, InputOK, StepOK, ShareOK, KeyOK, SignatureOK
    <2>2. CASE x # c
        BY <2>2, OthersKeep DEF FlowOK, ArgsOK
    <2> QED
        BY <2>1, <2>2
<1>3. NetOK'
    BY DEF NetOK, KeyMessageOK, SignMessageOK, Joint, FlowOK, ArgsOK, MessagesOK, Messages
<1> QED
    BY <1>1, <1>2, <1>3

LEMMA ShareIsKey ==
    ASSUME TssInv, NEW c \in Calls, pc[c] # "idle"
    PROVE  ShareAt(c) \in Keys \cup {None}
<1> USE TypeOKIsParts DEF TssInv
<1>1. CASE c \in Signs
    <2>1. input[c].keystore \in Keystores
        BY <1>1 DEF CallsOK, CallOK, InputOK
    <2> QED
        BY <1>1, <2>1 DEF ShareAt, DecryptKeystore, Keystores
<1>2. CASE c \notin Signs
    BY <1>2 DEF ShareAt, FlowOK
<1> QED
    BY <1>1, <1>2

LEMMA RequestKeepsInv ==
    ASSUME TssInv, NEW c \in Calls, Request(c)
    PROVE  TssInv'
<1> USE TypeOKIsParts DEF TssInv
<1> DEFINE r == [type |-> "request", call |-> c, attempt |-> attempt[c],
                 step |-> step[c], token |-> token[c], share |-> ShareAt(c)]
<1>0. /\ pc[c] = "ready" /\ LocalWorks(c)
      /\ share' = [share EXCEPT ![c] = ShareAt(c)]
      /\ net' = net \cup {r} /\ pc' = [pc EXCEPT ![c] = "waiting"]
      /\ UNCHANGED <<step, attempt, token, input, result, spent, keys>>
    BY DEF Request
<1>1. ShareAt(c) \in Keys \cup {None}
    BY <1>0, ShareIsKey
<1>2. r \in Messages
    BY <1>1 DEF FlowOK, Messages
<1>3. /\ r.call = c /\ r.type = "request" /\ r.share = ShareAt(c)
    OBVIOUS
<1> HIDE DEF r
<1>4. TypeOK'
    BY <1>0, <1>1, <1>2 DEF TypeOK, FlowOK, ArgsOK, MessagesOK, BackendOK
<1>5. CallsOK'
    <2> SUFFICES ASSUME NEW x \in Calls
        PROVE CallOK(x)'
        BY DEF CallsOK
    <2>1. CASE x = c
        <3>1. InputOK(c) /\ StepOK(c) /\ ShareOK(c) /\ step[c] \in 1..3
            BY DEF CallsOK, CallOK, FlowOK
        <3>2. pc'[c] = "waiting" /\ share'[c] = ShareAt(c)
            BY <1>0 DEF FlowOK
        <3>3. ShareOK(c)'
            BY <1>0, <3>1, <3>2, TssAssumption DEF ShareOK, LocalWorks, Session, ShareAt
        <3> QED
            BY <1>0, <2>1, <3>1, <3>2, <3>3 DEF CallOK, InputOK, StepOK, KeyOK, SignatureOK
    <2>2. CASE x # c
        BY <1>0, <2>2, OthersKeep DEF FlowOK
    <2> QED
        BY <2>1, <2>2
<1>6. NetOK'
    <2> SUFFICES ASSUME NEW m \in net' PROVE KeyMessageOK(m)' /\ SignMessageOK(m)'
        BY DEF NetOK
    <2>1. CASE m = r
        <3>1. m.call = c /\ m.type = "request" /\ m.share = ShareAt(c)
            BY <1>3, <2>1
        <3>2. pc'[c] = "waiting"
            BY <1>0 DEF FlowOK
        <3> QED
            BY <1>0, <3>1, <3>2 DEF KeyMessageOK, SignMessageOK, Joint, ShareAt
    <2>2. CASE m \in net
        BY <1>0, <2>2 DEF NetOK, KeyMessageOK, SignMessageOK, Joint, FlowOK, MessagesOK, Messages
    <2> QED
        BY <1>0, <2>1, <2>2
<1> QED
    BY <1>4, <1>5, <1>6

LEMMA RestartKeepsInv ==
    ASSUME TssInv, NEW c \in Calls, pc[c] \in {"ready", "waiting"}, Restart(c),
           UNCHANGED <<net, input, result, spent, keys>>
    PROVE  TssInv'
<1> USE TypeOKIsParts DEF TssInv
<1>1. TypeOK'
    <2>1. CASE step[c] = 1
        BY <2>1 DEF Restart, TypeOK, FlowOK, ArgsOK, MessagesOK, BackendOK
    <2>2. CASE step[c] # 1
        <3>1. attempt[c] + 1 \in 1..MaxAttempts
            BY <2>2, TssAssumption DEF Restart, FlowOK
        <3>2. /\ pc' = [pc EXCEPT ![c] = "ready"] /\ step' = [step EXCEPT ![c] = 1]
              /\ attempt' = [attempt EXCEPT ![c] = attempt[c] + 1]
              /\ token' = [token EXCEPT ![c] = Given(c)]
              /\ share' = [share EXCEPT ![c] = None]
            BY <2>2 DEF Restart, FlowOK
        <3>3. Given(c) \in Tokens
            BY GivenIsToken
        <3>4. FlowOK'
            BY <3>1, <3>2, <3>3 DEF FlowOK
        <3> QED
            BY <3>4 DEF TypeOK, FlowOK, ArgsOK, MessagesOK, BackendOK
    <2> QED
        BY <2>1, <2>2
<1>2. CallsOK'
    <2> SUFFICES ASSUME NEW x \in Calls
        PROVE CallOK(x)'
        BY DEF CallsOK
    <2>1. CASE x = c
        <3>1. pc'[c] \in {"ready", "gaveup"} /\ step'[c] = 1
            BY DEF Restart, FlowOK
        <3>2. InputOK(c)
            BY DEF CallsOK, CallOK
        <3> QED
            BY <2>1, <3>1, <3>2 DEF CallOK, InputOK, StepOK, ShareOK, KeyOK, SignatureOK
    <2>2. CASE x # c
        BY <2>2, OthersKeep DEF Restart, FlowOK
    <2> QED
        BY <2>1, <2>2
<1>3. NetOK'
    BY DEF NetOK, KeyMessageOK, SignMessageOK, Joint, Restart, FlowOK, MessagesOK, Messages
<1> QED
    BY <1>1, <1>2, <1>3

LEMMA ContinueKeepsInv ==
    ASSUME TssInv, NEW c \in Calls, NEW m \in net, Continue(c, m)
    PROVE  TssInv'
<1> USE TypeOKIsParts DEF TssInv
<1> DEFINE sh == IF c \in Keygens /\ step[c] = 2 THEN Session(c) ELSE share[c]
<1>0. /\ pc[c] = "waiting" /\ step[c] < Last(c) /\ m \in Messages
      /\ pc' = [pc EXCEPT ![c] = "ready"] /\ step' = [step EXCEPT ![c] = step[c] + 1]
      /\ token' = [token EXCEPT ![c] = m.token] /\ share' = [share EXCEPT ![c] = sh]
      /\ net' = net \ {m} /\ UNCHANGED <<attempt, input, result, spent, keys>>
    BY DEF Continue, Session, FlowOK, MessagesOK
<1>1. sh \in Keys \cup {None} /\ step[c] + 1 \in 1..3 /\ (c \in Signs => step[c] + 1 <= 2)
    BY <1>0, TssAssumption DEF Session, FlowOK, Keys, Last
<1>2. step[c] + 1 = 3 => step[c] = 2
    BY DEF FlowOK
<1>3. c \in Keygens /\ step[c] = 2 => sh = Session(c)
    OBVIOUS
<1> HIDE DEF sh
<1>4. TypeOK'
    BY <1>0, <1>1 DEF TypeOK, FlowOK, ArgsOK, MessagesOK, BackendOK, Messages
<1>5. CallsOK'
    <2> SUFFICES ASSUME NEW x \in Calls PROVE CallOK(x)'
        BY DEF CallsOK
    <2>1. CASE x = c
        <3>1. /\ pc'[c] = "ready" /\ step'[c] = step[c] + 1 /\ share'[c] = sh
              /\ Session(c)' = Session(c)
            BY <1>0 DEF FlowOK, Session
        <3>2. CallOK(c)
            BY DEF CallsOK
        <3>3. ShareOK(c)'
            BY <1>0, <1>2, <1>3, <3>1 DEF ShareOK
        <3> QED
            BY <1>0, <1>1, <2>1, <3>1, <3>2, <3>3
            DEF CallOK, InputOK, StepOK, KeyOK, SignatureOK
    <2>2. CASE x # c
        BY <1>0, <2>2, OthersKeep DEF FlowOK
    <2> QED
        BY <2>1, <2>2
<1>6. NetOK'
    BY <1>0 DEF NetOK, KeyMessageOK, SignMessageOK, Joint, FlowOK, MessagesOK, Messages
<1> QED
    BY <1>4, <1>5, <1>6

LEMMA FinishKeepsInv ==
    ASSUME TssInv, NEW c \in Calls, NEW m \in net, Finish(c, m)
    PROVE  TssInv'
<1> USE TypeOKIsParts DEF TssInv
<1> DEFINE key == [address |-> share[c],
                   keystore |-> EncryptKeystore(share[c], input[c].password)]
<1>0. /\ pc[c] = "waiting" /\ IsAnswer(m, c) /\ step[c] = Last(c) /\ m \in Messages
      /\ pc' = [pc EXCEPT ![c] = "done"]
      /\ result' = [result EXCEPT ![c] = IF c \in Keygens THEN key ELSE m.share]
      /\ net' = net \ {m} /\ UNCHANGED <<step, attempt, token, share, input, spent, keys>>
    BY DEF Finish, MessagesOK
<1>1. CallOK(c) /\ KeyMessageOK(m) /\ SignMessageOK(m)
    BY DEF CallsOK, NetOK
<1>2. c \in Keygens =>
          /\ key \in LocalKeys /\ key.address = Session(c) /\ Session(c) \in keys
          /\ DecryptKeystore(key.keystore) = Session(c)
          /\ Opens(key.keystore, input[c].password)
    <2> SUFFICES ASSUME c \in Keygens
                 PROVE /\ key \in LocalKeys /\ key.address = Session(c) /\ Session(c) \in keys
                       /\ DecryptKeystore(key.keystore) = Session(c)
                       /\ Opens(key.keystore, input[c].password)
        OBVIOUS
    <2>1. Session(c) \in Keys
        BY DEF Session, Keys, FlowOK
    <2>2. share[c] = Session(c) /\ input[c].password \notin Malformed
        BY <1>0, <1>1 DEF CallOK, ShareOK, Last
    <2>3. input[c].password \in Passwords
        BY <1>0, <1>1 DEF CallOK, InputOK, Inputs
    <2>4. Session(c) \in keys
        BY <1>0, <1>1 DEF KeyMessageOK, IsAnswer, Last, Session
    <2> QED
        BY <2>1, <2>2, <2>3, <2>4 DEF LocalKeys, Keystores, EncryptKeystore, DecryptKeystore, Opens
<1>3. c \in Signs => m.share = Joint(c)
    BY <1>0, <1>1, TssAssumption DEF SignMessageOK, IsAnswer, Last
<1>4. m.share \in Keys \cup {None}
    BY <1>0 DEF Messages
<1> HIDE DEF key
<1>5. TypeOK'
    BY <1>0, <1>2, <1>4 DEF TypeOK, FlowOK, ArgsOK, MessagesOK, BackendOK
<1>6. CallsOK'
    <2> SUFFICES ASSUME NEW x \in Calls PROVE CallOK(x)'
        BY DEF CallsOK
    <2>1. CASE x = c
        <3>1. /\ pc'[c] = "done" /\ Session(c)' = Session(c)
              /\ result'[c] = IF c \in Keygens THEN key ELSE m.share
            BY <1>0 DEF FlowOK, ArgsOK, Session
        <3>2. KeyOK(c)'
            BY <1>0, <1>2, <3>1 DEF KeyOK
        <3>3. SignatureOK(c)'
            BY <1>0, <1>3, <3>1, TssAssumption DEF SignatureOK, Joint
        <3>4. InputOK(c)' /\ StepOK(c)' /\ ShareOK(c)'
            BY <1>0, <1>1, <3>1 DEF CallOK, InputOK, StepOK, ShareOK
        <3> QED
            BY <2>1, <3>2, <3>3, <3>4 DEF CallOK
    <2>2. CASE x # c
        BY <1>0, <2>2, OthersKeep DEF FlowOK, ArgsOK
    <2> QED
        BY <2>1, <2>2
<1>7. NetOK'
    BY <1>0 DEF NetOK, KeyMessageOK, SignMessageOK, Joint, FlowOK, MessagesOK, Messages
<1> QED
    BY <1>5, <1>6, <1>7

LEMMA HandleKeepsInv ==
    ASSUME TssInv, NEW m \in net, Handle(m)
    PROVE  TssInv'
<1> USE TypeOKIsParts DEF TssInv
<1> DEFINE a == [m EXCEPT !.type = "answer", !.token = Token(m.call, m.attempt, m.step),
                           !.share = SignedBy(m)]
           session == [call |-> m.call, attempt |-> m.attempt]
<1>0. /\ m.type = "request" /\ Accepts(m) /\ m \in Messages
      /\ spent' = spent \cup {m.token} /\ net' = (net \ {m}) \cup {a}
      /\ keys' = IF m.call \in Keygens /\ m.step = 3 THEN keys \cup {session} ELSE keys
      /\ UNCHANGED <<pc, step, attempt, token, share, input, result>>
    BY DEF Handle, MessagesOK
<1>1. Token(m.call, m.attempt, m.step) \in Tokens
    BY <1>0, TssAssumption, TokensAreTokens DEF Messages
<1>s. SignedBy(m) \in Keys \cup {None}
    BY <1>0 DEF SignedBy, Messages
<1>2. /\ a \in Messages /\ a.type = "answer" /\ a.call = m.call /\ a.step = m.step
      /\ a.attempt = m.attempt /\ a.share = SignedBy(m)
    BY <1>0, <1>1, <1>s DEF Messages
<1>3. keys \subseteq keys' /\ keys' \subseteq Keys
    BY <1>0 DEF BackendOK, Messages, Keys
<1>4. m.token \in Tokens
    BY <1>0 DEF Messages
<1> HIDE DEF a
<1>5. TypeOK'
    BY <1>0, <1>2, <1>3, <1>4 DEF TypeOK, FlowOK, ArgsOK, MessagesOK, BackendOK
<1>6. CallsOK'
    BY <1>0, <1>3, OthersKeep DEF CallsOK
<1>7. NetOK'
    <2> SUFFICES ASSUME NEW x \in net' PROVE KeyMessageOK(x)' /\ SignMessageOK(x)'
        BY DEF NetOK
    <2>1. CASE x = a
        <3>1. KeyMessageOK(x)'
            BY <1>0, <1>2, <2>1 DEF KeyMessageOK
        <3>2. SignMessageOK(m)
            BY DEF NetOK
        <3>3. SignMessageOK(x)'
            BY <1>0, <1>2, <2>1, <3>2 DEF SignMessageOK, SignedBy, Joint
        <3> QED
            BY <3>1, <3>3
    <2>2. CASE x \in net
        BY <1>0, <1>3, <2>2 DEF NetOK, KeyMessageOK, SignMessageOK, Joint
    <2> QED
        BY <1>0, <2>1, <2>2
<1> QED
    BY <1>5, <1>6, <1>7

LEMMA QuietKeepsInv ==
    ASSUME TssInv, UNCHANGED vars \/ \E m \in net : Refuse(m)
    PROVE  TssInv'
<1> USE TypeOKIsParts DEF TssInv
<1>1. /\ UNCHANGED <<pc, step, attempt, token, share, input, result, spent, keys>>
      /\ net' \subseteq net
    BY DEF vars, Refuse
<1>2. TypeOK'
    BY <1>1 DEF TypeOK, FlowOK, ArgsOK, MessagesOK, BackendOK
<1>3. CallsOK'
    BY <1>1, OthersKeep DEF CallsOK
<1>4. NetOK'
    BY <1>1 DEF NetOK, KeyMessageOK, SignMessageOK, Joint
<1> QED
    BY <1>2, <1>3, <1>4

\* What may be given to generateTxSig is a key that was returned.
LEMMA ReturnedAreKeys ==
    ASSUME TssInv, NEW k \in Returned
    PROVE  k.address \in keys /\ k.address \in Keys /\ k.keystore \in Keystores
<1>1. PICK c \in Keygens : pc[c] = "done" /\ k = result[c]
    BY DEF Returned
<1>2. KeyOK(c) /\ keys \subseteq Keys
    BY TypeOKIsParts DEF TssInv, CallsOK, CallOK, BackendOK
<1> QED
    BY <1>1, <1>2 DEF KeyOK, LocalKeys

LEMMA NextKeepsInv == TssInv /\ [Next]_vars => TssInv'
<1> SUFFICES ASSUME TssInv, [Next]_vars PROVE TssInv'
    OBVIOUS
<1>1. ASSUME NEW c \in Keygens, NEW p \in Passwords,
             Begin(c, [password |-> p, address |-> None, keystore |-> None])
      PROVE  TssInv'
    <2>1. [password |-> p, address |-> None, keystore |-> None] \in Inputs
        BY DEF Inputs
    <2>2. c \notin Signs
        BY TssAssumption
    <2> QED
        BY <1>1, <2>1, <2>2, BeginKeepsInv
<1>2. ASSUME NEW c \in Signs, NEW p \in Passwords, NEW k \in Returned, NEW l \in Returned,
             Begin(c, [password |-> p, address |-> k.address, keystore |-> l.keystore])
      PROVE  TssInv'
    <2>1. k.address \in keys /\ k.address \in Keys /\ l.keystore \in Keystores
        BY ReturnedAreKeys
    <2>2. [password |-> p, address |-> k.address, keystore |-> l.keystore] \in Inputs
        BY <2>1 DEF Inputs
    <2> QED
        BY <1>2, <2>1, <2>2, BeginKeepsInv
<1>3. ASSUME NEW c \in Calls, CallStep(c) PROVE TssInv'
    <2>1. CASE Request(c)
        BY <2>1, RequestKeepsInv
    <2>2. CASE LocalFails(c) \/ Fails(c)
        BY <2>2, RestartKeepsInv DEF LocalFails, Fails
    <2>3. CASE \E m \in net : Continue(c, m)
        BY <2>3, ContinueKeepsInv
    <2>4. CASE \E m \in net : Finish(c, m)
        BY <2>4, FinishKeepsInv
    <2> QED
        BY <1>3, <2>1, <2>2, <2>3, <2>4 DEF CallStep
<1>4. CASE \E m \in net : Handle(m)
    BY <1>4, HandleKeepsInv
<1>5. CASE UNCHANGED vars \/ \E m \in net : Refuse(m)
    BY <1>5, QuietKeepsInv
<1> QED
    BY <1>1, <1>2, <1>3, <1>4, <1>5 DEF Next

LEMMA InvHolds == Spec => []TssInv
<1>1. Init => TssInv
    BY InitInv
<1> QED
    BY <1>1, NextKeepsInv, PTL DEF Spec

-----------------------------------------------------------------------------
\* Tokens that are accepted once.

LEMMA RestartKeepsOnce ==
    ASSUME TssInv, OnceOK, NEW c \in Calls, Restart(c),
           UNCHANGED <<net, input, result, spent, keys>>
    PROVE  OnceOK'
<1> USE TypeOKIsParts DEF TssInv, OnceOK
<1>1. ASSUME NEW x \in OneTime PROVE AttemptOK(x)'
    <2>1. CASE x = c /\ step[c] # 1
        <3>1. step'[c] = 1 /\ token'[c] = Given(c) /\ step[c] > 1
            BY <2>1 DEF Restart, FlowOK
        <3> QED
            BY <1>1, <2>1, <3>1 DEF AttemptOK
    <2>2. CASE x = c /\ step[c] = 1
        BY <1>1, <2>2 DEF AttemptOK, Restart
    <2>3. CASE x # c
        BY <1>1, <2>3, TssAssumption DEF AttemptOK, Restart, FlowOK
    <2> QED
        BY <2>1, <2>2, <2>3
<1> QED
    BY <1>1 DEF OnceMessageOK

LEMMA RequestKeepsOnce ==
    ASSUME TssInv, OnceOK, NEW c \in Calls, Request(c)
    PROVE  OnceOK'
<1> USE TypeOKIsParts DEF TssInv, OnceOK
<1> DEFINE r == [type |-> "request", call |-> c, attempt |-> attempt[c],
                 step |-> step[c], token |-> token[c], share |-> ShareAt(c)]
<1>0. net' = net \cup {r} /\ UNCHANGED <<step, attempt, token, spent, keys>>
    BY DEF Request
<1>1. /\ r.type = "request" /\ r.call = c /\ r.attempt = attempt[c]
      /\ r.step = step[c] /\ r.token = token[c]
    OBVIOUS
<1> HIDE DEF r
<1>2. ASSUME NEW m \in net', m.call \in OneTime PROVE OnceMessageOK(m)'
    <2>1. CASE m = r
        <3>1. AttemptOK(c) /\ attempt[c] \in 1..MaxAttempts /\ step[c] \in 1..3
            BY <1>1, <1>2, <2>1 DEF FlowOK
        <3>2. attempt[c] > 1 \/ attempt[c] = 1
            BY <3>1, TssAssumption
        <3> QED
            BY <1>0, <1>1, <2>1, <3>1, <3>2 DEF AttemptOK, OnceMessageOK
    <2>2. CASE m \in net
        BY <1>0, <1>2, <2>2 DEF OnceMessageOK
    <2> QED
        BY <1>0, <1>2, <2>1, <2>2
<1> QED
    BY <1>0, <1>2 DEF AttemptOK

LEMMA ContinueKeepsOnce ==
    ASSUME TssInv, OnceOK, NEW c \in Calls, NEW m \in net, Continue(c, m)
    PROVE  OnceOK'
<1> USE TypeOKIsParts DEF TssInv, OnceOK
<1>0. /\ IsAnswer(m, c) /\ step' = [step EXCEPT ![c] = step[c] + 1]
      /\ token' = [token EXCEPT ![c] = m.token] /\ net' \subseteq net
      /\ UNCHANGED <<attempt, spent, keys>>
    BY DEF Continue, FlowOK
<1>1. ASSUME NEW x \in OneTime PROVE AttemptOK(x)'
    <2>1. CASE x = c
        <3>1. OnceMessageOK(m)
            BY <1>0, <1>1, <2>1 DEF IsAnswer
        <3>2. attempt[c] = 1 /\ Given(c) \in spent
            BY <1>0, <3>1 DEF OnceMessageOK, IsAnswer
        <3>3. step'[c] # 1 /\ step[c] \in 1..3
            BY <1>0 DEF FlowOK
        <3> QED
            BY <1>0, <2>1, <3>2, <3>3 DEF AttemptOK
    <2>2. CASE x # c
        BY <1>0, <1>1, <2>2, TssAssumption DEF AttemptOK, FlowOK
    <2> QED
        BY <2>1, <2>2
<1> QED
    BY <1>0, <1>1 DEF OnceMessageOK

LEMMA HandleKeepsOnce ==
    ASSUME TssInv, OnceOK, NEW m \in net, Handle(m)
    PROVE  OnceOK'
<1> USE TypeOKIsParts DEF TssInv, OnceOK
<1> DEFINE a == [m EXCEPT !.type = "answer", !.token = Token(m.call, m.attempt, m.step),
                           !.share = SignedBy(m)]
           session == [call |-> m.call, attempt |-> m.attempt]
<1>0. /\ m.type = "request" /\ Accepts(m) /\ m \in Messages
      /\ spent' = spent \cup {m.token} /\ net' \subseteq net \cup {a}
      /\ keys' \subseteq keys \cup {session}
      /\ UNCHANGED <<step, attempt, token>>
    BY DEF Handle, MessagesOK
<1>1. a.type = "answer" /\ a.call = m.call /\ a.step = m.step /\ a.attempt = m.attempt
    BY <1>0 DEF Messages
<1> HIDE DEF a
<1>2. m.call \in OneTime => m.attempt = 1 /\ Given(m.call) \in spent'
    <2> SUFFICES ASSUME m.call \in OneTime
                 PROVE  m.attempt = 1 /\ Given(m.call) \in spent'
        OBVIOUS
    <2>1. OnceMessageOK(m) /\ m.token \notin spent
        BY <1>0 DEF Accepts
    <2>2. m.attempt \in 1..MaxAttempts /\ m.step \in 1..3
        BY <1>0 DEF Messages
    <2>3. m.step > 1 \/ m.step = 1
        BY <2>2
    <2>4. m.attempt > 1 \/ m.attempt = 1
        BY <2>2, TssAssumption
    <2> QED
        BY <1>0, <2>1, <2>3, <2>4 DEF OnceMessageOK
<1>3. ASSUME NEW x \in net', x.call \in OneTime PROVE OnceMessageOK(x)'
    <2>1. CASE x = a
        BY <1>1, <1>2, <1>3, <2>1 DEF OnceMessageOK
    <2>2. CASE x \in net
        BY <1>0, <1>3, <2>2 DEF OnceMessageOK
    <2> QED
        BY <1>0, <1>3, <2>1, <2>2
<1>4. ASSUME NEW k \in keys', k.call \in OneTime PROVE k.attempt = 1
    BY <1>0, <1>2, <1>4
<1>5. \A x \in OneTime : AttemptOK(x)'
    BY <1>0 DEF AttemptOK
<1> QED
    BY <1>3, <1>4, <1>5

LEMMA NextKeepsOnce == TssInv /\ OnceOK /\ [Next]_vars => OnceOK'
<1> SUFFICES ASSUME TssInv, OnceOK, [Next]_vars PROVE OnceOK'
    OBVIOUS
<1>1. ASSUME NEW c \in Calls, CallStep(c) PROVE OnceOK'
    <2>1. CASE Request(c)
        BY <2>1, RequestKeepsOnce
    <2>2. CASE LocalFails(c) \/ Fails(c)
        BY <2>2, RestartKeepsOnce DEF LocalFails, Fails
    <2>3. CASE \E m \in net : Continue(c, m)
        BY <2>3, ContinueKeepsOnce
    <2>4. CASE \E m \in net : Finish(c, m)
        BY <2>4 DEF Finish, OnceOK, AttemptOK, OnceMessageOK
    <2> QED
        BY <1>1, <2>1, <2>2, <2>3, <2>4 DEF CallStep
<1>2. CASE \E m \in net : Handle(m)
    BY <1>2, HandleKeepsOnce
<1>3. CASE /\ UNCHANGED <<step, attempt, token, spent, keys>>
           /\ net' \subseteq net
    BY <1>3 DEF OnceOK, AttemptOK, OnceMessageOK
<1>4. CASE UNCHANGED vars \/ \E m \in net : Refuse(m)
    BY <1>3, <1>4 DEF vars, Refuse
<1>5. ASSUME NEW c, NEW in, Begin(c, in) PROVE OnceOK'
    BY <1>3, <1>5 DEF Begin
<1> QED
    BY <1>1, <1>2, <1>4, <1>5 DEF Next

-----------------------------------------------------------------------------
\* The types of the calls, the messages and the backend's keys hold always.
THEOREM TssTypeCorrect == Spec => []TypeOK
<1>1. TssInv => TypeOK
    BY DEF TssInv
<1> QED
    BY <1>1, InvHolds, PTL

\* A key that is returned is finished, and its keystore opens to its share.
THEOREM ReturnedKeyTheorem == Spec => []ReturnedKeyIsFinished
<1>1. TssInv => ReturnedKeyIsFinished
    <2> SUFFICES ASSUME TssInv, NEW c \in Keygens, pc[c] = "done"
                 PROVE  /\ result[c].address \in keys
                        /\ result[c].address.call = c
                        /\ DecryptKeystore(result[c].keystore) = result[c].address
                        /\ Opens(result[c].keystore, input[c].password)
        BY DEF ReturnedKeyIsFinished
    <2>1. KeyOK(c)
        BY DEF TssInv, CallsOK, CallOK
    <2>2. Session(c).call = c
        BY DEF Session
    <2> QED
        BY <2>1, <2>2 DEF KeyOK
<1> QED
    BY <1>1, InvHolds, PTL

\* A call with a token that is accepted once leaves one key at most.
THEOREM OneKeyTheorem == Spec => []OneKeyPerToken
<1>1. Init => TssInv /\ OnceOK
    BY InitInv
<1>2. TssInv /\ OnceOK => OneKeyPerToken
    <2> SUFFICES ASSUME TssInv, OnceOK, NEW c \in Keygens \cap OneTime,
                        NEW j \in keys, NEW k \in keys, j.call = c, k.call = c
                 PROVE  j = k
        BY DEF OneKeyPerToken
    <2>1. j \in Keys /\ k \in Keys /\ j.attempt = 1 /\ k.attempt = 1
        BY TypeOKIsParts DEF TssInv, OnceOK, BackendOK
    <2> QED
        BY <2>1 DEF Keys
<1> QED
    BY <1>1, <1>2, NextKeepsInv, NextKeepsOnce, PTL DEF Spec

-----------------------------------------------------------------------------
(* Every call with such a token runs out of steps.                         *)

\* Rounds: what is left of the protocol, and one more for the second start.
Rounds(c) == IF attempt[c] = 1 THEN Last(c) + 2 - step[c] ELSE 1

LEMMA RoundsAreLeft ==
    ASSUME TssInv, NEW c \in Calls
    PROVE  /\ Rounds(c) \in Nat /\ Rounds(c) >= 1 /\ Last(c) \in Nat /\ step[c] \in 1..3
           /\ attempt[c] = 1 => Rounds(c) = Last(c) + 2 - step[c] /\ Rounds(c) >= 2
<1>1. step[c] \in 1..3 /\ Last(c) \in {2, 3} /\ step[c] <= Last(c)
    BY TypeOKIsParts DEF TssInv, FlowOK, CallsOK, CallOK, StepOK, Last
<1> QED
    BY <1>1 DEF Rounds

LEMMA StepsAreRounds ==
    ASSUME TssInv, NEW c \in Calls
    PROVE  /\ pc[c] \in {"done", "gaveup"} => StepsLeft(c) = 0
           /\ pc[c] = "idle" => StepsLeft(c) = 2 * Rounds(c) + 1
           /\ pc[c] = "ready" => StepsLeft(c) = 2 * Rounds(c)
           /\ pc[c] = "waiting" => StepsLeft(c) = 2 * Rounds(c) - 1
           /\ StepsLeft(c) \in Nat
<1>1. /\ pc[c] \in {"done", "gaveup"} => StepsLeft(c) = 0
      /\ pc[c] = "idle" => StepsLeft(c) = 2 * Rounds(c) + 1
      /\ pc[c] = "ready" => StepsLeft(c) = 2 * Rounds(c) + 0
      /\ pc[c] = "waiting" => StepsLeft(c) = 2 * Rounds(c) + (-1)
    BY DEF StepsLeft, Rounds
<1>2. pc[c] \in {"idle", "ready", "waiting", "done", "gaveup"}
    BY TypeOKIsParts DEF TssInv, FlowOK
<1>3. Rounds(c) \in Nat /\ Rounds(c) >= 1
    BY RoundsAreLeft
<1> QED
    BY <1>1, <1>2, <1>3

\* The second start has one round before it, the first had two at least.
LEMMA RestartSteps ==
    ASSUME TssInv, TssInv', NEW c \in Calls, AttemptOK(c), pc[c] \in {"ready", "waiting"},
           Restart(c)
    PROVE  StepsLeft(c)' \in 0..StepsLeft(c) /\ StepsLeft(c)' # StepsLeft(c)
<1>1. Rounds(c) \in Nat /\ Rounds(c) >= 1 /\ step[c] \in 1..3
    BY RoundsAreLeft
<1>2. StepsLeft(c) \in {2 * Rounds(c), 2 * Rounds(c) - 1}
    BY StepsAreRounds
<1>3. CASE step[c] = 1
    <2>1. StepsLeft(c)' = 0
        BY <1>3, TypeOKIsParts DEF Restart, StepsLeft, TssInv, FlowOK
    <2> HIDE DEF Rounds
    <2> QED
        BY <1>1, <1>2, <2>1
<1>4. CASE step[c] # 1
    <2>1. attempt[c] \in 1..MaxAttempts /\ MaxAttempts \in Nat
        BY TypeOKIsParts, TssAssumption DEF TssInv, FlowOK
    <2>2. attempt[c] = 1
        BY <1>4, <2>1 DEF AttemptOK
    <2>3. Rounds(c) >= 2
        BY <2>2, RoundsAreLeft
    <2>4. pc'[c] = "ready" /\ attempt'[c] = 2
        BY <1>4, <2>2, TypeOKIsParts DEF Restart, TssInv, FlowOK
    <2>5. Rounds(c)' = 1
        BY <2>4 DEF Rounds
    <2>6. StepsLeft(c)' = 2 * Rounds(c)' + 0
        BY <2>4 DEF StepsLeft, Rounds
    <2>7. StepsLeft(c)' = 2
        BY <2>5, <2>6
    <2> QED
        BY <1>1, <1>2, <2>3, <2>7
<1> QED
    BY <1>3, <1>4

LEMMA CallSteps ==
    ASSUME TssInv, OnceOK, TssInv', NEW c \in OneTime, CallStep(c)
    PROVE  StepsLeft(c)' \in 0..StepsLeft(c) /\ StepsLeft(c)' # StepsLeft(c)
<1> USE TypeOKIsParts
<1>0. c \in Calls /\ AttemptOK(c)
    BY TssAssumption DEF OnceOK
<1>1. Rounds(c) \in Nat /\ Rounds(c) >= 1
    BY <1>0, RoundsAreLeft
<1>2. CASE Request(c)
    <2>1. pc[c] = "ready" /\ pc'[c] = "waiting" /\ Rounds(c)' = Rounds(c)
        BY <1>0, <1>2 DEF Request, TssInv, FlowOK, Rounds, Last
    <2>2. StepsLeft(c) = 2 * Rounds(c)
        BY <1>0, <2>1, StepsAreRounds
    <2>3. StepsLeft(c)' = 2 * Rounds(c)' + (-1)
        BY <2>1 DEF StepsLeft, Rounds
    <2> HIDE DEF Rounds
    <2> QED
        BY <1>1, <2>1, <2>2, <2>3
<1>3. CASE LocalFails(c) \/ Fails(c)
    BY <1>0, <1>3, RestartSteps DEF LocalFails, Fails
<1>4. CASE \E m \in net : Continue(c, m)
    <2>1. PICK m \in net : Continue(c, m)
        BY <1>4
    <2>2. IsAnswer(m, c) /\ pc[c] = "waiting"
        BY <2>1 DEF Continue
    <2>3. attempt[c] = 1
        BY <2>2 DEF OnceOK, OnceMessageOK, IsAnswer
    <2>4. pc'[c] = "ready" /\ attempt'[c] = 1 /\ step'[c] = step[c] + 1
        BY <1>0, <2>1, <2>3 DEF Continue, TssInv, FlowOK
    <2>5. Rounds(c) = Last(c) + 2 - step[c] /\ Last(c) \in Nat /\ step[c] \in 1..3
        BY <1>0, <2>3, RoundsAreLeft
    <2>6. Rounds(c)' = Last(c) + 2 - (step[c] + 1)
        BY <2>4 DEF Rounds, Last
    <2>7. Rounds(c)' = Rounds(c) - 1
        BY <2>5, <2>6
    <2>8. StepsLeft(c)' = 2 * Rounds(c)' + 0
        BY <2>4 DEF StepsLeft, Rounds
    <2>9. StepsLeft(c) = 2 * Rounds(c) - 1 /\ Rounds(c) >= 2
        BY <1>0, <2>2, <2>3, StepsAreRounds, RoundsAreLeft
    <2> HIDE DEF Rounds
    <2> QED
        BY <1>1, <2>7, <2>8, <2>9
<1>5. CASE \E m \in net : Finish(c, m)
    <2>1. pc[c] = "waiting" /\ pc'[c] = "done"
        BY <1>0, <1>5 DEF Finish, TssInv, FlowOK
    <2>2. StepsLeft(c)' = 0 /\ StepsLeft(c) = 2 * Rounds(c) - 1
        BY <1>0, <2>1, StepsAreRounds DEF StepsLeft
    <2> HIDE DEF Rounds
    <2> QED
        BY <1>1, <2>2
<1> QED
    BY <1>2, <1>3, <1>4, <1>5 DEF CallStep

\* What is no step of its own leaves a call where it is, or begins it.
LEMMA QuietSteps ==
    ASSUME TssInv, TssInv', NEW c \in Calls, step'[c] = step[c], attempt'[c] = attempt[c],
           pc'[c] = pc[c] \/ (pc[c] = "idle" /\ pc'[c] = "ready")
    PROVE  StepsLeft(c)' \in 0..StepsLeft(c)
<1>1. StepsLeft(c) \in Nat
    BY StepsAreRounds
<1>2. CASE pc'[c] = pc[c]
    <2>1. StepsLeft(c)' = StepsLeft(c)
        BY <1>2 DEF StepsLeft, Last
    <2> QED
        BY <1>1, <2>1
<1>3. CASE pc[c] = "idle" /\ pc'[c] = "ready"
    <2>1. Rounds(c)' = Rounds(c)
        BY DEF Rounds, Last
    <2>2. StepsLeft(c)' = 2 * Rounds(c)' + 0
        BY <1>3 DEF StepsLeft, Rounds
    <2>3. StepsLeft(c) = 2 * Rounds(c) + 1 /\ Rounds(c) \in Nat
        BY <1>3, StepsAreRounds, RoundsAreLeft
    <2> HIDE DEF Rounds
    <2> QED
        BY <2>1, <2>2, <2>3
<1> QED
    BY <1>2, <1>3

LEMMA OthersQuiet ==
    ASSUME TssInv, NEW c \in Calls, NEW d \in Calls \ {c}, CallStep(d)
    PROVE  pc'[c] = pc[c] /\ step'[c] = step[c] /\ attempt'[c] = attempt[c]
<1> USE TypeOKIsParts DEF TssInv, FlowOK
<1>1. CASE Request(d)
    BY <1>1 DEF Request
<1>2. CASE LocalFails(d) \/ Fails(d)
    BY <1>2 DEF LocalFails, Fails, Restart
<1>3. CASE \E m \in net : Continue(d, m) \/ Finish(d, m)
    BY <1>3 DEF Continue, Finish
<1> QED
    BY <1>1, <1>2, <1>3 DEF CallStep

\* A call with a token that is accepted once is over after nine steps at most, three
\* requests with their answers, a second start with its own, though its code starts
\* again without limit; the backend, however late it is, gives it none back.
THEOREM StepsTheorem == Spec => StepsRunOut
<1> DEFINE Shrinks ==
        \A c \in OneTime :
           /\ StepsLeft(c)' \in 0..StepsLeft(c)
           /\ CallStep(c) => StepsLeft(c)' # StepsLeft(c)
<1>1. ASSUME TssInv, OnceOK, [Next]_vars PROVE Shrinks
    <2>0. TssInv'
        BY <1>1, NextKeepsInv
    <2> SUFFICES ASSUME NEW c \in OneTime
                 PROVE  /\ StepsLeft(c)' \in 0..StepsLeft(c)
                        /\ CallStep(c) => StepsLeft(c)' # StepsLeft(c)
        OBVIOUS
    <2>1. c \in Calls
        BY TssAssumption
    <2>2. CASE CallStep(c)
        BY <1>1, <2>0, <2>2, CallSteps
    <2>3. CASE ~CallStep(c)
        <3>1. CASE \E d \in Calls : CallStep(d)
            BY <1>1, <2>0, <2>1, <2>3, <3>1, OthersQuiet, QuietSteps
        <3>2. CASE UNCHANGED vars \/ \E m \in net : Handle(m) \/ Refuse(m)
            <4>1. UNCHANGED <<pc, step, attempt>>
                <5>1. CASE UNCHANGED vars
                    BY <5>1 DEF vars
                <5>2. CASE \E m \in net : Handle(m) \/ Refuse(m)
                    <6>1. PICK m \in net : Handle(m) \/ Refuse(m)
                        BY <5>2
                    <6> QED
                        BY <6>1 DEF Handle, Refuse
                <5> QED
                    BY <3>2, <5>1, <5>2
            <4> QED
                BY <1>1, <2>0, <2>1, <2>3, <4>1, QuietSteps
        <3>3. CASE \E d \in Calls : \E in : Begin(d, in)
            <4>1. /\ step'[c] = step[c] /\ attempt'[c] = attempt[c]
                  /\ pc'[c] = pc[c] \/ (pc[c] = "idle" /\ pc'[c] = "ready")
                BY <1>1, <2>1, <3>3, TypeOKIsParts DEF Begin, TssInv, FlowOK
            <4> QED
                BY <1>1, <2>0, <2>1, <2>3, <4>1, QuietSteps
        <3> QED
            BY <1>1, <3>1, <3>2, <3>3 DEF Next
    <2> QED
        BY <2>2, <2>3
<1>2. TssInv /\ OnceOK /\ [Next]_vars => [Shrinks]_vars
    BY <1>1
<1>3. Init => TssInv /\ OnceOK
    BY InitInv
<1> QED
    BY <1>2, <1>3, NextKeepsInv, NextKeepsOnce, PTL DEF Spec, StepsRunOut

-----------------------------------------------------------------------------
(* The protocols implement KeyPromise.                                     *)

\* The mapping, by name.
Asked == [c \in Signs |-> AskedOf(c)]
Told == [c \in Calls |-> IF pc[c] = "done" THEN KeyOf(c) ELSE None]
HasGiven == {c \in Calls : pc[c] = "done"}
GaveUp == {c \in Calls : pc[c] = "gaveup"}

\* One call ends or goes on, and the keys and the other calls stay as they are.
LEMMA OneCall ==
    ASSUME TssInv, NEW c \in Calls,
           keys' = keys, input' = input,
           \A d \in Calls \ {c} : pc'[d] = pc[d] /\ result'[d] = result[d],
           pc[c] \notin {"idle", "done", "gaveup"}
    PROVE  /\ Asked' = Asked \/ pc'[c] = "idle"
           /\ pc'[c] \in {"ready", "waiting"} =>
                  Told' = Told /\ HasGiven' = HasGiven /\ GaveUp' = GaveUp
           /\ pc'[c] = "gaveup" =>
                  Told' = Told /\ HasGiven' = HasGiven /\ GaveUp' = GaveUp \cup {c}
           /\ pc'[c] = "done" =>
                  /\ Told' = [Told EXCEPT ![c] = KeyOf(c)']
                  /\ HasGiven' = HasGiven \cup {c} /\ GaveUp' = GaveUp
<1> USE DEF Asked, AskedOf, Told, HasGiven, GaveUp, KeyOf
<1>1. Asked' = Asked \/ pc'[c] = "idle"
    OBVIOUS
<1>2. \A d \in Calls \ {c} : /\ KeyOf(d)' = KeyOf(d) /\ Told'[d] = Told[d]
                             /\ d \in HasGiven' <=> d \in HasGiven
                             /\ d \in GaveUp' <=> d \in GaveUp
    OBVIOUS
<1>3. c \notin HasGiven \cup GaveUp /\ Told[c] = None
    OBVIOUS
<1>4. ASSUME pc'[c] \in {"ready", "waiting"}
      PROVE  Told' = Told /\ HasGiven' = HasGiven /\ GaveUp' = GaveUp
    BY <1>4
<1>5. ASSUME pc'[c] = "gaveup"
      PROVE  Told' = Told /\ HasGiven' = HasGiven /\ GaveUp' = GaveUp \cup {c}
    BY <1>5
<1>6. ASSUME pc'[c] = "done"
      PROVE  /\ Told' = [Told EXCEPT ![c] = KeyOf(c)']
             /\ HasGiven' = HasGiven \cup {c} /\ GaveUp' = GaveUp
    BY <1>6
<1> QED
    BY <1>1, <1>4, <1>5, <1>6

LEMMA InitKeeps == Init => Promise!Init
BY DEF Init, Promise!Init, AskedOf

LEMMA CallKeeps ==
    ASSUME TssInv, TssInv', NEW c \in Calls, CallStep(c)
    PROVE  [Promise!Next]_(Promise!vars)
<1> USE TypeOKIsParts
<1>0. keys' = keys /\ input' = input
    BY DEF CallStep, Request, LocalFails, Fails, Continue, Finish
<1>1. CASE \E m \in net : Finish(c, m)
    <2>1. /\ pc[c] = "waiting" /\ pc'[c] = "done"
          /\ \A d \in Calls \ {c} : pc'[d] = pc[d] /\ result'[d] = result[d]
        BY <1>1 DEF Finish, TssInv, FlowOK, ArgsOK
    <2>2. CallOK(c)' /\ CallOK(c)
        BY DEF TssInv, CallsOK
    <2>3. /\ Asked' = Asked /\ Told' = [Told EXCEPT ![c] = KeyOf(c)']
          /\ HasGiven' = HasGiven \cup {c} /\ GaveUp' = GaveUp
        BY <1>0, <2>1, OneCall
    <2>4. c \notin HasGiven \cup GaveUp
        BY <2>1 DEF HasGiven, GaveUp
    <2>5. CASE c \in Keygens
        <3>1. KeyOf(c)' = Session(c)' /\ Session(c)' \in keys' /\ Session(c)'.call = c
            BY <2>1, <2>2, <2>5 DEF CallOK, KeyOK, KeyOf, Session
        <3>2. Session(c)' \in Keys
            BY <1>0, <3>1 DEF TssInv, BackendOK
        <3> QED
            BY <1>0, <2>3, <2>4, <2>5, <3>1, <3>2
               DEF Promise!Next, Promise!GiveKey, Promise!Give, Promise!Ended, Asked, Told, HasGiven, GaveUp
    <2>6. CASE c \in Signs
        <3>1. KeyOf(c)' = Joint(c)
            BY <1>0, <2>1, <2>2, <2>6, TssAssumption DEF CallOK, SignatureOK, Joint, KeyOf
        <3>2. /\ Asked[c].address = input[c].address
              /\ Asked[c].share = DecryptKeystore(input[c].keystore)
            BY <2>1, <2>6 DEF Asked, AskedOf
        <3>3. Joint(c) = IF Asked[c].share = Asked[c].address THEN Asked[c].address ELSE None
            BY <3>2 DEF Joint
        <3>5. Asked[c].address # None
            BY <2>1, <2>2, <2>6, <3>2, NoneAssumption DEF CallOK, InputOK, TssInv, BackendOK
        <3>4. Promise!GiveSignature(c)
            BY <1>0, <2>3, <2>4, <3>1, <3>3, <3>5
               DEF Promise!GiveSignature, Promise!Give, Promise!Ended, Asked, Told, HasGiven,
                   GaveUp
        <3> QED
            BY <2>6, <3>4 DEF Promise!Next
    <2> QED
        BY <2>5, <2>6
<1>2. CASE ~ \E m \in net : Finish(c, m)
    <2>1. /\ pc[c] \in {"ready", "waiting"} /\ pc'[c] \in {"ready", "waiting", "gaveup"}
          /\ result' = result
          /\ \A d \in Calls \ {c} : pc'[d] = pc[d]
        BY <1>2 DEF CallStep, Request, LocalFails, Fails, Continue, Restart, TssInv, FlowOK
    <2>2. Asked' = Asked /\ Told' = Told
        BY <1>0, <2>1, OneCall
    <2>3. CASE pc'[c] \in {"ready", "waiting"}
        <3>1. HasGiven' = HasGiven /\ GaveUp' = GaveUp
            BY <1>0, <2>1, <2>3, OneCall
        <3> QED
            BY <1>0, <2>2, <3>1 DEF Promise!vars, Asked, Told, HasGiven, GaveUp
    <2>4. CASE pc'[c] = "gaveup"
        <3>1. /\ HasGiven' = HasGiven /\ GaveUp' = GaveUp \cup {c}
              /\ c \notin HasGiven \cup GaveUp
            BY <1>0, <2>1, <2>4, OneCall DEF HasGiven, GaveUp
        <3> QED
            BY <1>0, <2>2, <3>1
               DEF Promise!Next, Promise!GiveUp, Promise!Ended, Asked, Told, HasGiven, GaveUp
    <2> QED
        BY <2>1, <2>3, <2>4
<1> QED
    BY <1>1, <1>2

\* What the two parts of a returned key name is a key that was given away.
LEMMA GivenAwayIsKey ==
    ASSUME TssInv, NEW k \in Returned
    PROVE  /\ k.address \in Keys /\ DecryptKeystore(k.keystore) = k.address
           /\ Promise!GivenAway(k.address)
<1>1. PICK d \in Keygens : pc[d] = "done" /\ k = result[d]
    BY DEF Returned
<1>2. KeyOK(d) /\ keys \subseteq Keys
    BY TypeOKIsParts DEF TssInv, CallsOK, CallOK, BackendOK
<1>3. k.address \in Keys /\ DecryptKeystore(k.keystore) = k.address
    BY <1>1, <1>2 DEF KeyOK
<1>4. d \in HasGiven /\ Told[d] = k.address
    BY <1>1 DEF HasGiven, Told, KeyOf
<1> QED
    BY <1>3, <1>4 DEF Promise!GivenAway, Told, HasGiven

LEMMA BeginKeeps ==
    ASSUME TssInv, NEW c \in Calls, NEW in, Begin(c, in),
           c \in Signs => \E k, l \in Returned : in.address = k.address /\ in.keystore = l.keystore
    PROVE  [Promise!Next]_(Promise!vars)
<1> USE TypeOKIsParts
<1>1. /\ pc[c] = "idle" /\ pc' = [pc EXCEPT ![c] = "ready"]
      /\ input' = [input EXCEPT ![c] = in] /\ keys' = keys /\ result' = result
    BY DEF Begin
<1>2. Told' = Told /\ HasGiven' = HasGiven /\ GaveUp' = GaveUp
    BY <1>1 DEF Told, HasGiven, GaveUp, KeyOf, TssInv, FlowOK
<1>3. CASE c \in Keygens
    <2>1. Asked' = Asked
        BY <1>1, <1>3, TssAssumption DEF Asked, AskedOf, TssInv, FlowOK, ArgsOK
    <2> QED
        BY <1>1, <1>2, <2>1 DEF Promise!vars, Asked, Told, HasGiven, GaveUp
<1>4. CASE c \in Signs
    <2>1. PICK k \in Returned, l \in Returned :
             in.address = k.address /\ in.keystore = l.keystore
        BY <1>4
    <2> DEFINE brought == DecryptKeystore(l.keystore)
    <2>2. in.address \in Keys /\ brought \in Keys
        BY <2>1, GivenAwayIsKey
    <2>3. Promise!GivenAway(in.address) /\ Promise!GivenAway(brought)
        BY <2>1, GivenAwayIsKey
    <2>4. /\ Asked' = [Asked EXCEPT ![c] = [address |-> in.address, share |-> brought]]
          /\ Asked[c].address = None /\ c \notin HasGiven \cup GaveUp
        BY <1>1, <1>4, <2>1 DEF Asked, AskedOf, HasGiven, GaveUp, TssInv, FlowOK, ArgsOK
    <2> HIDE DEF brought
    <2>5. Promise!Ask(c, in.address, brought)
        BY <1>1, <1>2, <2>3, <2>4
           DEF Promise!Ask, Promise!Ended, Asked, Told, HasGiven, GaveUp
    <2> QED
        BY <1>4, <2>2, <2>5 DEF Promise!Next
<1> QED
    BY <1>3, <1>4

LEMMA HandleKeeps ==
    ASSUME TssInv, TssInv', OnceOK', NEW m \in net, Handle(m)
    PROVE  [Promise!Next]_(Promise!vars)
<1> USE TypeOKIsParts
<1> DEFINE k == [call |-> m.call, attempt |-> m.attempt]
<1>1. Asked' = Asked /\ Told' = Told /\ HasGiven' = HasGiven /\ GaveUp' = GaveUp
    BY DEF Handle, Asked, AskedOf, Told, HasGiven, GaveUp, KeyOf
<1>2. CASE keys' = keys
    BY <1>1, <1>2 DEF Promise!vars, Asked, Told, HasGiven, GaveUp
<1>3. CASE keys' # keys
    <2>1. keys' = keys \cup {k} /\ k \notin keys
        BY <1>3 DEF Handle
    <2>2. k \in Keys /\ k.call = m.call /\ k.attempt = m.attempt
        BY <2>1 DEF TssInv, TypeOK
    <2> HIDE DEF k
    <2>3. ASSUME k.call \in OneTime, NEW j \in keys, j.call = k.call PROVE FALSE
        <3>1. j \in Keys /\ j.attempt = 1 /\ k.attempt = 1
            BY <2>1, <2>3 DEF TssInv, BackendOK, OnceOK
        <3>2. j = k
            BY <2>2, <2>3, <3>1 DEF Keys
        <3> QED
            BY <2>1, <3>2
    <2> QED
        BY <1>1, <2>1, <2>2, <2>3
           DEF Promise!Next, Promise!Make, Asked, Told, HasGiven, GaveUp
<1> QED
    BY <1>2, <1>3

LEMMA StepKeeps ==
    TssInv /\ OnceOK /\ [Next]_vars => [Promise!Next]_(Promise!vars)
<1> SUFFICES ASSUME TssInv, OnceOK, [Next]_vars PROVE [Promise!Next]_(Promise!vars)
    OBVIOUS
<1>0. TssInv' /\ OnceOK'
    BY NextKeepsInv, NextKeepsOnce
<1>1. CASE \E c \in Calls : CallStep(c)
    BY <1>0, <1>1, CallKeeps
<1>2. CASE \E m \in net : Handle(m)
    BY <1>0, <1>2, HandleKeeps
<1>3. CASE UNCHANGED vars \/ \E m \in net : Refuse(m)
    <2>1. pc' = pc /\ input' = input /\ result' = result /\ keys' = keys
        <3>1. CASE UNCHANGED vars
            BY <3>1 DEF vars
        <3>2. CASE \E m \in net : Refuse(m)
            BY <3>2 DEF Refuse
        <3> QED
            BY <1>3, <3>1, <3>2
    <2>2. Asked' = Asked /\ Told' = Told /\ HasGiven' = HasGiven /\ GaveUp' = GaveUp
        BY <2>1 DEF Asked, AskedOf, Told, HasGiven, GaveUp, KeyOf
    <2> QED
        BY <2>1, <2>2 DEF Promise!vars, Asked, Told, HasGiven, GaveUp
<1>4. ASSUME NEW c \in Keygens, NEW p \in Passwords,
             Begin(c, [password |-> p, address |-> None, keystore |-> None])
      PROVE  [Promise!Next]_(Promise!vars)
    BY <1>4, TssAssumption, BeginKeeps
<1>5. ASSUME NEW c \in Signs, NEW p \in Passwords, NEW k \in Returned, NEW l \in Returned,
             Begin(c, [password |-> p, address |-> k.address, keystore |-> l.keystore])
      PROVE  [Promise!Next]_(Promise!vars)
    BY <1>5, BeginKeeps
<1> QED
    BY <1>1, <1>2, <1>3, <1>4, <1>5 DEF Next

\* The protocols implement KeyPromise: whatever is lost or late and however often a call
\* starts again, it ends once, with a finished key of its own or a signature by the key
\* that was asked for, and a token that is accepted once makes one key.
THEOREM KeyRefinement == Spec => KeepsKeyPromise
<1>1. Init => TssInv /\ OnceOK
    BY InitInv
<1> QED
    BY <1>1, InitKeeps, StepKeeps, NextKeepsInv, NextKeepsOnce, PTL
       DEF Spec, KeepsKeyPromise, Promise!Spec
=============================================================================
