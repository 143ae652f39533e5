--------------------------- MODULE WalletPipeline ---------------------------
(***************************************************************************)
(* The send pipeline of the wallet provider: what happens between a call   *)
(* of UnipassWalletProvider.transaction, signMessage or generatePermit and *)
(* the answer its caller gets (packages/provider/src/operate.ts, index.ts, *)
(* utils/unipass.ts, utils/storages.ts and packages/wallet/src/wallet.ts). *)
(*                                                                         *)
(* One browser page runs several calls ("operations") at once.  Code runs  *)
(* between two awaits without interruption, so an action below is the code *)
(* between two awaits; everything the page shares (the account logged in,  *)
(* the one WalletsCreator, the sign token in localStorage) may change while *)
(* an operation is suspended.  The backend, the relayer and the chain are  *)
(* outside src/: they are modelled from what the code sends and expects.   *)
(***************************************************************************)
EXTENDS Integers, Sequences

CONSTANTS
    Accounts,    \* the wallets whose users may log in on this page
    NoAccount,   \* nobody is logged in
    Ops,         \* the provider calls made on this page
    Kind,        \* Kind[o]: which provider method o calls
    ChainOf,     \* ChainOf[o]: its `chain` argument, "omitted" when undefined
    Switching,   \* whether setAccountInfo is called while operations run
    Viewing,     \* whether wallet(), verifySignMessage, ... are called
    Tokens,      \* the up-sign-tokens the login page may store
    Disposable,  \* those whose JWT says isDisposable
    Missing,     \* __oauth_info is stored and holds no up_sign_token
    LoggedOut,   \* __oauth_info is not stored
    MaxPolls,    \* `timeout` of wait(): how often the receipt is asked for
    MaxForeign   \* bound: the nonce up to which another device executes bundles

ASSUME ConstantsAssumption ==
    /\ NoAccount \notin Accounts
    /\ Kind \in [Ops -> {"transaction", "message", "permit"}]
    /\ ChainOf \in [Ops -> {"polygon", "other", "omitted"}]
    /\ Switching \in BOOLEAN /\ Viewing \in BOOLEAN
    /\ Disposable \subseteq Tokens
    /\ Missing \notin Tokens /\ LoggedOut \notin Tokens /\ Missing # LoggedOut
    /\ MaxPolls \in Nat /\ MaxForeign \in Nat

VARIABLES
    account,   \* what getUser() finds: the account cached by setAccountInfo or in the DB
    wallet,    \* WalletsCreator.instance: address and keyset of all its wallets
    token,     \* up_sign_token in localStorage
    pc,        \* where each operation is suspended
    user,      \* the address its first getUser() returned
    target,    \* where its main calls are addressed
    plan,      \* the calls it executes: deployTx, syncAccountExecute, callExecute
    nonce,     \* the last nonce it read or signed
    audit,     \* the content of its last audit request, with the token it carried
    status,    \* the answer to that request
    signed,    \* the calls signed so far
    polls,     \* the receipts it asked for
    result,    \* what its caller got
    approvals, \* backend: the contents it approved
    sigs,      \* the signatures the master key has made
    spent,     \* the tokens that audits were answered for
    sent,      \* relayer: whose calls it has accepted
    mined,     \* chain: what became of them
    chain      \* chain: nonce, deployment and keyset of every wallet

page == <<account, wallet, token>>
calls == <<user, target, plan, nonce, audit, status, signed, polls>>
world == <<approvals, sigs, spent, sent, mined, chain>>
vars == <<page, pc, calls, result, world>>

Chains == {"polygon", "other"}
If(b, kind) == IF b THEN <<kind>> ELSE <<>>

\* Mutant: the user's call is put before the synchronisation.
BundleCallFirst(deploy, sync, call) == If(deploy, "deploy") \o If(call, "call") \o If(sync, "sync")

\* The order in which operateToRawExecuteCall pushes the parts it was given.
Bundle(deploy, sync, call) == If(deploy, "deploy") \o If(sync, "sync") \o If(call, "call")

Plans == {Bundle(deploy, sync, call) : deploy, sync, call \in BOOLEAN}
SomeAccount == Accounts \cup {NoAccount}
Statuses == {"Approved", "Rejected", "Confirming"}
Signed == [kind : {"deploy", "sync", "call"}, addr : SomeAccount,
           nonce : Nat, owner : SomeAccount]
Stages == {"idle", "user", "plan", "raw", "send", "network", "nonce", "next", "audit",
           "audited", "sign", "posted", "wait", "done", "failed"}
Results == {"none", "receipt", "signature", "refused", "error", "unknown", "timeout"}

\* `chain ?? "polygon"` of transaction() and getRawExecuteCall().
Chain(o) == IF ChainOf[o] = "omitted" THEN "polygon" ELSE ChainOf[o]

Init ==
    /\ account \in Accounts
    /\ wallet = [address |-> NoAccount, owner |-> NoAccount, signer |-> FALSE]
    /\ token \in Tokens \cup {Missing, LoggedOut}
    /\ pc = [o \in Ops |-> "idle"]
    /\ user = [o \in Ops |-> NoAccount]
    /\ target = [o \in Ops |-> NoAccount]
    /\ plan = [o \in Ops |-> <<>>]
    /\ nonce = [o \in Ops |-> 0]
    /\ audit = [o \in Ops |-> [addr |-> NoAccount, nonce |-> 0, token |-> Missing]]
    /\ status = [o \in Ops |-> "Rejected"]
    /\ signed = [o \in Ops |-> <<>>]
    /\ polls = [o \in Ops |-> 0]
    /\ result = [o \in Ops |-> "none"]
    /\ approvals = {} /\ sigs = {} /\ spent = {}
    /\ sent = {}
    /\ mined = [o \in Ops |-> "no"]
    /\ \E deployed, synced \in BOOLEAN :
          chain = [a \in Accounts |-> [c \in Chains |->
                     IF c = "polygon" \/ deployed
                     THEN [nonce |-> 1, deployed |-> TRUE,
                           synced |-> c = "polygon" \/ synced]
                     ELSE [nonce |-> 0, deployed |-> FALSE, synced |-> synced]]]

-----------------------------------------------------------------------------
(* Steps shared by the actions.                                            *)

Goto(o, stage) == pc' = [pc EXCEPT ![o] = stage] /\ UNCHANGED result

End(o, stage, answer) ==
    /\ pc' = [pc EXCEPT ![o] = stage]
    /\ result' = [result EXCEPT ![o] = answer]

\* An await whose promise rejects, or a throw: the caller's promise rejects.
Fail(o, answer) == End(o, "failed", answer)

\* WalletsCreator.getInstance(keyset, address): there is one creator, and every
\* call of getInstance gives all its wallets this address and this keyset.
GetInstance(keysetOwner, canSign, address) ==
    wallet' = [address |-> address, owner |-> keysetOwner, signer |-> canSign]

\* api.tssAudit: the token is read when the request is made.
AuditRequest(o, addr, n) ==
    audit' = [audit EXCEPT ![o] = [addr |-> addr, nonce |-> n, token |-> token]]

\* Approvals are for a content: who, with which nonce, to do what (named by o).
Content(o, addr, n) == [op |-> o, addr |-> addr, nonce |-> n]

Single(o) == plan[o] = <<"call">>

-----------------------------------------------------------------------------
(* The operations.                                                         *)

\* The provider method is called; getUser() throws 402007 when nobody is logged in.
Begin(o) ==
    /\ pc[o] = "idle"
    /\ IF account = NoAccount
         THEN Fail(o, "error") /\ UNCHANGED user
         ELSE Goto(o, "user") /\ user' = [user EXCEPT ![o] = account]
    /\ UNCHANGED <<page, target, plan, nonce, audit, status, signed, polls, world>>

\* The caller passes the keyset of the account it was logged in with, with a
\* signFunc.  Messages and permits are sent to the audit at once; a permit's
\* digest takes wallet.address now.
Prepare(o) ==
    /\ pc[o] = "user"
    /\ GetInstance(user[o], TRUE, user[o])
    /\ IF Kind[o] = "transaction"
         THEN Goto(o, "plan") /\ UNCHANGED audit
         ELSE Goto(o, "audit") /\ AuditRequest(o, user[o], 0)
    /\ UNCHANGED <<account, token, user, target, plan, nonce, status, signed, polls, world>>

\* innerGenerateTransferTx: on other chains the backend says whether the
\* wallet must be deployed and its keyset synchronised first.  wantsCall: the
\* caller gave a tx or a fee.  The nonce read here is never used for signing.
MakePlan(o) ==
    /\ pc[o] = "plan"
    /\ \E wantsCall \in BOOLEAN :
          LET c == chain[user[o]][Chain(o)]
              elsewhere == Chain(o) # "polygon"
          IN  plan' = [plan EXCEPT ![o] = Bundle(elsewhere /\ ~c.deployed,
                                                 elsewhere /\ ~c.synced, wantsCall)]
    /\ Goto(o, "raw")
    /\ UNCHANGED <<page, user, target, nonce, audit, status, signed, polls, world>>

\* api.syncTransaction is only asked on chains other than polygon.
PlanFails(o) ==
    /\ pc[o] = "plan" /\ Chain(o) # "polygon"
    /\ Fail(o, "error")
    /\ UNCHANGED <<page, calls, world>>

\* operateToRawExecuteCall: the main calls of a bundle go to the address of
\* the user logged in now.
MakeRawCall(o) ==
    /\ pc[o] = "raw"
    /\ IF account = NoAccount \/ plan[o] = <<>>
         THEN Fail(o, "error") /\ UNCHANGED target
         ELSE Goto(o, "send") /\ target' = [target EXCEPT ![o] = account]
    /\ UNCHANGED <<page, user, plan, nonce, audit, status, signed, polls, world>>

\* sendTransaction of operate.ts: a third getUser() and a second getInstance;
\* `instance[chainType]` is undefined when transaction() was given no chain.
Send(o) ==
    /\ pc[o] = "send"
    /\ IF account = NoAccount
         THEN Fail(o, "error") /\ UNCHANGED wallet
         ELSE /\ GetInstance(user[o], TRUE, account)
              /\ IF ChainOf[o] = "omitted" THEN Fail(o, "error") ELSE Goto(o, "network")
    /\ UNCHANGED <<account, token, calls, world>>

\* signTransactions: getNetwork() answers, and the nonce of the wallet's
\* current address is asked for (held in audit until the answer comes).
Network(o) ==
    /\ pc[o] = "network"
    /\ Goto(o, "nonce")
    /\ AuditRequest(o, wallet.address, 0)
    /\ UNCHANGED <<page, user, target, plan, nonce, status, signed, polls, world>>

NetworkFails(o) ==
    /\ pc[o] = "network"
    /\ Fail(o, "error")
    /\ UNCHANGED <<page, calls, world>>

\* What RpcRelayer.getNonce can answer: it turns every failure into 0.
NonceAnswers(addr, c) == {chain[addr][c].nonce, 0}

\* `nonce === constants.Zero` compares identities: the relayer makes a new
\* BigNumber for every answer, so signTransactions goes on with nonce 0 too.
ReadNonce(o) ==
    /\ pc[o] = "nonce"
    /\ \E n \in NonceAnswers(audit[o].addr, Chain(o)) : nonce' = [nonce EXCEPT ![o] = n]
    /\ Goto(o, "next")
    /\ UNCHANGED <<page, user, target, plan, audit, status, signed, polls, world>>

NextKind(o) == plan[o][Len(signed[o]) + 1]

\* Mutant: the signed call takes the place of those before it.
SetSigned(o, kind, addr, n, owner) ==
    signed' = [signed EXCEPT ![o] = <<[kind |-> kind, addr |-> addr,
                                       nonce |-> n, owner |-> owner]>>]

AddSigned(o, kind, addr, n, owner) ==
    signed' = [signed EXCEPT ![o] = Append(@, [kind |-> kind, addr |-> addr,
                                              nonce |-> n, owner |-> owner])]

MoreToSign(o) == Len(signed[o]) < Len(plan[o])

\* signRawBundledExecuteCall: a plain transaction is taken over as it is.
TakeDeploy(o) ==
    /\ pc[o] = "next" /\ MoreToSign(o)
    /\ NextKind(o) = "deploy"
    /\ AddSigned(o, "deploy", user[o], 0, NoAccount)
    /\ UNCHANGED <<page, pc, result, user, target, plan, nonce, audit, status, polls, world>>

\* Mutant: the nonce returned with a signed call is not carried to the next.
SameNonce(o) == nonce[o]

\* The nonce of the next main call.
NextNonce(o) == nonce[o] + 1

\* A synchronisation has no signers: the default preSignFunc resolves to true
\* and the signature is "0x".
SignSync(o) ==
    /\ pc[o] = "next" /\ MoreToSign(o)
    /\ NextKind(o) = "sync"
    /\ AddSigned(o, "sync", wallet.address, NextNonce(o), NoAccount)
    /\ nonce' = [nonce EXCEPT ![o] = NextNonce(o)]
    /\ UNCHANGED <<page, pc, result, user, target, plan, audit, status, polls, world>>

\* preSignFunc of operate.ts: the audit of the call, its nonce and its address.
RequestAudit(o) ==
    /\ pc[o] = "next" /\ MoreToSign(o)
    /\ NextKind(o) = "call"
    /\ AuditRequest(o, wallet.address, NextNonce(o))
    /\ Goto(o, "audit")
    /\ UNCHANGED <<page, user, target, plan, nonce, status, signed, polls, world>>

\* The backend approves the content, refuses it, or wants a confirmation.
BackendAudits(o) ==
    /\ pc[o] = "audit"
    /\ \E s \in Statuses :
          /\ status' = [status EXCEPT ![o] = s]
          /\ approvals' = IF s = "Approved"
                            THEN approvals \cup {Content(o, audit[o].addr, audit[o].nonce)}
                            ELSE approvals
    /\ Goto(o, "audited")
    /\ UNCHANGED <<page, user, target, plan, nonce, audit, signed, polls,
                   sigs, spent, sent, mined, chain>>

\* The request or its answer is lost, or the answer has an error code.
AuditFails(o) ==
    /\ pc[o] \in {"audit", "audited"}
    /\ Fail(o, "error")
    /\ UNCHANGED <<page, calls, world>>

\* Mutant: the token stays in localStorage.
KeepUpSignToken == UNCHANGED token

\* clearUpSignToken: forgets a disposable token; jwt_decode("") throws.
ClearUpSignToken == token' = IF token \in Disposable THEN Missing ELSE token

\* Mutant: only a rejection stops the operation.
MaySignUnlessRejected(o) == status[o] # "Rejected"

\* preSignFunc, genSignMessage and genSignTypedDataMessage ask for an approval.
IsApproved(o) == status[o] = "Approved"

\* innerGeneratePermit asks only whether the answer is one of the two others.
IsNotStopped(o) == status[o] \notin {"Confirming", "Rejected"}

\* What the operation does with the answer.
MaySign(o) == IF Kind[o] = "permit" THEN IsNotStopped(o) ELSE IsApproved(o)

AuditAnswered(o) ==
    /\ pc[o] = "audited"
    /\ ClearUpSignToken
    /\ spent' = spent \cup {audit[o].token}
    /\ IF token = Missing THEN Fail(o, "error")
       ELSE IF MaySign(o) THEN Goto(o, "sign")
       ELSE Fail(o, "refused")
    /\ UNCHANGED <<account, wallet, calls, approvals, sigs, sent, mined, chain>>

\* What is signed: a transaction's digest is computed after the audit, from the
\* wallet's address at that moment; the digest of a message is the audited one.
DigestAddr(o) == IF Kind[o] = "transaction" THEN wallet.address ELSE audit[o].addr
DigestNonce(o) == IF Kind[o] = "transaction" THEN NextNonce(o) ELSE audit[o].nonce

\* signMessage(digest, [0]) calls signFunc of the first key of the wallet's
\* current keyset; a keyset read from JSON has none.
Sign(o) ==
    /\ pc[o] = "sign" /\ wallet.signer
    /\ sigs' = sigs \cup {[op |-> o, addr |-> DigestAddr(o), nonce |-> DigestNonce(o),
                           owner |-> wallet.owner]}
    /\ IF Kind[o] = "transaction"
         THEN /\ AddSigned(o, "call", DigestAddr(o), DigestNonce(o), wallet.owner)
              /\ nonce' = [nonce EXCEPT ![o] = NextNonce(o)]
              /\ Goto(o, "next")
         ELSE /\ End(o, "done", "signature")
              /\ UNCHANGED <<nonce, signed>>
    /\ UNCHANGED <<page, user, target, plan, audit, status, polls,
                   approvals, spent, sent, mined, chain>>

\* `this.signFunc!(...)` of a key without signFunc throws.
SignWithoutKey(o) ==
    /\ pc[o] = "sign" /\ ~wallet.signer
    /\ Fail(o, "error")
    /\ UNCHANGED <<page, calls, world>>

\* signFunc rejects: the two-party signing failed.
SignFails(o) ==
    /\ pc[o] = "sign"
    /\ Fail(o, "error")
    /\ UNCHANGED <<page, calls, world>>

\* sendSignedTransactions: a single main call is sent to the wallet's current
\* address, a bundle to the guest module, which calls the bundle's targets.
Post(o) ==
    /\ pc[o] = "next" /\ ~MoreToSign(o)
    /\ target' = [target EXCEPT ![o] = IF Single(o) THEN wallet.address ELSE @]
    /\ Goto(o, "posted")
    /\ UNCHANGED <<page, user, plan, nonce, audit, status, signed, polls, world>>

\* The relayer takes the calls and answers with their hash.
RelayerTakes(o) ==
    /\ pc[o] = "posted"
    /\ sent' = sent \cup {o}
    /\ Goto(o, "wait")
    /\ UNCHANGED <<page, calls, approvals, sigs, spent, mined, chain>>

\* The relayer takes the calls and its answer is lost: relay() rejects.
RelayerAnswerLost(o) ==
    /\ pc[o] = "posted"
    /\ sent' = sent \cup {o}
    /\ Fail(o, "unknown")
    /\ UNCHANGED <<page, calls, approvals, sigs, spent, mined, chain>>

RelayerRefuses(o) ==
    /\ pc[o] = "posted"
    /\ Fail(o, "unknown")
    /\ UNCHANGED <<page, calls, world>>

\* Mutant: one round too many.
RoundsLeftOffByOne(o) == polls[o] <= MaxPolls

\* `i < timeout` of waitForTransaction.
RoundsLeft(o) == polls[o] < MaxPolls

\* Mutant: a round without receipt is not counted.
RoundNotCounted(o) == polls[o]

\* `i++` of waitForTransaction.
NextRound(o) == polls[o] + 1

\* One round of waitForTransaction: a receipt ends the wait, an error of the
\* relayer rejects it, no receipt yet leads to the next round.
Poll(o) ==
    /\ pc[o] = "wait" /\ RoundsLeft(o)
    /\ polls' = [polls EXCEPT ![o] = NextRound(o)]
    /\ IF mined[o] # "no"
         THEN End(o, "done", "receipt")
         ELSE UNCHANGED <<pc, result>>
    /\ UNCHANGED <<page, user, target, plan, nonce, audit, status, signed, world>>

PollFails(o) ==
    /\ pc[o] = "wait" /\ RoundsLeft(o)
    /\ Fail(o, "unknown")
    /\ UNCHANGED <<page, calls, world>>

WaitTimesOut(o) ==
    /\ pc[o] = "wait" /\ ~RoundsLeft(o)
    /\ Fail(o, "timeout")
    /\ UNCHANGED <<page, calls, world>>

-----------------------------------------------------------------------------
(* The page around the operations.                                         *)

\* UnipassWalletProvider.setAccountInfo: another user logs in, or none is.
SetAccountInfo ==
    /\ Switching
    /\ account' \in SomeAccount \ {account}
    /\ UNCHANGED <<wallet, token, pc, calls, result, world>>

\* wallet(), verifySignMessage, simulateTransactions and checkLocalStatus give
\* the one WalletsCreator the keyset read from the account's keysetJson.
ViewWallet ==
    /\ Viewing /\ account # NoAccount
    /\ GetInstance(account, FALSE, account)
    /\ UNCHANGED <<account, token, pc, calls, result, world>>

\* The login page stores a token that was never stored before.
StoreToken ==
    /\ \E t \in Tokens \ spent :
          /\ \A o \in Ops : audit[o].token # t
          /\ token' = t /\ token # t
    /\ UNCHANGED <<account, wallet, pc, calls, result, world>>

-----------------------------------------------------------------------------
(* The chain, as the sdk tests show it: a wallet executes the main call    *)
(* whose nonce follows its own; a bundle takes effect as a whole or not.   *)

MainCalls(o) == {i \in DOMAIN signed[o] : signed[o][i].kind # "deploy"}
Deploys(o) == \E i \in DOMAIN signed[o] : signed[o][i].kind = "deploy"
Syncs(o) == \E i \in DOMAIN signed[o] : signed[o][i].kind = "sync"

\* The i-th call's place among the main calls of the bundle.
Place(o, i) == IF Deploys(o) THEN i - 1 ELSE i

Executable(o) ==
    LET c == chain[target[o]][Chain(o)]
    IN  /\ Deploys(o) # c.deployed
        /\ Deploys(o) => user[o] = target[o]
        /\ \A i \in MainCalls(o) :
              /\ signed[o][i].nonce = c.nonce + Place(o, i)
              /\ signed[o][i].kind = "sync" => user[o] = target[o] /\ ~c.synced
              /\ signed[o][i].kind = "call" =>
                    /\ signed[o][i].addr = target[o]
                    /\ signed[o][i].owner = target[o]
                    /\ c.synced \/ \E j \in 1..(i - 1) : signed[o][j].kind = "sync"

Mine(o) ==
    /\ o \in sent /\ mined[o] = "no"
    /\ \/ /\ Executable(o)
          /\ mined' = [mined EXCEPT ![o] = "ok"]
          /\ chain' = [chain EXCEPT ![target[o]][Chain(o)] =
                         [nonce |-> @.nonce + Place(o, Len(signed[o])),
                          deployed |-> TRUE,
                          synced |-> @.synced \/ Syncs(o)]]
       \/ mined' = [mined EXCEPT ![o] = "reverted"] /\ UNCHANGED chain
    /\ UNCHANGED <<page, pc, calls, result, approvals, sigs, spent, sent>>

\* The user's other device runs the same client: a bundle of its own deploys the wallet
\* and synchronises its keyset where that is missing, and executes a call or none.
ForeignBundle(a, c, sync, call) ==
    LET w == chain[a][c]
        last == w.nonce + Len(Bundle(FALSE, sync, call))
    IN  /\ ~w.deployed \/ sync \/ call
        /\ sync => ~w.synced
        /\ call => w.synced \/ sync
        /\ last <= MaxForeign
        /\ chain' = [chain EXCEPT ![a][c] = [nonce |-> last, deployed |-> TRUE,
                                             synced |-> w.synced \/ sync]]

ForeignCall ==
    /\ \E a \in Accounts, c \in Chains, sync, call \in BOOLEAN : ForeignBundle(a, c, sync, call)
    /\ UNCHANGED <<page, pc, calls, result, approvals, sigs, spent, sent, mined>>

-----------------------------------------------------------------------------
\* The steps by which operation o goes on: what it awaits is answered.
OpStep(o) ==
    \/ Prepare(o) \/ MakePlan(o) \/ MakeRawCall(o) \/ Send(o)
    \/ Network(o) \/ ReadNonce(o) \/ TakeDeploy(o) \/ SignSync(o)
    \/ RequestAudit(o) \/ BackendAudits(o) \/ AuditAnswered(o)
    \/ Sign(o) \/ SignWithoutKey(o) \/ Post(o) \/ RelayerTakes(o)
    \/ Poll(o) \/ WaitTimesOut(o)

\* What it awaits rejects.
OpFails(o) ==
    \/ PlanFails(o) \/ NetworkFails(o) \/ AuditFails(o) \/ SignFails(o)
    \/ RelayerRefuses(o) \/ RelayerAnswerLost(o) \/ PollFails(o)

Next ==
    \/ \E o \in Ops : Begin(o) \/ OpStep(o) \/ OpFails(o) \/ Mine(o)
    \/ SetAccountInfo \/ ViewWallet \/ StoreToken \/ ForeignCall

Spec == Init /\ [][Next]_vars

\* The event loop resumes every operation whose await is settled, and every
\* request is settled in the end; nothing says that a call is ever mined.
Fairness == \A o \in Ops : WF_vars(OpStep(o))

FairSpec == Spec /\ Fairness

-----------------------------------------------------------------------------
\* TypeOK: the values of the state; a wait never asks more than `timeout` times.
TypeOK ==
    /\ account \in SomeAccount
    /\ wallet \in [address : SomeAccount, owner : SomeAccount, signer : BOOLEAN]
    /\ token \in Tokens \cup {Missing, LoggedOut}
    /\ pc \in [Ops -> Stages]
    /\ user \in [Ops -> SomeAccount]
    /\ target \in [Ops -> SomeAccount]
    /\ plan \in [Ops -> Plans]
    /\ nonce \in [Ops -> Nat]
    /\ audit \in [Ops -> [addr : SomeAccount, nonce : Nat,
                         token : Tokens \cup {Missing, LoggedOut}]]
    /\ status \in [Ops -> Statuses]
    /\ signed \in [Ops -> Seq(Signed)]
    /\ polls \in [Ops -> 0..MaxPolls]
    /\ result \in [Ops -> Results]
    /\ approvals \subseteq [op : Ops, addr : SomeAccount, nonce : Nat]
    /\ sigs \subseteq [op : Ops, addr : SomeAccount, nonce : Nat, owner : SomeAccount]
    /\ spent \subseteq Tokens \cup {Missing, LoggedOut}
    /\ sent \subseteq Ops
    /\ mined \in [Ops -> {"no", "ok", "reverted"}]
    /\ chain \in [Accounts -> [Chains -> [nonce : Nat, deployed : BOOLEAN, synced : BOOLEAN]]]

\* Every signature the master key makes is for a content that the backend has
\* approved: this address, this nonce, this call.  preSignFunc and the digest
\* are computed on the two sides of an await, from mutable fields.
SignedWasApproved ==
    \A s \in sigs : Content(s.op, s.addr, s.nonce) \in approvals

\* Whatever the page does, a call of the user that reaches the relayer carries a
\* nonce for which exactly this call was approved: a refusal, a pending
\* confirmation or an error at any part of a bundle keeps the bundle from it.
SentWasApproved ==
    \A o \in sent : \A i \in DOMAIN signed[o] :
        signed[o][i].kind = "call" =>
            \E c \in approvals : c.op = o /\ c.nonce = signed[o][i].nonce

\* A bundle at the relayer is one wallet's: its main calls are signed for and by
\* the wallet they are addressed to, with nonces that follow each other.
BundleIsOneWallets ==
    \A o \in sent : \A i, j \in MainCalls(o) :
        /\ signed[o][i].addr = target[o]
        /\ signed[o][i].kind = "call" => signed[o][i].owner = target[o]
        /\ signed[o][j].nonce - signed[o][i].nonce = j - i

\* The plan asks for what the wallet has by now: another bundle deployed it or
\* synchronised its keyset since the backend was asked.
Superfluous(o) ==
    LET c == chain[target[o]][Chain(o)]
    IN  (Deploys(o) /\ c.deployed) \/ (Syncs(o) /\ c.synced)

\* Between the plan of a bundle and its mining, other calls of this page and other
\* devices deploy the wallet, synchronise it and take nonces.  What that can spoil is
\* the bundle's first nonce or a part that became superfluous, and nothing else: it
\* lacks no part, and they are in order and numbered as the chain wants them.
FreshBundleExecutes ==
    \A o \in sent :
        (/\ mined[o] = "no" /\ ~Superfluous(o)
         /\ \A i \in MainCalls(o) : Place(o, i) = 1 =>
                signed[o][i].nonce = chain[target[o]][Chain(o)].nonce + 1)
        => Executable(o)

\* A disposable token for which an audit was answered is not in localStorage any
\* more, so that no later request carries it.
AnsweredTokenIsGone == token \in Disposable => token \notin spent

\* Every provider call that has started ends: with a receipt, a signature or an
\* error.  The wait for a receipt that never comes is bounded.
EveryCallEnds ==
    \A o \in Ops : pc[o] = "user" ~> pc[o] \in {"done", "failed"}

\* How many steps the operation has at most before it ends: the rounds of its wait,
\* four for a part that must be signed, and those of the stages before and behind.
Ahead == [wait |-> 0, posted |-> 1, sign |-> 1, audited |-> 2, audit |-> 3, next |-> 4,
          nonce |-> 5, network |-> 6, send |-> 7, raw |-> 8, plan |-> 21, user |-> 22,
          idle |-> 23]

StepsLeft(o) ==
    IF pc[o] \in {"done", "failed"} THEN 0
    ELSE Ahead[pc[o]] + 4 * (Len(plan[o]) - Len(signed[o])) + (MaxPolls - polls[o]) + 1

\* Whatever the backend, the relayer and the other operations answer and do, every
\* await that is settled brings the operation nearer to its end, and nothing else
\* sends it back: no call is signed twice, no round goes uncounted.
StepsRunOut ==
    [][\A o \in Ops :
          /\ StepsLeft(o)' \in 0..StepsLeft(o)
          /\ Begin(o) \/ OpStep(o) \/ OpFails(o) => StepsLeft(o)' # StepsLeft(o)]_vars

\* What the caller of o knows.
Report(o) ==
    CASE result[o] \in {"refused", "error"} -> "rejected"
      [] result[o] \in {"receipt", "signature"} -> "answered"
      [] result[o] \in {"unknown", "timeout"} -> "lost"
      [] OTHER -> IF pc[o] = "wait" THEN "pending" ELSE "open"

IsUpkeep(o) == plan[o] \in {<<"sync">>, <<"deploy">>, <<"deploy", "sync">>}

Promise == INSTANCE WalletPromise WITH
    report <- [o \in Ops |-> Report(o)],
    consented <- {c.op : c \in approvals},
    upkeep <- {o \in Ops : IsUpkeep(o)},
    taken <- sent,
    fate <- mined

\* The pipeline keeps the provider's promise, whoever logs in and out meanwhile.
KeepsPromise == Promise!Spec

\* ---- A statement of the interface that the code does not keep.

\* wallet() is said to "get" the wallet: an operation whose audit was approved still
\* has the signer its caller gave it.
ApprovedCallHasItsSigner == \A o \in Ops : pc[o] = "sign" => wallet.signer
=============================================================================
