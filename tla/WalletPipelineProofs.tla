------------------------ MODULE WalletPipelineProofs ------------------------
(***************************************************************************)
(* Proofs about WalletPipeline for every set of accounts, operations and   *)
(* tokens: type correctness.  TypeOK alone is not inductive: the nonce that *)
(* an operation reads has a type only because the wallet it asks for is     *)
(* somebody's (AddressOK).  Then what the one sign token is worth after an  *)
(* audit, and which bundles there are.                                     *)
(***************************************************************************)
EXTENDS WalletPipeline, SequenceTheorems, TLAPS

USE DEF page, calls, world, SomeAccount, Goto, End, Fail, Content

-----------------------------------------------------------------------------
(* TypeOK in parts, each with the variables that one kind of step changes. *)

FlowOK ==
    /\ pc \in [Ops -> Stages]
    /\ polls \in [Ops -> 0..MaxPolls]
    /\ result \in [Ops -> Results]

PageOK ==
    /\ account \in SomeAccount
    /\ wallet \in [address : SomeAccount, owner : SomeAccount, signer : BOOLEAN]
    /\ token \in Tokens \cup {Missing, LoggedOut}

RouteOK ==
    /\ user \in [Ops -> SomeAccount]
    /\ target \in [Ops -> SomeAccount]
    /\ plan \in [Ops -> Plans]

AuditOK ==
    /\ nonce \in [Ops -> Nat]
    /\ audit \in [Ops -> [addr : SomeAccount, nonce : Nat,
                         token : Tokens \cup {Missing, LoggedOut}]]
    /\ status \in [Ops -> Statuses]

SignedOK == signed \in [Ops -> Seq(Signed)]

BackendOK ==
    /\ approvals \subseteq [op : Ops, addr : SomeAccount, nonce : Nat]
    /\ sigs \subseteq [op : Ops, addr : SomeAccount, nonce : Nat, owner : SomeAccount]
    /\ spent \subseteq Tokens \cup {Missing, LoggedOut}
    /\ sent \subseteq Ops

ChainOK ==
    /\ mined \in [Ops -> {"no", "ok", "reverted"}]
    /\ chain \in [Accounts -> [Chains -> [nonce : Nat, deployed : BOOLEAN, synced : BOOLEAN]]]

\* Whose wallet an operation runs for: after its first step a user's; after its
\* second the page's wallets are somebody's, and so is the nonce it asks for.
AddressOK ==
    \A o \in Ops :
        /\ pc[o] \notin {"idle", "failed"} => user[o] \in Accounts
        /\ pc[o] \notin {"idle", "user", "failed"} => wallet.address \in Accounts
        /\ pc[o] = "nonce" => audit[o].addr \in Accounts

PartsOK == FlowOK /\ PageOK /\ RouteOK /\ AuditOK /\ SignedOK /\ BackendOK /\ ChainOK

LEMMA TypeOKIsParts == TypeOK <=> PartsOK
BY DEF TypeOK, PartsOK, FlowOK, PageOK, RouteOK, AuditOK, SignedOK, BackendOK, ChainOK

\* Whatever the backend says is missing, the bundle is one of the plans.
LEMMA BundleIsPlan ==
    ASSUME NEW d \in BOOLEAN, NEW s \in BOOLEAN, NEW c \in BOOLEAN
    PROVE  Bundle(d, s, c) \in Plans
BY DEF Plans

\* A transaction without parts is one of them: the plan before there is a plan.
LEMMA EmptyIsPlan == <<>> \in Plans
<1>1. <<>> \o <<>> = <<>>
    BY <<>> \in Seq({"call"}), ConcatEmptySeq
<1>2. Bundle(FALSE, FALSE, FALSE) = <<>>
    BY <1>1 DEF Bundle, If
<1> QED
    BY <1>2, BundleIsPlan

LEMMA InitTypeOK == Init => TypeOK
<1> SUFFICES ASSUME Init PROVE TypeOK
    OBVIOUS
<1> USE ConstantsAssumption DEF Init
<1>1. chain \in [Accounts -> [Chains -> [nonce : Nat, deployed : BOOLEAN, synced : BOOLEAN]]]
    OBVIOUS
<1> QED
    BY <1>1, EmptyIsPlan DEF TypeOK, Stages, Results, Statuses, Signed

\* What is asked of the chain has an answer of the right type.
LEMMA ChainAnswers ==
    ASSUME ChainOK, NEW a \in Accounts, NEW o \in Ops
    PROVE  /\ chain[a][Chain(o)].deployed \in BOOLEAN
           /\ chain[a][Chain(o)].synced \in BOOLEAN
           /\ chain[a][Chain(o)].nonce \in Nat
           /\ NonceAnswers(a, Chain(o)) \subseteq Nat
<1>1. Chain(o) \in Chains
    BY ConstantsAssumption DEF Chain, Chains
<1>2. chain[a][Chain(o)] \in [nonce : Nat, deployed : BOOLEAN, synced : BOOLEAN]
    BY <1>1 DEF ChainOK
<1>3. chain[a][Chain(o)].nonce \in Nat
    BY <1>2
<1>4. chain[a][Chain(o)].deployed \in BOOLEAN
    BY <1>2
<1>5. chain[a][Chain(o)].synced \in BOOLEAN
    BY <1>2
<1>6. NonceAnswers(a, Chain(o)) \subseteq Nat
    BY <1>3 DEF NonceAnswers
<1> QED
    BY <1>3, <1>4, <1>5, <1>6

\* What is signed is a content of the right type.
LEMMA DigestOK ==
    ASSUME PageOK, AuditOK, NEW o \in Ops
    PROVE  /\ NextNonce(o) \in Nat
           /\ DigestAddr(o) \in SomeAccount
           /\ DigestNonce(o) \in Nat
<1>1. nonce[o] + 1 \in Nat /\ audit[o].nonce \in Nat
    BY DEF AuditOK
<1>2. wallet.address \in SomeAccount
    BY DEF PageOK
<1>3. audit[o].addr \in SomeAccount
    BY DEF AuditOK
<1>4. DigestAddr(o) \in SomeAccount
    BY <1>2, <1>3 DEF DigestAddr
<1> QED
    BY <1>1, <1>4 DEF NextNonce, DigestNonce

\* A call that is added to the signed ones is a call.
LEMMA AddSignedOK ==
    ASSUME SignedOK, NEW o \in Ops, NEW kind \in {"deploy", "sync", "call"},
           NEW addr \in SomeAccount, NEW n \in Nat, NEW owner \in SomeAccount,
           AddSigned(o, kind, addr, n, owner)
    PROVE  SignedOK'
<1> DEFINE s == [kind |-> kind, addr |-> addr, nonce |-> n, owner |-> owner]
<1>1. s \in Signed
    BY DEF Signed
<1>2. Append(signed[o], s) \in Seq(Signed)
    BY <1>1, AppendProperties DEF SignedOK
<1> QED
    BY <1>2 DEF AddSigned, SignedOK

\* The handlers of an operation keep the types, one by one.
LEMMA OpTypeOK ==
    ASSUME NEW o \in Ops, PartsOK, AddressOK, Begin(o) \/ OpStep(o) \/ OpFails(o)
    PROVE  PartsOK'
<1> USE DEF PartsOK
<1>1. CASE Begin(o)
  <2>1. FlowOK'
      BY <1>1 DEF Begin, FlowOK, Stages, Results
  <2>2. RouteOK'
      BY <1>1 DEF Begin, RouteOK, PageOK
  <2> QED
      BY <1>1, <2>1, <2>2 DEF Begin, PageOK, AuditOK, SignedOK, BackendOK, ChainOK
<1>2. CASE Prepare(o)
  <2>1. FlowOK'
      BY <1>2 DEF Prepare, FlowOK, Stages, Results
  <2>2. PageOK'
      BY <1>2 DEF Prepare, PageOK, RouteOK, GetInstance
  <2>3. AuditOK'
      BY <1>2 DEF Prepare, AuditOK, PageOK, RouteOK, AuditRequest
  <2> QED
      BY <1>2, <2>1, <2>2, <2>3 DEF Prepare, RouteOK, SignedOK, BackendOK, ChainOK
<1>3. CASE MakePlan(o)
  <2>1. FlowOK'
      BY <1>3 DEF MakePlan, FlowOK, Stages, Results
  <2>2. RouteOK'
    <3>1. user[o] \in Accounts
        BY <1>3 DEF MakePlan, AddressOK
    <3>2. plan' \in [Ops -> Plans]
      <4>1. PICK w \in BOOLEAN :
               plan' = [plan EXCEPT ![o] = Bundle(Chain(o) # "polygon" /\ ~chain[user[o]][Chain(o)].deployed,
                                                  Chain(o) # "polygon" /\ ~chain[user[o]][Chain(o)].synced, w)]
          BY <1>3 DEF MakePlan
      <4>2. plan'[o] \in Plans /\ plan' = [plan EXCEPT ![o] = plan'[o]]
          BY <4>1, <3>1, BundleIsPlan DEF RouteOK
      <4> QED
          BY <4>2 DEF RouteOK
    <3> QED
        BY <1>3, <3>2 DEF MakePlan, RouteOK
  <2> QED
      BY <1>3, <2>1, <2>2 DEF MakePlan, PageOK, AuditOK, SignedOK, BackendOK, ChainOK
<1>4. CASE PlanFails(o)
  <2>1. FlowOK'
      BY <1>4 DEF PlanFails, FlowOK, Stages, Results
  <2> QED
      BY <1>4, <2>1 DEF PlanFails, PageOK, RouteOK, AuditOK, SignedOK, BackendOK, ChainOK
<1>5. CASE MakeRawCall(o)
  <2>1. FlowOK'
      BY <1>5 DEF MakeRawCall, FlowOK, Stages, Results
  <2>2. RouteOK'
      BY <1>5 DEF MakeRawCall, RouteOK, PageOK
  <2> QED
      BY <1>5, <2>1, <2>2 DEF MakeRawCall, PageOK, AuditOK, SignedOK, BackendOK, ChainOK
<1>6. CASE Send(o)
  <2>1. FlowOK'
      BY <1>6 DEF Send, FlowOK, Stages, Results
  <2>2. PageOK'
    <3>1. user[o] \in SomeAccount
        BY DEF RouteOK
    <3>2. CASE account = NoAccount
        BY <1>6, <3>2 DEF Send, PageOK
    <3>3. CASE account # NoAccount
      <4>1. GetInstance(user[o], TRUE, account)
          BY <1>6, <3>3 DEF Send
      <4>2. UNCHANGED <<account, token>>
          BY <1>6 DEF Send
      <4> QED
          BY <3>1, <4>1, <4>2 DEF PageOK, GetInstance
    <3> QED
        BY <3>2, <3>3
  <2> QED
      BY <1>6, <2>1, <2>2 DEF Send, RouteOK, AuditOK, SignedOK, BackendOK, ChainOK
<1>7. CASE Network(o)
  <2>1. FlowOK'
      BY <1>7 DEF Network, FlowOK, Stages, Results
  <2>2. AuditOK'
      BY <1>7 DEF Network, AuditOK, PageOK, AuditRequest
  <2> QED
      BY <1>7, <2>1, <2>2 DEF Network, PageOK, RouteOK, SignedOK, BackendOK, ChainOK
<1>8. CASE NetworkFails(o)
  <2>1. FlowOK'
      BY <1>8 DEF NetworkFails, FlowOK, Stages, Results
  <2> QED
      BY <1>8, <2>1 DEF NetworkFails, PageOK, RouteOK, AuditOK, SignedOK, BackendOK, ChainOK
<1>9. CASE ReadNonce(o)
  <2>1. FlowOK'
      BY <1>9 DEF ReadNonce, FlowOK, Stages, Results
  <2>2. AuditOK'
    <3>1. audit[o].addr \in Accounts
        BY <1>9 DEF ReadNonce, AddressOK
    <3> QED
        BY <1>9, <3>1, ChainAnswers DEF ReadNonce, AuditOK
  <2> QED
      BY <1>9, <2>1, <2>2 DEF ReadNonce, PageOK, RouteOK, SignedOK, BackendOK, ChainOK
<1>10. CASE TakeDeploy(o)
  <2>1. SignedOK'
    <3>1. user[o] \in SomeAccount
        BY DEF RouteOK
    <3> QED
        BY <1>10, <3>1, AddSignedOK DEF TakeDeploy
  <2> QED
      BY <1>10, <2>1 DEF TakeDeploy, FlowOK, PageOK, RouteOK, AuditOK, BackendOK, ChainOK
<1>11. CASE SignSync(o)
  <2>1. AuditOK'
      BY <1>11 DEF SignSync, AuditOK, NextNonce
  <2>2. SignedOK'
    <3>1. wallet.address \in SomeAccount
        BY DEF PageOK
    <3> QED
        BY <1>11, <3>1, DigestOK, AddSignedOK DEF SignSync
  <2> QED
      BY <1>11, <2>1, <2>2 DEF SignSync, FlowOK, PageOK, RouteOK, BackendOK, ChainOK
<1>12. CASE RequestAudit(o)
  <2>1. FlowOK'
      BY <1>12 DEF RequestAudit, FlowOK, Stages, Results
  <2>2. AuditOK'
      BY <1>12 DEF RequestAudit, AuditOK, PageOK, AuditRequest, NextNonce
  <2> QED
      BY <1>12, <2>1, <2>2 DEF RequestAudit, PageOK, RouteOK, SignedOK, BackendOK, ChainOK
<1>13. CASE BackendAudits(o)
  <2>1. FlowOK'
      BY <1>13 DEF BackendAudits, FlowOK, Stages, Results
  <2>2. AuditOK'
      BY <1>13 DEF BackendAudits, AuditOK, Statuses
  <2>3. BackendOK'
      BY <1>13 DEF BackendAudits, BackendOK, AuditOK
  <2> QED
      BY <1>13, <2>1, <2>2, <2>3 DEF BackendAudits, PageOK, RouteOK, SignedOK, ChainOK
<1>14. CASE AuditFails(o)
  <2>1. FlowOK'
      BY <1>14 DEF AuditFails, FlowOK, Stages, Results
  <2> QED
      BY <1>14, <2>1 DEF AuditFails, PageOK, RouteOK, AuditOK, SignedOK, BackendOK, ChainOK
<1>15. CASE AuditAnswered(o)
  <2>1. FlowOK'
      BY <1>15 DEF AuditAnswered, FlowOK, Stages, Results
  <2>2. PageOK'
      BY <1>15 DEF AuditAnswered, PageOK, ClearUpSignToken
  <2>3. BackendOK'
      BY <1>15 DEF AuditAnswered, BackendOK, AuditOK
  <2> QED
      BY <1>15, <2>1, <2>2, <2>3 DEF AuditAnswered, RouteOK, AuditOK, SignedOK, ChainOK
<1>16. CASE Sign(o)
  <2>1. FlowOK'
      BY <1>16 DEF Sign, FlowOK, Stages, Results
  <2>2. AuditOK'
      BY <1>16 DEF Sign, AuditOK, NextNonce
  <2>3. SignedOK'
    <3>1. wallet.owner \in SomeAccount
        BY DEF PageOK
    <3>2. CASE Kind[o] = "transaction"
        BY <1>16, <3>1, <3>2, DigestOK, AddSignedOK DEF Sign
    <3>3. CASE Kind[o] # "transaction"
        BY <1>16, <3>3 DEF Sign, SignedOK
    <3> QED
        BY <3>2, <3>3
  <2>4. BackendOK'
      BY <1>16, DigestOK DEF Sign, BackendOK, PageOK
  <2> QED
      BY <1>16, <2>1, <2>2, <2>3, <2>4 DEF Sign, PageOK, RouteOK, ChainOK
<1>17. CASE SignWithoutKey(o)
  <2>1. FlowOK'
      BY <1>17 DEF SignWithoutKey, FlowOK, Stages, Results
  <2> QED
      BY <1>17, <2>1 DEF SignWithoutKey, PageOK, RouteOK, AuditOK, SignedOK, BackendOK, ChainOK
<1>18. CASE SignFails(o)
  <2>1. FlowOK'
      BY <1>18 DEF SignFails, FlowOK, Stages, Results
  <2> QED
      BY <1>18, <2>1 DEF SignFails, PageOK, RouteOK, AuditOK, SignedOK, BackendOK, ChainOK
<1>19. CASE Post(o)
  <2>1. FlowOK'
      BY <1>19 DEF Post, FlowOK, Stages, Results
  <2>2. RouteOK'
      BY <1>19 DEF Post, RouteOK, PageOK
  <2> QED
      BY <1>19, <2>1, <2>2 DEF Post, PageOK, AuditOK, SignedOK, BackendOK, ChainOK
<1>20. CASE RelayerTakes(o)
  <2>1. FlowOK'
      BY <1>20 DEF RelayerTakes, FlowOK, Stages, Results
  <2>2. BackendOK'
      BY <1>20 DEF RelayerTakes, BackendOK
  <2> QED
      BY <1>20, <2>1, <2>2 DEF RelayerTakes, PageOK, RouteOK, AuditOK, SignedOK, ChainOK
<1>21. CASE RelayerAnswerLost(o)
  <2>1. FlowOK'
      BY <1>21 DEF RelayerAnswerLost, FlowOK, Stages, Results
  <2>2. BackendOK'
      BY <1>21 DEF RelayerAnswerLost, BackendOK
  <2> QED
      BY <1>21, <2>1, <2>2 DEF RelayerAnswerLost, PageOK, RouteOK, AuditOK, SignedOK, ChainOK
<1>22. CASE RelayerRefuses(o)
  <2>1. FlowOK'
      BY <1>22 DEF RelayerRefuses, FlowOK, Stages, Results
  <2> QED
      BY <1>22, <2>1 DEF RelayerRefuses, PageOK, RouteOK, AuditOK, SignedOK, BackendOK, ChainOK
<1>23. CASE Poll(o)
  <2>1. FlowOK'
    <3>1. polls' \in [Ops -> 0..MaxPolls]
      <4>1. polls[o] + 1 \in 0..MaxPolls
          BY <1>23, ConstantsAssumption DEF Poll, FlowOK, RoundsLeft
      <4> QED
          BY <1>23, <4>1 DEF Poll, FlowOK, NextRound
    <3>2. pc' \in [Ops -> Stages] /\ result' \in [Ops -> Results]
        BY <1>23 DEF Poll, FlowOK, Stages, Results
    <3> QED
        BY <3>1, <3>2 DEF FlowOK
  <2> QED
      BY <1>23, <2>1 DEF Poll, PageOK, RouteOK, AuditOK, SignedOK, BackendOK, ChainOK
<1>24. CASE PollFails(o)
  <2>1. FlowOK'
      BY <1>24 DEF PollFails, FlowOK, Stages, Results
  <2> QED
      BY <1>24, <2>1 DEF PollFails, PageOK, RouteOK, AuditOK, SignedOK, BackendOK, ChainOK
<1>25. CASE WaitTimesOut(o)
  <2>1. FlowOK'
      BY <1>25 DEF WaitTimesOut, FlowOK, Stages, Results
  <2> QED
      BY <1>25, <2>1 DEF WaitTimesOut, PageOK, RouteOK, AuditOK, SignedOK, BackendOK, ChainOK
<1> QED
    BY <1>1, <1>2, <1>3, <1>4, <1>5, <1>6, <1>7, <1>8, <1>9, <1>10, <1>11, <1>12, <1>13, <1>14, <1>15, <1>16, <1>17, <1>18, <1>19, <1>20, <1>21, <1>22, <1>23, <1>24, <1>25 DEF OpStep, OpFails

\* So do the page's other steps and those of the chain.
LEMMA WorldTypeOK ==
    ASSUME PartsOK,
           \/ \E o \in Ops : Mine(o)
           \/ SetAccountInfo \/ ViewWallet \/ StoreToken \/ ForeignCall
    PROVE  PartsOK'
<1> USE DEF PartsOK
<1>1. CASE \E o \in Ops : Mine(o)
  <2>1. PICK o \in Ops : Mine(o)
      BY <1>1
  <2>2. ChainOK'
    <3>1. Len(signed[o]) \in Nat /\ (Deploys(o) => Len(signed[o]) # 0)
        BY LenProperties DEF SignedOK, Deploys
    <3>2. Place(o, Len(signed[o])) \in Nat
        BY <3>1 DEF Place
    <3>3. mined' \in [Ops -> {"no", "ok", "reverted"}]
        BY <2>1 DEF Mine, ChainOK
    <3>4. CASE UNCHANGED chain
        BY <3>3, <3>4 DEF ChainOK
    <3>5. CASE chain' = [chain EXCEPT ![target[o]][Chain(o)] =
                           [nonce |-> @.nonce + Place(o, Len(signed[o])),
                            deployed |-> TRUE,
                            synced |-> @.synced \/ Syncs(o)]]
      <4> DEFINE before == chain[target[o]][Chain(o)]
                 after == [nonce |-> before.nonce + Place(o, Len(signed[o])),
                           deployed |-> TRUE, synced |-> before.synced \/ Syncs(o)]
      <4>1. CASE target[o] \in Accounts
        <5>1. before.nonce \in Nat /\ before.synced \in BOOLEAN
            BY <4>1, ChainAnswers
        <5>2. after \in [nonce : Nat, deployed : BOOLEAN, synced : BOOLEAN]
            BY <5>1, <3>2
        <5>3. chain' = [chain EXCEPT ![target[o]] = [@ EXCEPT ![Chain(o)] = after]]
            BY <3>5
        <5> QED
            BY <5>2, <5>3, <3>3 DEF ChainOK
      <4>2. CASE target[o] \notin Accounts
        <5>1. chain' = chain
            BY <3>5, <4>2 DEF ChainOK
        <5> QED
            BY <5>1, <3>3 DEF ChainOK
      <4> QED
          BY <4>1, <4>2
    <3> QED
        BY <2>1, <3>4, <3>5 DEF Mine
  <2> QED
      BY <2>1, <2>2 DEF Mine, FlowOK, PageOK, RouteOK, AuditOK, SignedOK, BackendOK
<1>2. CASE SetAccountInfo
    BY <1>2 DEF SetAccountInfo, FlowOK, PageOK, RouteOK, AuditOK, SignedOK, BackendOK, ChainOK
<1>3. CASE ViewWallet
  <2>1. PageOK'
      BY <1>3 DEF ViewWallet, PageOK, GetInstance
  <2> QED
      BY <1>3, <2>1 DEF ViewWallet, FlowOK, RouteOK, AuditOK, SignedOK, BackendOK, ChainOK
<1>4. CASE StoreToken
  <2>1. PageOK'
      BY <1>4 DEF StoreToken, PageOK
  <2> QED
      BY <1>4, <2>1 DEF StoreToken, FlowOK, RouteOK, AuditOK, SignedOK, BackendOK, ChainOK
<1>5. CASE ForeignCall
  <2>1. PICK a \in Accounts, c \in Chains, sync \in BOOLEAN, call \in BOOLEAN :
           ForeignBundle(a, c, sync, call)
      BY <1>5 DEF ForeignCall
  <2>2. ChainOK'
    <3> DEFINE taken == Len(Bundle(FALSE, sync, call))
               on == chain[a][c].synced \/ sync
    <3>1. taken \in Nat
        BY DEF Bundle, If
    <3>2. on \in BOOLEAN
        OBVIOUS
    <3>3. chain' = [chain EXCEPT ![a][c] =
                      [nonce |-> chain[a][c].nonce + taken, deployed |-> TRUE, synced |-> on]]
        BY <2>1 DEF ForeignBundle
    <3> HIDE DEF taken, on
    <3>4. [nonce |-> chain[a][c].nonce + taken, deployed |-> TRUE, synced |-> on]
             \in [nonce : Nat, deployed : BOOLEAN, synced : BOOLEAN]
        BY <3>1, <3>2 DEF ChainOK
    <3>5. mined' = mined
        BY <1>5 DEF ForeignCall
    <3> QED
        BY <3>3, <3>4, <3>5 DEF ChainOK
  <2> QED
      BY <1>5, <2>2 DEF ForeignCall, FlowOK, PageOK, RouteOK, AuditOK, SignedOK, BackendOK
<1> QED
    BY <1>1, <1>2, <1>3, <1>4, <1>5

\* Whose wallet an operation runs for stays known through the handlers.
LEMMA OpAddressOK ==
    ASSUME NEW o \in Ops, FlowOK, PageOK, RouteOK, AuditOK, AddressOK,
           Begin(o) \/ OpStep(o) \/ OpFails(o)
    PROVE  AddressOK'
<1> SUFFICES ASSUME NEW p \in Ops
             PROVE  (/\ pc[p] \notin {"idle", "failed"} => user[p] \in Accounts
                     /\ pc[p] \notin {"idle", "user", "failed"} => wallet.address \in Accounts
                     /\ pc[p] = "nonce" => audit[p].addr \in Accounts)'
    BY DEF AddressOK
<1> USE DEF FlowOK, RouteOK, AddressOK
<1>1. CASE Begin(o)
  <2>1. CASE account = NoAccount
      BY <1>1, <2>1 DEF Begin
  <2>2. CASE account # NoAccount
      BY <1>1, <2>2 DEF Begin, PageOK
  <2> QED
      BY <2>1, <2>2
<1>2. CASE Prepare(o)
  <2>1. user[o] \in Accounts /\ UNCHANGED user /\ wallet'.address = user[o]
      BY <1>2 DEF Prepare, GetInstance
  <2>2. Goto(o, "plan") \/ Goto(o, "audit")
      BY <1>2 DEF Prepare
  <2>3. pc[p] = "nonce" => audit'[p] = audit[p]
      BY <1>2 DEF Prepare, AuditRequest, AuditOK
  <2> QED
      BY <1>2, <2>1, <2>2, <2>3 DEF Prepare
<1>3. CASE MakePlan(o)
    BY <1>3 DEF MakePlan
<1>4. CASE PlanFails(o)
    BY <1>4 DEF PlanFails
<1>5. CASE MakeRawCall(o)
  <2>1. UNCHANGED <<user, wallet, audit>> /\ (Goto(o, "send") \/ Fail(o, "error"))
      BY <1>5 DEF MakeRawCall
  <2> QED
      BY <1>5, <2>1 DEF MakeRawCall
<1>6. CASE Send(o)
  <2>1. CASE account = NoAccount
      BY <1>6, <2>1 DEF Send
  <2>2. CASE account # NoAccount
    <3>1. wallet'.address \in Accounts
        BY <1>6, <2>2 DEF Send, GetInstance, PageOK
    <3>2. UNCHANGED <<user, audit>> /\ (Goto(o, "network") \/ Fail(o, "error"))
        BY <1>6, <2>2 DEF Send
    <3> QED
        BY <1>6, <3>1, <3>2 DEF Send
  <2> QED
      BY <2>1, <2>2
<1>7. CASE Network(o)
  <2>1. audit'[o].addr = wallet.address /\ (p # o => audit'[p] = audit[p])
      BY <1>7 DEF Network, AuditRequest, AuditOK
  <2>2. wallet.address \in Accounts
      BY <1>7 DEF Network
  <2> QED
      BY <1>7, <2>1, <2>2 DEF Network
<1>8. CASE NetworkFails(o)
    BY <1>8 DEF NetworkFails
<1>9. CASE ReadNonce(o)
    BY <1>9 DEF ReadNonce
<1>10. CASE TakeDeploy(o)
    BY <1>10 DEF TakeDeploy
<1>11. CASE SignSync(o)
    BY <1>11 DEF SignSync
<1>12. CASE RequestAudit(o)
    BY <1>12 DEF RequestAudit, AuditRequest
<1>13. CASE BackendAudits(o)
    BY <1>13 DEF BackendAudits
<1>14. CASE AuditFails(o)
    BY <1>14 DEF AuditFails
<1>15. CASE AuditAnswered(o)
    BY <1>15 DEF AuditAnswered
<1>16. CASE Sign(o)
    BY <1>16 DEF Sign
<1>17. CASE SignWithoutKey(o)
    BY <1>17 DEF SignWithoutKey
<1>18. CASE SignFails(o)
    BY <1>18 DEF SignFails
<1>19. CASE Post(o)
    BY <1>19 DEF Post
<1>20. CASE RelayerTakes(o)
    BY <1>20 DEF RelayerTakes
<1>21. CASE RelayerAnswerLost(o)
    BY <1>21 DEF RelayerAnswerLost
<1>22. CASE RelayerRefuses(o)
    BY <1>22 DEF RelayerRefuses
<1>23. CASE Poll(o)
    BY <1>23 DEF Poll
<1>24. CASE PollFails(o)
    BY <1>24 DEF PollFails
<1>25. CASE WaitTimesOut(o)
    BY <1>25 DEF WaitTimesOut
<1> QED
    BY <1>1, <1>2, <1>3, <1>4, <1>5, <1>6, <1>7, <1>8, <1>9, <1>10, <1>11, <1>12, <1>13, <1>14, <1>15, <1>16, <1>17, <1>18, <1>19, <1>20, <1>21, <1>22, <1>23, <1>24, <1>25 DEF OpStep, OpFails

\* The other steps do not touch what an operation has.
LEMMA WorldAddressOK ==
    ASSUME AddressOK, PageOK,
           \/ \E o \in Ops : Mine(o)
           \/ SetAccountInfo \/ ViewWallet \/ StoreToken \/ ForeignCall
    PROVE  AddressOK'
<1>1. UNCHANGED <<pc, user, audit>> /\ (wallet' = wallet \/ wallet'.address \in Accounts)
  <2>1. CASE \E o \in Ops : Mine(o)
      BY <2>1 DEF Mine
  <2>2. CASE SetAccountInfo \/ StoreToken \/ ForeignCall
      BY <2>2 DEF SetAccountInfo, StoreToken, ForeignCall
  <2>3. CASE ViewWallet
      BY <2>3 DEF ViewWallet, GetInstance, PageOK
  <2> QED
      BY <2>1, <2>2, <2>3
<1> QED
    BY <1>1 DEF AddressOK

\* Types and addresses together are inductive.
LEMMA NextTypeOK == PartsOK /\ AddressOK /\ [Next]_vars => (PartsOK /\ AddressOK)'
<1> SUFFICES ASSUME PartsOK, AddressOK, [Next]_vars
             PROVE  PartsOK' /\ AddressOK'
    OBVIOUS
<1>1. CASE \E o \in Ops : Begin(o) \/ OpStep(o) \/ OpFails(o)
    BY <1>1, OpTypeOK, OpAddressOK DEF PartsOK
<1>2. CASE \/ \E o \in Ops : Mine(o)
           \/ SetAccountInfo \/ ViewWallet \/ StoreToken \/ ForeignCall
    BY <1>2, WorldTypeOK, WorldAddressOK DEF PartsOK
<1>3. CASE UNCHANGED vars
  <2>1. AddressOK'
      BY <1>3 DEF vars, AddressOK
  <2> QED
      BY <1>3, <2>1 DEF vars, PartsOK, FlowOK, PageOK, RouteOK, AuditOK, SignedOK,
                        BackendOK, ChainOK
<1> QED
    BY <1>1, <1>2, <1>3 DEF Next

LEMMA TypeAndAddress == Spec => [](PartsOK /\ AddressOK)
<1>1. Init => PartsOK /\ AddressOK
    BY InitTypeOK, TypeOKIsParts DEF Init, AddressOK
<1> QED
    BY <1>1, NextTypeOK, PTL DEF Spec

\* In every state of the pipeline, whatever the operations, accounts and tokens are,
\* the values of the state are those of the code: in particular a wait for a receipt
\* (waitForTransaction) has asked the relayer at most `timeout` times.
THEOREM TypeCorrect == Spec => []TypeOK
BY TypeAndAddress, TypeOKIsParts, PTL

-----------------------------------------------------------------------------
(* Tokens.                                                                 *)

\* The steps that touch neither the token nor what it was spent on.
LEMMA OpToken ==
    ASSUME NEW o \in Ops, Begin(o) \/ OpStep(o) \/ OpFails(o), ~AuditAnswered(o)
    PROVE  UNCHANGED <<token, spent>>
<1>1. CASE Begin(o) \/ OpFails(o)
    BY <1>1 DEF Begin, OpFails, PlanFails, NetworkFails, AuditFails, SignFails,
                RelayerRefuses, RelayerAnswerLost, PollFails
<1>2. CASE Prepare(o) \/ MakePlan(o) \/ MakeRawCall(o) \/ Send(o) \/ Network(o)
    BY <1>2 DEF Prepare, GetInstance, MakePlan, MakeRawCall, Send, Network
<1>3. CASE ReadNonce(o) \/ TakeDeploy(o) \/ SignSync(o) \/ RequestAudit(o) \/ BackendAudits(o)
    BY <1>3 DEF ReadNonce, TakeDeploy, SignSync, RequestAudit, BackendAudits
<1>4. CASE Sign(o) \/ SignWithoutKey(o) \/ Post(o) \/ RelayerTakes(o) \/ Poll(o) \/ WaitTimesOut(o)
    BY <1>4 DEF Sign, SignWithoutKey, Post, RelayerTakes, Poll, WaitTimesOut
<1> QED
    BY <1>1, <1>2, <1>3, <1>4 DEF OpStep

LEMMA NextToken == AnsweredTokenIsGone /\ [Next]_vars => AnsweredTokenIsGone'
<1> SUFFICES ASSUME AnsweredTokenIsGone, [Next]_vars PROVE AnsweredTokenIsGone'
    OBVIOUS
<1>1. CASE UNCHANGED <<token, spent>>
    BY <1>1 DEF AnsweredTokenIsGone
<1>2. ASSUME NEW o \in Ops, AuditAnswered(o) PROVE AnsweredTokenIsGone'
  <2>1. token' \notin Disposable
      BY <1>2, ConstantsAssumption DEF AuditAnswered, ClearUpSignToken
  <2> QED
      BY <2>1 DEF AnsweredTokenIsGone
<1>3. CASE StoreToken
  <2>1. token' \notin spent /\ spent' = spent
      BY <1>3 DEF StoreToken
  <2> QED
      BY <2>1 DEF AnsweredTokenIsGone
<1>4. CASE \E o \in Ops : Mine(o)
    BY <1>1, <1>4 DEF Mine
<1>5. CASE SetAccountInfo \/ ViewWallet \/ ForeignCall \/ UNCHANGED vars
    BY <1>1, <1>5 DEF SetAccountInfo, ViewWallet, GetInstance, ForeignCall, vars
<1> QED
    BY <1>1, <1>2, <1>3, <1>4, <1>5, OpToken DEF Next

\* A disposable token an audit was answered for is never in localStorage again
\* (clearUpSignToken), however many operations share it.
THEOREM TokenTheorem == Spec => []AnsweredTokenIsGone
<1>1. Init => AnsweredTokenIsGone
    BY DEF Init, AnsweredTokenIsGone
<1> QED
    BY <1>1, NextToken, PTL DEF Spec

-----------------------------------------------------------------------------
(* The shape of the bundles.                                               *)

Parts == {"deploy", "sync", "call"}
Upkeep == {<<"sync">>, <<"deploy">>, <<"deploy", "sync">>}

LEMMA TwoParts ==
    ASSUME NEW x \in Parts, NEW y \in Parts
    PROVE  <<x>> \o <<y>> = <<x, y>>
<1> DEFINE s == <<x>> \o <<y>>
           t == <<x, y>>
<1>1. <<x>> \in Seq(Parts) /\ <<y>> \in Seq(Parts) /\ t \in Seq(Parts)
    OBVIOUS
<1>2. /\ Len(<<x>>) = 1 /\ Len(<<y>>) = 1 /\ Len(t) = 2
      /\ <<x>>[1] = x /\ <<y>>[1] = y /\ t[1] = x /\ t[2] = y
    OBVIOUS
<1>3. s \in Seq(Parts) /\ Len(s) = 2
    BY <1>1, <1>2, ConcatProperties
<1>4. s[1] = x
    BY <1>1, <1>2, ConcatProperties
<1>5. s[2] = y
    BY <1>1, <1>2, ConcatProperties
<1> HIDE DEF s, t
<1>6. \A i \in 1..Len(s) : s[i] = t[i]
    BY <1>2, <1>3, <1>4, <1>5
<1>7. s = t
    BY <1>1, <1>2, <1>3, <1>6, SeqEqual
<1> QED
    BY <1>7 DEF s, t

\* A bundle is empty or upkeep, with or without the user's call behind it.
LEMMA PlanParts ==
    ASSUME NEW p \in Plans
    PROVE  \E u \in Upkeep \cup {<<>>} : u \in Seq(Parts) /\ (p = u \/ p = u \o <<"call">>)
<1>0. PICK d \in BOOLEAN, s \in BOOLEAN, c \in BOOLEAN : p = Bundle(d, s, c)
    BY DEF Plans
<1> DEFINE D == If(d, "deploy")
           S == If(s, "sync")
           C == If(c, "call")
           U == D \o S
<1>1. D \in {<<>>, <<"deploy">>} /\ S \in {<<>>, <<"sync">>} /\ C \in {<<>>, <<"call">>}
    BY DEF If
<1>2. /\ <<>> \in Seq(Parts) /\ <<"deploy">> \in Seq(Parts) /\ <<"sync">> \in Seq(Parts)
      /\ <<"deploy", "sync">> \in Seq(Parts)
    BY DEF Parts
<1>3. /\ <<>> \o <<>> = <<>> /\ <<"deploy">> \o <<>> = <<"deploy">>
      /\ <<>> \o <<"sync">> = <<"sync">>
    BY <1>2, ConcatEmptySeq
<1>4. <<"deploy">> \o <<"sync">> = <<"deploy", "sync">>
    BY TwoParts DEF Parts
<1> HIDE DEF D, S, C
<1>5. U \in Upkeep \cup {<<>>}
    BY <1>1, <1>3, <1>4 DEF Upkeep
<1>6. U \in Seq(Parts)
    BY <1>5, <1>2 DEF Upkeep
<1> HIDE DEF U
<1>7. p = U \o C
    BY <1>0 DEF Bundle, U, D, S, C
<1>8. C = <<>> => p = U
    BY <1>6, <1>7, ConcatEmptySeq
<1> QED
    BY <1>1, <1>5, <1>6, <1>7, <1>8

\* What stands where in a bundle that ends with the user's call.
LEMMA WithCall ==
    ASSUME NEW u \in Seq(Parts), NEW p, p = u \o <<"call">>
    PROVE  /\ p \in Seq(Parts) /\ Len(p) = Len(u) + 1 /\ Len(u) \in Nat
           /\ p[Len(u) + 1] = "call" /\ \A i \in 1..Len(u) : p[i] = u[i]
<1> DEFINE C == <<"call">>
<1>1. C \in Seq(Parts) /\ Len(C) = 1 /\ C[1] = "call" /\ Len(u) \in Nat
    BY LenProperties DEF Parts
<1> HIDE DEF C
<1>2. /\ u \o C \in Seq(Parts) /\ Len(u \o C) = Len(u) + Len(C)
      /\ \A i \in 1..Len(u) + Len(C) :
            (u \o C)[i] = IF i <= Len(u) THEN u[i] ELSE C[i - Len(u)]
    BY <1>1, ConcatProperties
<1>3. (u \o C)[Len(u) + 1] = "call" /\ \A i \in 1..Len(u) : (u \o C)[i] = u[i]
    BY <1>1, <1>2
<1> QED
    BY <1>1, <1>2, <1>3 DEF C

\* A bundle is empty, upkeep alone, or has the user's call; a deployment comes first.
LEMMA PlanShape ==
    ASSUME NEW p \in Plans
    PROVE  /\ p \in Seq(Parts)
           /\ p = <<>> \/ p \in Upkeep \/ \E i \in DOMAIN p : p[i] = "call"
           /\ \A i \in DOMAIN p : p[i] = "deploy" => i = 1
<1>1. PICK u \in Upkeep \cup {<<>>} : u \in Seq(Parts) /\ (p = u \/ p = u \o <<"call">>)
    BY PlanParts
<1>2. DOMAIN u = 1..Len(u)
    BY <1>1, LenProperties
<1>3. \A i \in DOMAIN u : u[i] = "deploy" => i = 1
  <2>1. CASE u = <<>>
      BY <2>1
  <2>2. CASE u = <<"sync">>
      BY <2>2
  <2>3. CASE u = <<"deploy">>
      BY <2>3
  <2>4. CASE u = <<"deploy", "sync">>
      BY <2>4
  <2> QED
      BY <1>1, <2>1, <2>2, <2>3, <2>4 DEF Upkeep
<1>4. CASE p = u
    BY <1>1, <1>3, <1>4
<1>5. CASE p = u \o <<"call">>
  <2>1. /\ p \in Seq(Parts) /\ Len(p) = Len(u) + 1 /\ Len(u) \in Nat
        /\ p[Len(u) + 1] = "call" /\ \A i \in 1..Len(u) : p[i] = u[i]
      BY <1>1, <1>5, WithCall
  <2>2. DOMAIN p = 1..(Len(u) + 1)
      BY <2>1, LenProperties
  <2>3. ASSUME NEW i \in DOMAIN p, p[i] = "deploy" PROVE i = 1
    <3>1. i \in DOMAIN u /\ p[i] = u[i]
        BY <1>2, <2>1, <2>2, <2>3
    <3> QED
        BY <1>3, <2>3, <3>1
  <2> QED
      BY <2>1, <2>2, <2>3
<1> QED
    BY <1>1, <1>4, <1>5

\* An upkeep plan has no call of the user, and is not empty.
LEMMA NotUpkeep ==
    ASSUME PartsOK, NEW o \in Ops, MoreToSign(o), NextKind(o) = "call"
    PROVE  ~IsUpkeep(o)
<1>1. Len(signed[o]) \in Nat /\ Len(signed[o]) < Len(plan[o])
    BY DEF MoreToSign, PartsOK, SignedOK
<1>2. plan[o][Len(signed[o]) + 1] = "call"
    BY DEF NextKind
<1>3. CASE plan[o] = <<"sync">>
    BY <1>1, <1>2, <1>3
<1>4. CASE plan[o] = <<"deploy">>
    BY <1>1, <1>2, <1>4
<1>5. CASE plan[o] = <<"deploy", "sync">>
  <2>1. Len(signed[o]) + 1 \in {1, 2}
      BY <1>1, <1>5
  <2> QED
      BY <1>2, <1>5, <2>1
<1> QED
    BY <1>3, <1>4, <1>5 DEF IsUpkeep

\* Parts that a bundle has.
Has(p, part) == \E i \in DOMAIN p : p[i] = part

LEMMA ConcatHas ==
    ASSUME NEW s \in Seq(Parts), NEW t \in Seq(Parts), NEW part
    PROVE  /\ s \o t \in Seq(Parts)
           /\ Has(s \o t, part) <=> Has(s, part) \/ Has(t, part)
<1>1. /\ Len(s) \in Nat /\ Len(t) \in Nat /\ DOMAIN s = 1..Len(s) /\ DOMAIN t = 1..Len(t)
    BY LenProperties
<1>2. /\ s \o t \in Seq(Parts) /\ Len(s \o t) = Len(s) + Len(t)
      /\ \A i \in 1..(Len(s) + Len(t)) :
            (s \o t)[i] = IF i <= Len(s) THEN s[i] ELSE t[i - Len(s)]
    BY ConcatProperties
<1>3. DOMAIN (s \o t) = 1..(Len(s) + Len(t))
    BY <1>2, LenProperties
<1>4. ASSUME NEW i \in DOMAIN (s \o t), (s \o t)[i] = part
      PROVE  Has(s, part) \/ Has(t, part)
  <2>1. CASE i <= Len(s)
      BY <1>1, <1>2, <1>3, <1>4, <2>1 DEF Has
  <2>2. CASE ~(i <= Len(s))
    <3>1. i - Len(s) \in DOMAIN t /\ t[i - Len(s)] = part
        BY <1>1, <1>2, <1>3, <1>4, <2>2
    <3> QED
        BY <3>1 DEF Has
  <2> QED
      BY <2>1, <2>2
<1>5. ASSUME NEW i \in DOMAIN s, s[i] = part
      PROVE  Has(s \o t, part)
  <2>1. i \in DOMAIN (s \o t) /\ (s \o t)[i] = part
      BY <1>1, <1>2, <1>3, <1>5
  <2> QED
      BY <2>1 DEF Has
<1>6. ASSUME NEW i \in DOMAIN t, t[i] = part
      PROVE  Has(s \o t, part)
  <2>1. i + Len(s) \in 1..(Len(s) + Len(t)) /\ ~(i + Len(s) <= Len(s)) /\ i + Len(s) - Len(s) = i
      BY <1>1
  <2>2. (s \o t)[i + Len(s)] = part
      BY <1>2, <1>6, <2>1
  <2> QED
      BY <1>3, <2>1, <2>2 DEF Has
<1> QED
    BY <1>2, <1>4, <1>5, <1>6 DEF Has

LEMMA IfHas ==
    ASSUME NEW b \in BOOLEAN, NEW kind \in Parts, NEW part
    PROVE  If(b, kind) \in Seq(Parts) /\ (Has(If(b, kind), part) <=> b /\ part = kind)
<1>1. CASE b
  <2>1. If(b, kind) = <<kind>> /\ <<kind>> \in Seq(Parts)
      BY <1>1 DEF If
  <2>2. Has(<<kind>>, part) <=> part = kind
      BY DEF Has
  <2> QED
      BY <1>1, <2>1, <2>2
<1>2. CASE ~b
  <2>1. If(b, kind) = <<>> /\ <<>> \in Seq(Parts) /\ DOMAIN <<>> = {}
      BY <1>2 DEF If
  <2> QED
      BY <1>2, <2>1 DEF Has
<1> QED
    BY <1>1, <1>2

\* A bundle has the parts it was asked for.
LEMMA BundleHas ==
    ASSUME NEW d \in BOOLEAN, NEW s \in BOOLEAN, NEW c \in BOOLEAN
    PROVE  /\ Has(Bundle(d, s, c), "deploy") <=> d
           /\ Has(Bundle(d, s, c), "sync") <=> s
<1> DEFINE D == If(d, "deploy")
           S == If(s, "sync")
           C == If(c, "call")
<1>1. /\ D \in Seq(Parts) /\ S \in Seq(Parts) /\ C \in Seq(Parts)
      /\ \A part : /\ Has(D, part) <=> d /\ part = "deploy"
                   /\ Has(S, part) <=> s /\ part = "sync"
                   /\ Has(C, part) <=> c /\ part = "call"
    BY IfHas DEF Parts
<1> HIDE DEF D, S, C
<1>2. D \o S \in Seq(Parts) /\ \A part : Has(D \o S, part) <=> Has(D, part) \/ Has(S, part)
    BY <1>1, ConcatHas
<1>3. \A part : Has((D \o S) \o C, part) <=> Has(D \o S, part) \/ Has(C, part)
    BY <1>1, <1>2, ConcatHas
<1>4. Bundle(d, s, c) = (D \o S) \o C
    BY DEF Bundle, D, S, C
<1>5. ASSUME NEW part
      PROVE  Has((D \o S) \o C, part)
                <=> (d /\ part = "deploy") \/ (s /\ part = "sync") \/ (c /\ part = "call")
  <2>1. Has((D \o S) \o C, part) <=> Has(D, part) \/ Has(S, part) \/ Has(C, part)
      BY <1>2, <1>3
  <2> QED
      BY <1>1, <2>1
<1>6. Has((D \o S) \o C, "deploy") <=> d
    BY <1>5
<1>7. Has((D \o S) \o C, "sync") <=> s
    BY <1>5
<1> QED
    BY <1>4, <1>6, <1>7

\* The user's call is the last part: a synchronisation comes before it.
LEMMA SyncFirst ==
    ASSUME NEW p \in Plans, NEW i \in DOMAIN p, NEW j \in DOMAIN p,
           p[i] = "call", p[j] = "sync"
    PROVE  j < i
<1>1. PICK u \in Upkeep \cup {<<>>} : u \in Seq(Parts) /\ (p = u \/ p = u \o <<"call">>)
    BY PlanParts
<1>2. DOMAIN u = 1..Len(u) /\ Len(u) \in Nat
    BY <1>1, LenProperties
<1>3. \A k \in DOMAIN u : u[k] # "call"
  <2>1. CASE u = <<>>
      BY <2>1
  <2>2. CASE u = <<"sync">>
      BY <2>2
  <2>3. CASE u = <<"deploy">>
      BY <2>3
  <2>4. CASE u = <<"deploy", "sync">>
      BY <2>4
  <2> QED
      BY <1>1, <2>1, <2>2, <2>3, <2>4 DEF Upkeep
<1>4. p = u \o <<"call">>
    BY <1>1, <1>3
<1>5. /\ p \in Seq(Parts) /\ Len(p) = Len(u) + 1
      /\ p[Len(u) + 1] = "call" /\ \A k \in 1..Len(u) : p[k] = u[k]
    BY <1>1, <1>4, WithCall
<1>6. DOMAIN p = 1..(Len(u) + 1)
    BY <1>5, LenProperties
<1>7. i = Len(u) + 1 /\ j # Len(u) + 1
    BY <1>2, <1>3, <1>5, <1>6
<1> QED
    BY <1>2, <1>6, <1>7

\* No bundle has more than three parts.
LEMMA PlanLength ==
    ASSUME NEW p \in Plans
    PROVE  Len(p) \in 0..3
<1>1. PICK u \in Upkeep \cup {<<>>} : u \in Seq(Parts) /\ (p = u \/ p = u \o <<"call">>)
    BY PlanParts
<1>2. Len(u) \in 0..2
    BY <1>1 DEF Upkeep
<1>3. CASE p = u
    BY <1>2, <1>3
<1>4. CASE p = u \o <<"call">>
  <2>1. Len(p) = Len(u) + 1
      BY <1>1, <1>4, WithCall
  <2>2. \A n \in 0..2 : n + 1 \in 0..3
      OBVIOUS
  <2> QED
      BY <1>2, <2>1, <2>2
<1> QED
    BY <1>1, <1>3, <1>4
=============================================================================
