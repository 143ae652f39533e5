------------------------ MODULE WalletApprovalProofs ------------------------
(***************************************************************************)
(* What the audit guarantees, for every set of accounts, operations and    *)
(* tokens: whatever users do, no call reaches the relayer under a nonce    *)
(* for which it was not approved; and as long as nobody logs in or out      *)
(* while calls run, every signature is for an approved content.  (The run   *)
(* SwitchSigned shows that the second needs its assumption.)               *)
(*                                                                         *)
(* On these rest the refinement, WalletPipeline implements WalletPromise,   *)
(* by where each operation stands (StageOf) and by the order in which it    *)
(* signs the parts of its plan (FollowsPlan); and, again while nobody logs   *)
(* in or out, that a bundle is one wallet's (BundleOf).  The last parts:     *)
(* every operation runs out of steps (FitsOK), a fresh bundle executes       *)
(* (FreshOf), and an approved call has its signer unless somebody looks at    *)
(* the wallet (SignerOK).                                                   *)
(***************************************************************************)
EXTENDS WalletPipelineProofs

USE DEF page, calls, world, SomeAccount, Goto, End, Fail, Content

\* The content of o's last audit request.
Audited(o) == Content(o, audit[o].addr, audit[o].nonce)

\* The signed calls of o that the user must approve were approved, nonce by nonce.
SignedApproved(o) ==
    \A i \in DOMAIN signed[o] : signed[o][i].kind = "call" =>
        \E c \in approvals : c.op = o /\ c.nonce = signed[o][i].nonce

\* Between the answer of the audit and the signature the approval is known and
\* is for the nonce that will be signed; a signed call keeps its approval.
ApprovalOf(o) ==
    /\ pc[o] = "audited" /\ status[o] = "Approved" => Audited(o) \in approvals
    /\ pc[o] = "sign" => Audited(o) \in approvals
    /\ pc[o] \in {"audit", "audited", "sign"} /\ Kind[o] = "transaction"
          => audit[o].nonce = NextNonce(o)
    /\ SignedApproved(o)

ApprovalOK == \A o \in Ops : ApprovalOf(o)

\* While nobody logs in or out the page's wallets are the one account's, and so
\* is every audit request of a transaction.
AccountOf(o) ==
    /\ pc[o] \notin {"idle", "failed"} => user[o] = account
    /\ pc[o] \notin {"idle", "user", "failed"} => wallet.address = account
    /\ pc[o] \in {"audit", "audited", "sign"} /\ Kind[o] = "transaction"
          => audit[o].addr = account

AccountOK == account \in Accounts /\ \A o \in Ops : AccountOf(o)

-----------------------------------------------------------------------------
\* A step that leaves an operation alone keeps what was approved for it.
LEMMA ApprovalFrame ==
    ASSUME NEW p \in Ops, ApprovalOf(p), approvals \subseteq approvals',
           pc'[p] = pc[p], status'[p] = status[p], audit'[p] = audit[p],
           nonce'[p] = nonce[p], signed'[p] = signed[p]
    PROVE  ApprovalOf(p)'
BY DEF ApprovalOf, SignedApproved, Audited, NextNonce

\* So does one after which the operation is not about to sign.
LEMMA ApprovalAway ==
    ASSUME NEW p \in Ops, ApprovalOf(p), approvals \subseteq approvals',
           pc'[p] \notin {"audit", "audited", "sign"}, signed'[p] = signed[p]
    PROVE  ApprovalOf(p)'
BY DEF ApprovalOf, SignedApproved

\* What is in the sequence of signed calls after one was added.
LEMMA AddSignedIs ==
    ASSUME SignedOK, NEW o \in Ops, NEW kind, NEW addr, NEW n, NEW owner,
           AddSigned(o, kind, addr, n, owner), NEW i \in DOMAIN signed'[o]
    PROVE  \/ i \in DOMAIN signed[o] /\ signed'[o][i] = signed[o][i]
           \/ signed'[o][i].kind = kind /\ signed'[o][i].nonce = n
<1> DEFINE s == [kind |-> kind, addr |-> addr, nonce |-> n, owner |-> owner]
<1>1. signed'[o] = Append(signed[o], s)
    BY DEF AddSigned, SignedOK
<1>2. signed[o] \in Seq(Signed)
    BY DEF SignedOK
<1> QED
    BY <1>1, <1>2

\* An added call that was approved, or needs no approval, keeps SignedApproved.
LEMMA AddApproved ==
    ASSUME SignedOK, NEW o \in Ops, NEW kind, NEW addr, NEW n, NEW owner,
           SignedApproved(o), AddSigned(o, kind, addr, n, owner), UNCHANGED approvals,
           kind = "call" => \E c \in approvals : c.op = o /\ c.nonce = n
    PROVE  SignedApproved(o)'
<1> SUFFICES ASSUME NEW i \in DOMAIN signed'[o], signed'[o][i].kind = "call"
             PROVE  \E c \in approvals : c.op = o /\ c.nonce = signed'[o][i].nonce
    BY DEF SignedApproved
<1>1. CASE i \in DOMAIN signed[o] /\ signed'[o][i] = signed[o][i]
    BY <1>1 DEF SignedApproved
<1>2. CASE signed'[o][i].kind = kind /\ signed'[o][i].nonce = n
    BY <1>2
<1> QED
    BY <1>1, <1>2, AddSignedIs

\* A handler of one operation leaves the others alone.
LEMMA OthersAlone ==
    ASSUME PartsOK, NEW o \in Ops, NEW p \in Ops \ {o}, Begin(o) \/ OpStep(o) \/ OpFails(o)
    PROVE  /\ pc'[p] = pc[p] /\ status'[p] = status[p] /\ audit'[p] = audit[p]
           /\ nonce'[p] = nonce[p] /\ signed'[p] = signed[p]
<1> USE DEF PartsOK, FlowOK, AuditOK, SignedOK
<1>1. CASE Begin(o)
    BY <1>1 DEF Begin
<1>2. CASE Prepare(o)
    BY <1>2 DEF Prepare, AuditRequest
<1>3. CASE MakePlan(o)
    BY <1>3 DEF MakePlan
<1>4. CASE PlanFails(o)
    BY <1>4 DEF PlanFails
<1>5. CASE MakeRawCall(o)
    BY <1>5 DEF MakeRawCall
<1>6. CASE Send(o)
    BY <1>6 DEF Send
<1>7. CASE Network(o)
    BY <1>7 DEF Network, AuditRequest
<1>8. CASE NetworkFails(o)
    BY <1>8 DEF NetworkFails
<1>9. CASE ReadNonce(o)
    BY <1>9 DEF ReadNonce
<1>10. CASE TakeDeploy(o)
    BY <1>10 DEF TakeDeploy, AddSigned
<1>11. CASE SignSync(o)
    BY <1>11 DEF SignSync, AddSigned
<1>12. CASE RequestAudit(o)
    BY <1>12 DEF RequestAudit, AuditRequest
<1>13. CASE BackendAudits(o)
    BY <1>13 DEF BackendAudits
<1>14. CASE AuditFails(o)
    BY <1>14 DEF AuditFails
<1>15. CASE AuditAnswered(o)
    BY <1>15 DEF AuditAnswered
<1>16. CASE Sign(o)
    BY <1>16 DEF Sign, AddSigned
<1>17. CASE SignWithoutKey(o)
    BY <1>17 DEF SignWithoutKey
<1>18. CASE SignFails(o)
    BY <1>18 DEF SignFails
<1>19. CASE Post(o)
    BY <1>19 DEF Post
<1>20. CASE RelayerTakes(o)
    BY <1>20 DEF RelayerTakes
<1>21. CASE RelayerAnswerLost(o)
    BY <1>21 DEF RelayerAnswerLost
<1>22. CASE RelayerRefuses(o)
    BY <1>22 DEF RelayerRefuses
<1>23. CASE Poll(o)
    BY <1>23 DEF Poll
<1>24. CASE PollFails(o)
    BY <1>24 DEF PollFails
<1>25. CASE WaitTimesOut(o)
    BY <1>25 DEF WaitTimesOut
<1> QED
    BY <1>1, <1>2, <1>3, <1>4, <1>5, <1>6, <1>7, <1>8, <1>9, <1>10, <1>11, <1>12, <1>13, <1>14, <1>15, <1>16, <1>17, <1>18, <1>19, <1>20, <1>21, <1>22, <1>23, <1>24, <1>25 DEF OpStep, OpFails

\* The handlers keep what was approved for their own operation.
LEMMA OpApproval ==
    ASSUME PartsOK, NEW o \in Ops, ApprovalOf(o), Begin(o) \/ OpStep(o) \/ OpFails(o)
    PROVE  ApprovalOf(o)'
<1> USE DEF PartsOK
<1>1. CASE Begin(o)
    BY <1>1, ApprovalAway DEF Begin, FlowOK
<1>2. CASE Prepare(o)
  <2>1. CASE Kind[o] = "transaction"
      BY <1>2, <2>1, ApprovalAway DEF Prepare, FlowOK
  <2>2. CASE Kind[o] # "transaction"
      BY <1>2, <2>2 DEF Prepare, FlowOK, ApprovalOf, SignedApproved
  <2> QED
      BY <2>1, <2>2
<1>3. CASE MakePlan(o)
    BY <1>3, ApprovalAway DEF MakePlan, FlowOK
<1>4. CASE PlanFails(o)
    BY <1>4, ApprovalAway DEF PlanFails, FlowOK
<1>5. CASE MakeRawCall(o)
    BY <1>5, ApprovalAway DEF MakeRawCall, FlowOK
<1>6. CASE Send(o)
    BY <1>6, ApprovalAway DEF Send, FlowOK
<1>7. CASE Network(o)
    BY <1>7, ApprovalAway DEF Network, FlowOK
<1>8. CASE NetworkFails(o)
    BY <1>8, ApprovalAway DEF NetworkFails, FlowOK
<1>9. CASE ReadNonce(o)
    BY <1>9, ApprovalAway DEF ReadNonce, FlowOK
<1>10. CASE TakeDeploy(o)
  <2>1. SignedApproved(o)'
      BY <1>10, AddApproved DEF TakeDeploy, ApprovalOf
  <2> QED
      BY <1>10, <2>1 DEF TakeDeploy, ApprovalOf
<1>11. CASE SignSync(o)
  <2>1. SignedApproved(o)'
      BY <1>11, AddApproved DEF SignSync, ApprovalOf
  <2> QED
      BY <1>11, <2>1 DEF SignSync, ApprovalOf
<1>12. CASE RequestAudit(o)
  <2>1. pc'[o] = "audit" /\ audit'[o].nonce = NextNonce(o) /\ UNCHANGED <<nonce, signed, approvals>>
      BY <1>12 DEF RequestAudit, AuditRequest, FlowOK, AuditOK
  <2> QED
      BY <2>1 DEF ApprovalOf, SignedApproved, NextNonce
<1>13. CASE BackendAudits(o)
  <2>1. pc'[o] = "audited" /\ UNCHANGED <<audit, nonce, signed>>
      BY <1>13 DEF BackendAudits, FlowOK
  <2>2. approvals \subseteq approvals' /\ (status'[o] = "Approved" => Audited(o) \in approvals')
      BY <1>13 DEF BackendAudits, AuditOK, Audited
  <2>3. pc[o] = "audit"
      BY <1>13 DEF BackendAudits
  <2> QED
      BY <2>1, <2>2, <2>3 DEF ApprovalOf, SignedApproved, Audited, NextNonce
<1>14. CASE AuditFails(o)
    BY <1>14, ApprovalAway DEF AuditFails, FlowOK
<1>15. CASE AuditAnswered(o)
  <2>0. MaySign(o) <=> status[o] = "Approved"
      BY DEF MaySign, IsApproved, IsNotStopped, AuditOK, Statuses
  <2>1. CASE token # Missing /\ status[o] = "Approved"
    <3>1. pc'[o] = "sign" /\ UNCHANGED <<audit, nonce, signed, approvals>> /\ pc[o] = "audited"
        BY <1>15, <2>0, <2>1 DEF AuditAnswered, FlowOK
    <3> QED
        BY <2>1, <3>1 DEF ApprovalOf, SignedApproved, Audited, NextNonce
  <2>2. CASE ~(token # Missing /\ status[o] = "Approved")
    <3>1. pc'[o] = "failed" /\ UNCHANGED <<signed, approvals>>
        BY <1>15, <2>0, <2>2 DEF AuditAnswered, FlowOK
    <3> QED
        BY <3>1, ApprovalAway
  <2> QED
      BY <2>1, <2>2
<1>16. CASE Sign(o)
  <2>1. CASE Kind[o] = "transaction"
    <3>1. /\ pc'[o] = "next" /\ UNCHANGED approvals /\ pc[o] = "sign"
          /\ AddSigned(o, "call", DigestAddr(o), DigestNonce(o), wallet.owner)
        BY <1>16, <2>1 DEF Sign, FlowOK
    <3>2. Audited(o) \in approvals /\ audit[o].nonce = DigestNonce(o) /\ SignedApproved(o)
        BY <2>1, <3>1 DEF ApprovalOf, DigestNonce
    <3>3. Audited(o).op = o /\ Audited(o).nonce = audit[o].nonce
        BY DEF Audited
    <3>4. SignedApproved(o)'
        BY <3>1, <3>2, <3>3, AddApproved
    <3> QED
        BY <3>1, <3>4 DEF ApprovalOf
  <2>2. CASE Kind[o] # "transaction"
      BY <1>16, <2>2, ApprovalAway DEF Sign, FlowOK
  <2> QED
      BY <2>1, <2>2
<1>17. CASE SignWithoutKey(o)
    BY <1>17, ApprovalAway DEF SignWithoutKey, FlowOK
<1>18. CASE SignFails(o)
    BY <1>18, ApprovalAway DEF SignFails, FlowOK
<1>19. CASE Post(o)
    BY <1>19, ApprovalAway DEF Post, FlowOK
<1>20. CASE RelayerTakes(o)
    BY <1>20, ApprovalAway DEF RelayerTakes, FlowOK
<1>21. CASE RelayerAnswerLost(o)
    BY <1>21, ApprovalAway DEF RelayerAnswerLost, FlowOK
<1>22. CASE RelayerRefuses(o)
    BY <1>22, ApprovalAway DEF RelayerRefuses, FlowOK
<1>23. CASE Poll(o)
    BY <1>23, ApprovalAway DEF Poll, FlowOK
<1>24. CASE PollFails(o)
    BY <1>24, ApprovalAway DEF PollFails, FlowOK
<1>25. CASE WaitTimesOut(o)
    BY <1>25, ApprovalAway DEF WaitTimesOut, FlowOK
<1> QED
    BY <1>1, <1>2, <1>3, <1>4, <1>5, <1>6, <1>7, <1>8, <1>9, <1>10, <1>11, <1>12, <1>13, <1>14, <1>15, <1>16, <1>17, <1>18, <1>19, <1>20, <1>21, <1>22, <1>23, <1>24, <1>25 DEF OpStep, OpFails

\* No step takes an approval away.
LEMMA ApprovalsGrow ==
    ASSUME NEW o \in Ops, Begin(o) \/ OpStep(o) \/ OpFails(o)
    PROVE  approvals \subseteq approvals'
BY DEF OpStep, OpFails, Begin, Prepare, MakePlan, PlanFails, MakeRawCall, Send, Network, NetworkFails, ReadNonce, TakeDeploy, SignSync, RequestAudit, BackendAudits, AuditFails, AuditAnswered, Sign, SignWithoutKey, SignFails, Post, RelayerTakes, RelayerAnswerLost, RelayerRefuses, Poll, PollFails, WaitTimesOut

\* The invariant is inductive.
LEMMA NextApproval == PartsOK /\ ApprovalOK /\ [Next]_vars => ApprovalOK'
<1> SUFFICES ASSUME PartsOK, ApprovalOK, [Next]_vars, NEW p \in Ops
             PROVE  ApprovalOf(p)'
    BY DEF ApprovalOK
<1>0. ApprovalOf(p)
    BY DEF ApprovalOK
<1>1. CASE \E o \in Ops : Begin(o) \/ OpStep(o) \/ OpFails(o)
  <2>1. PICK o \in Ops : Begin(o) \/ OpStep(o) \/ OpFails(o)
      BY <1>1
  <2>2. CASE p = o
      BY <1>0, <2>1, <2>2, OpApproval
  <2>3. CASE p # o
      BY <1>0, <2>1, <2>3, OthersAlone, ApprovalsGrow, ApprovalFrame
  <2> QED
      BY <2>2, <2>3
<1>2. CASE UNCHANGED <<pc, status, audit, nonce, signed, approvals>>
    BY <1>0, <1>2, ApprovalFrame
<1>3. CASE \/ \E o \in Ops : Mine(o)
           \/ SetAccountInfo \/ ViewWallet \/ StoreToken \/ ForeignCall
    BY <1>2, <1>3 DEF Mine, SetAccountInfo, ViewWallet, StoreToken, ForeignCall
<1>4. CASE UNCHANGED vars
    BY <1>2, <1>4 DEF vars
<1> QED
    BY <1>1, <1>3, <1>4 DEF Next

LEMMA ApprovalInvariant == Spec => []ApprovalOK
<1>1. Init => ApprovalOK
    BY DEF Init, ApprovalOK, ApprovalOf, SignedApproved
<1> QED
    BY <1>1, NextApproval, TypeAndAddress, PTL DEF Spec

\* Whoever logs in or out, whatever is refused, lost or stored meanwhile: a call of
\* the user that the relayer has (sendSignedTransactions) carries a nonce for which
\* the audit (preSignFunc) approved a call of this operation.
THEOREM SentTheorem == Spec => []SentWasApproved
<1>1. ApprovalOK /\ PartsOK => SentWasApproved
    BY DEF ApprovalOK, ApprovalOf, SignedApproved, SentWasApproved, PartsOK, BackendOK
<1> QED
    BY <1>1, ApprovalInvariant, TypeAndAddress, PTL

-----------------------------------------------------------------------------
(* Without a switch of accounts.                                           *)

\* A step that leaves an operation and the page's address alone keeps it there.
LEMMA AccountFrame ==
    ASSUME NEW p \in Ops, AccountOf(p), UNCHANGED account,
           wallet' = wallet \/ wallet'.address = account,
           pc'[p] = pc[p], user'[p] = user[p], audit'[p] = audit[p]
    PROVE  AccountOf(p)'
BY DEF AccountOf

\* A handler gives the page's wallets at most the account's address.
LEMMA OpWallet ==
    ASSUME PartsOK, NEW o \in Ops, AccountOf(o), Begin(o) \/ OpStep(o) \/ OpFails(o)
    PROVE  UNCHANGED account /\ (wallet' = wallet \/ wallet'.address = account)
<1>1. CASE Prepare(o)
    BY <1>1 DEF Prepare, GetInstance, AccountOf
<1>2. CASE Send(o)
    BY <1>2 DEF Send, GetInstance
<1>3. CASE Begin(o) \/ OpFails(o)
    BY <1>3 DEF Begin, OpFails, PlanFails, NetworkFails, AuditFails, SignFails,
                RelayerRefuses, RelayerAnswerLost, PollFails
<1>4. CASE MakePlan(o) \/ MakeRawCall(o) \/ Network(o) \/ ReadNonce(o)
    BY <1>4 DEF MakePlan, MakeRawCall, Network, ReadNonce
<1>5. CASE TakeDeploy(o) \/ SignSync(o) \/ RequestAudit(o) \/ BackendAudits(o)
    BY <1>5 DEF TakeDeploy, SignSync, RequestAudit, BackendAudits
<1>6. CASE AuditAnswered(o) \/ Sign(o) \/ SignWithoutKey(o) \/ Post(o)
    BY <1>6 DEF AuditAnswered, Sign, SignWithoutKey, Post
<1>7. CASE RelayerTakes(o) \/ Poll(o) \/ WaitTimesOut(o)
    BY <1>7 DEF RelayerTakes, Poll, WaitTimesOut
<1> QED
    BY <1>1, <1>2, <1>3, <1>4, <1>5, <1>6, <1>7 DEF OpStep

LEMMA OthersKeepUser ==
    ASSUME PartsOK, NEW o \in Ops, NEW p \in Ops \ {o}, Begin(o) \/ OpStep(o) \/ OpFails(o)
    PROVE  user'[p] = user[p]
<1>1. CASE Begin(o)
    BY <1>1 DEF Begin, PartsOK, RouteOK
<1>2. CASE ~Begin(o)
    BY <1>2 DEF OpStep, OpFails, Prepare, MakePlan, PlanFails, MakeRawCall, Send, Network, NetworkFails, ReadNonce, TakeDeploy, SignSync, RequestAudit, BackendAudits, AuditFails, AuditAnswered, Sign, SignWithoutKey, SignFails, Post, RelayerTakes, RelayerAnswerLost, RelayerRefuses, Poll, PollFails, WaitTimesOut
<1> QED
    BY <1>1, <1>2

\* The handlers keep the operation with the account.
LEMMA OpAccount ==
    ASSUME PartsOK, account \in Accounts, NEW o \in Ops, AccountOf(o),
           Begin(o) \/ OpStep(o) \/ OpFails(o)
    PROVE  AccountOf(o)'
<1> USE DEF PartsOK, FlowOK, RouteOK, AccountOf
<1>0. UNCHANGED account /\ (wallet' = wallet \/ wallet'.address = account)
    BY OpWallet
<1>10. account # NoAccount
    BY ConstantsAssumption
<1>11. CASE Begin(o)
    BY <1>11, <1>10 DEF Begin
<1>12. CASE Prepare(o)
  <2>1. user'[o] = account /\ wallet'.address = account
      BY <1>12 DEF Prepare, GetInstance
  <2>2. pc'[o] = "plan" \/ Kind[o] # "transaction"
      BY <1>12 DEF Prepare
  <2> QED
      BY <1>0, <2>1, <2>2
<1>13. CASE MakePlan(o)
    BY <1>13, <1>0 DEF MakePlan
<1>14. CASE PlanFails(o)
    BY <1>14, <1>0 DEF PlanFails
<1>15. CASE MakeRawCall(o)
  <2>1. pc'[o] \in {"send", "failed"} /\ UNCHANGED <<user, wallet>> /\ pc[o] = "raw"
      BY <1>15 DEF MakeRawCall
  <2> QED
      BY <1>0, <2>1
<1>16. CASE Send(o)
  <2>1. user'[o] = account /\ wallet'.address = account
      BY <1>16, <1>10 DEF Send, GetInstance
  <2>2. pc'[o] \in {"network", "failed"}
      BY <1>16, <1>10 DEF Send
  <2> QED
      BY <1>0, <2>1, <2>2
<1>17. CASE Network(o)
    BY <1>17, <1>0 DEF Network
<1>18. CASE NetworkFails(o)
    BY <1>18, <1>0 DEF NetworkFails
<1>19. CASE ReadNonce(o)
    BY <1>19, <1>0 DEF ReadNonce
<1>20. CASE TakeDeploy(o)
    BY <1>20, <1>0 DEF TakeDeploy
<1>21. CASE SignSync(o)
    BY <1>21, <1>0 DEF SignSync
<1>22. CASE RequestAudit(o)
  <2>1. audit'[o].addr = wallet.address
      BY <1>22 DEF RequestAudit, AuditRequest, AuditOK
  <2> QED
      BY <1>22, <1>0, <2>1 DEF RequestAudit
<1>23. CASE BackendAudits(o)
    BY <1>23, <1>0 DEF BackendAudits
<1>24. CASE AuditFails(o)
    BY <1>24, <1>0 DEF AuditFails
<1>25. CASE AuditAnswered(o)
  <2>1. pc'[o] \in {"sign", "failed"} /\ UNCHANGED <<user, wallet, audit>> /\ pc[o] = "audited"
      BY <1>25 DEF AuditAnswered
  <2> QED
      BY <1>0, <2>1
<1>26. CASE Sign(o)
    BY <1>26, <1>0 DEF Sign
<1>27. CASE SignWithoutKey(o)
    BY <1>27, <1>0 DEF SignWithoutKey
<1>28. CASE SignFails(o)
    BY <1>28, <1>0 DEF SignFails
<1>29. CASE Post(o)
    BY <1>29, <1>0 DEF Post
<1>30. CASE RelayerTakes(o)
    BY <1>30, <1>0 DEF RelayerTakes
<1>31. CASE RelayerAnswerLost(o)
    BY <1>31, <1>0 DEF RelayerAnswerLost
<1>32. CASE RelayerRefuses(o)
    BY <1>32, <1>0 DEF RelayerRefuses
<1>33. CASE Poll(o)
    BY <1>33, <1>0 DEF Poll
<1>34. CASE PollFails(o)
    BY <1>34, <1>0 DEF PollFails
<1>35. CASE WaitTimesOut(o)
    BY <1>35, <1>0 DEF WaitTimesOut
<1> QED
    BY <1>11, <1>12, <1>13, <1>14, <1>15, <1>16, <1>17, <1>18, <1>19, <1>20, <1>21, <1>22, <1>23, <1>24, <1>25, <1>26, <1>27, <1>28, <1>29, <1>30, <1>31, <1>32, <1>33, <1>34, <1>35 DEF OpStep, OpFails

LEMMA NextAccount ==
    ASSUME ~Switching, PartsOK, AccountOK, [Next]_vars
    PROVE  AccountOK'
<1>0. account \in Accounts /\ \A p \in Ops : AccountOf(p)
    BY DEF AccountOK
<1>1. CASE \E o \in Ops : Begin(o) \/ OpStep(o) \/ OpFails(o)
  <2>1. PICK o \in Ops : Begin(o) \/ OpStep(o) \/ OpFails(o)
      BY <1>1
  <2>2. AccountOf(o)'
      BY <1>0, <2>1, OpAccount
  <2>3. UNCHANGED account /\ (wallet' = wallet \/ wallet'.address = account)
      BY <1>0, <2>1, OpWallet
  <2>4. \A p \in Ops \ {o} : AccountOf(p)'
      BY <1>0, <2>1, <2>3, OthersAlone, OthersKeepUser, AccountFrame
  <2> QED
      BY <1>0, <2>2, <2>3, <2>4 DEF AccountOK
<1>2. CASE UNCHANGED <<account, pc, user, audit>>
           /\ (wallet' = wallet \/ wallet'.address = account)
    BY <1>0, <1>2, AccountFrame DEF AccountOK
<1>3. CASE ViewWallet
    BY <1>2, <1>3 DEF ViewWallet, GetInstance
<1>4. CASE \E o \in Ops : Mine(o)
    BY <1>2, <1>4 DEF Mine
<1>5. CASE SetAccountInfo \/ StoreToken \/ ForeignCall \/ UNCHANGED vars
    BY <1>2, <1>5 DEF SetAccountInfo, StoreToken, ForeignCall, vars
<1> QED
    BY <1>1, <1>3, <1>4, <1>5 DEF Next

\* A signature that is added is for the content that was approved.
LEMMA NextSigned ==
    ASSUME PartsOK, ApprovalOK, AccountOK, SignedWasApproved, [Next]_vars
    PROVE  SignedWasApproved'
<1>1. CASE \E o \in Ops : Sign(o)
  <2>1. PICK o \in Ops : Sign(o)
      BY <1>1
  <2>2. Content(o, DigestAddr(o), DigestNonce(o)) = Audited(o)
    <3>1. pc[o] = "sign"
        BY <2>1 DEF Sign
    <3>2. CASE Kind[o] = "transaction"
        BY <3>1, <3>2 DEF Audited, DigestAddr, DigestNonce, ApprovalOK, ApprovalOf, AccountOK,
                                  AccountOf
    <3>3. CASE Kind[o] # "transaction"
        BY <3>3 DEF Audited, DigestAddr, DigestNonce
    <3> QED
        BY <3>2, <3>3
  <2>3. Audited(o) \in approvals /\ UNCHANGED approvals
      BY <2>1 DEF Sign, ApprovalOK, ApprovalOf
  <2>4. sigs' = sigs \cup {[op |-> o, addr |-> DigestAddr(o), nonce |-> DigestNonce(o),
                            owner |-> wallet.owner]}
      BY <2>1 DEF Sign
  <2>5. SUFFICES ASSUME NEW s \in sigs'
                 PROVE  Content(s.op, s.addr, s.nonce) \in approvals
      BY <2>3 DEF SignedWasApproved
  <2>6. CASE s \in sigs
      BY <2>6 DEF SignedWasApproved
  <2>7. CASE s = [op |-> o, addr |-> DigestAddr(o), nonce |-> DigestNonce(o),
                  owner |-> wallet.owner]
    <3>1. s.op = o /\ s.addr = DigestAddr(o) /\ s.nonce = DigestNonce(o)
        BY <2>7
    <3> QED
        BY <2>2, <2>3, <3>1
  <2> QED
      BY <2>4, <2>6, <2>7
<1>2. CASE sigs' = sigs /\ approvals \subseteq approvals'
    BY <1>2 DEF SignedWasApproved
<1>3. CASE \E o \in Ops : (Begin(o) \/ OpStep(o) \/ OpFails(o)) /\ ~Sign(o)
  <2>1. PICK o \in Ops : (Begin(o) \/ OpStep(o) \/ OpFails(o)) /\ ~Sign(o)
      BY <1>3
  <2>2. sigs' = sigs
      BY <2>1 DEF OpStep, OpFails, Begin, Prepare, MakePlan, PlanFails, MakeRawCall, Send, Network, NetworkFails, ReadNonce, TakeDeploy, SignSync, RequestAudit, BackendAudits, AuditFails, AuditAnswered, SignWithoutKey, SignFails, Post, RelayerTakes, RelayerAnswerLost, RelayerRefuses, Poll, PollFails, WaitTimesOut
  <2> QED
      BY <1>2, <2>1, <2>2, ApprovalsGrow
<1>4. CASE \/ \E o \in Ops : Mine(o)
           \/ SetAccountInfo \/ ViewWallet \/ StoreToken \/ ForeignCall \/ UNCHANGED vars
    BY <1>2, <1>4 DEF Mine, SetAccountInfo, ViewWallet, StoreToken, ForeignCall, vars
<1> QED
    BY <1>1, <1>3, <1>4 DEF Next

\* As long as nobody logs in or out while calls run, everything the master key signs
\* (signRawMainExecuteCall, signMessage) is a content the audit has approved, however
\* the operations interleave and although wallet() may replace the keyset at any time.
THEOREM SignedTheorem == ASSUME ~Switching PROVE Spec => []SignedWasApproved
<1>1. Init => AccountOK /\ SignedWasApproved
    BY DEF Init, AccountOK, AccountOf, SignedWasApproved
<1>2. PartsOK /\ ApprovalOK /\ AccountOK /\ SignedWasApproved /\ [Next]_vars
        => AccountOK' /\ SignedWasApproved'
    BY NextAccount, NextSigned
<1> QED
    BY <1>1, <1>2, ApprovalInvariant, TypeAndAddress, PTL DEF Spec

-----------------------------------------------------------------------------
(* The promise.                                                            *)

\* What an operation has got to by the stage it is at.
StageOf(o) ==
    /\ pc[o] \notin {"done", "failed"} => result[o] = "none"
    /\ o \in sent => pc[o] \in {"wait", "done", "failed"}
    /\ pc[o] \in {"idle", "user", "plan"} => plan[o] = <<>> /\ signed[o] = <<>>
    /\ pc[o] = "audit" => ~IsUpkeep(o)
    /\ pc[o] \in {"send", "network", "nonce", "next", "posted"} => plan[o] # <<>>
    /\ pc[o] \in {"audit", "audited", "sign"} /\ Kind[o] = "transaction"
          => MoreToSign(o) /\ NextKind(o) = "call" /\ plan[o] # <<>>
    /\ pc[o] = "posted" => ~MoreToSign(o)

\* The signed calls are the parts of the plan, in its order.
FollowsPlan(o) ==
    \A i \in DOMAIN signed[o] : i \in DOMAIN plan[o] => signed[o][i].kind = plan[o][i]

StagesOK == \A o \in Ops : StageOf(o) /\ FollowsPlan(o)

\* A handler leaves the report and the plan of other operations alone.
LEMMA OthersUnreported ==
    ASSUME PartsOK, NEW o \in Ops, NEW p \in Ops \ {o}, Begin(o) \/ OpStep(o) \/ OpFails(o)
    PROVE  /\ result'[p] = result[p] /\ plan'[p] = plan[p]
           /\ p \in sent' <=> p \in sent
<1> USE DEF PartsOK, FlowOK, RouteOK
<1>1. CASE Begin(o)
    BY <1>1 DEF Begin
<1>2. CASE OpFails(o)
    BY <1>2 DEF OpFails, PlanFails, NetworkFails, AuditFails, SignFails,
                RelayerRefuses, RelayerAnswerLost, PollFails
<1>3. CASE Prepare(o) \/ MakePlan(o) \/ Network(o)
    BY <1>3 DEF Prepare, MakePlan, Network
<1>4. CASE MakeRawCall(o) \/ Send(o)
    BY <1>4 DEF MakeRawCall, Send
<1>5. CASE ReadNonce(o) \/ TakeDeploy(o) \/ SignSync(o) \/ RequestAudit(o) \/ BackendAudits(o)
    BY <1>5 DEF ReadNonce, TakeDeploy, SignSync, RequestAudit, BackendAudits
<1>6. CASE AuditAnswered(o) \/ Sign(o) \/ SignWithoutKey(o)
    BY <1>6 DEF AuditAnswered, Sign, SignWithoutKey
<1>7. CASE Post(o) \/ RelayerTakes(o) \/ Poll(o) \/ WaitTimesOut(o)
    BY <1>7 DEF Post, RelayerTakes, Poll, WaitTimesOut
<1> QED
    BY <1>1, <1>2, <1>3, <1>4, <1>5, <1>6, <1>7 DEF OpStep

\* A step that leaves an operation alone leaves it at its stage.
LEMMA StageFrame ==
    ASSUME NEW p \in Ops, StageOf(p), FollowsPlan(p), pc'[p] = pc[p], result'[p] = result[p],
           plan'[p] = plan[p], signed'[p] = signed[p], p \in sent' <=> p \in sent
    PROVE  StageOf(p)' /\ FollowsPlan(p)'
<1>1. StageOf(p)'
    BY DEF StageOf, IsUpkeep, MoreToSign, NextKind
<1>2. FollowsPlan(p)'
    BY DEF FollowsPlan
<1> QED
    BY <1>1, <1>2

\* A signed call whose kind is the next of the plan follows it.
LEMMA AddFollows ==
    ASSUME SignedOK, NEW o \in Ops, NEW addr, NEW n, NEW owner, FollowsPlan(o), plan'[o] = plan[o],
           AddSigned(o, NextKind(o), addr, n, owner)
    PROVE  FollowsPlan(o)'
<1> DEFINE s == [kind |-> NextKind(o), addr |-> addr, nonce |-> n, owner |-> owner]
<1>1. signed'[o] = Append(signed[o], s)
    BY DEF AddSigned, SignedOK
<1>2. signed[o] \in Seq(Signed)
    BY DEF SignedOK
<1>3. s.kind = plan[o][Len(signed[o]) + 1]
    BY DEF NextKind
<1> HIDE DEF s
<1>4. \A i \in DOMAIN signed'[o] : \/ i \in DOMAIN signed[o] /\ signed'[o][i] = signed[o][i]
                                   \/ i = Len(signed[o]) + 1 /\ signed'[o][i] = s
    BY <1>1, <1>2
<1> QED
    BY <1>3, <1>4 DEF FollowsPlan

\* The handlers of an operation take it from stage to stage.
LEMMA OpStage ==
    ASSUME PartsOK, NEW o \in Ops, StageOf(o), FollowsPlan(o), Begin(o) \/ OpStep(o) \/ OpFails(o)
    PROVE  StageOf(o)' /\ FollowsPlan(o)'
<1> USE DEF PartsOK, FlowOK, RouteOK
<1>0. ASSUME UNCHANGED <<plan, signed>> PROVE FollowsPlan(o)'
    BY <1>0 DEF FollowsPlan
<1>f. ASSUME pc'[o] \in {"done", "failed"}, UNCHANGED <<plan, signed>>
      PROVE  StageOf(o)' /\ FollowsPlan(o)'
    BY <1>0, <1>f DEF StageOf
<1>1. CASE Begin(o)
  <2>1. \/ pc'[o] = "user" /\ UNCHANGED <<result, plan, signed, sent>> /\ pc[o] = "idle"
        \/ pc'[o] = "failed" /\ UNCHANGED <<plan, signed>>
      BY <1>1 DEF Begin
  <2> QED
      BY <1>0, <1>f, <2>1 DEF StageOf
<1>2. CASE Prepare(o)
  <2>1. /\ pc[o] = "user" /\ UNCHANGED <<result, plan, signed, sent>>
        /\ (pc'[o] = "plan" \/ (pc'[o] = "audit" /\ Kind[o] # "transaction"))
      BY <1>2 DEF Prepare
  <2>2. pc'[o] = "audit" => ~IsUpkeep(o)'
      BY <2>1 DEF StageOf, IsUpkeep
  <2> QED
      BY <1>0, <2>1, <2>2 DEF StageOf
<1>3. CASE MakePlan(o)
  <2>1. pc'[o] = "raw" /\ UNCHANGED <<result, signed, sent>> /\ pc[o] = "plan"
      BY <1>3 DEF MakePlan
  <2> QED
      BY <2>1 DEF StageOf, FollowsPlan
<1>4. CASE OpFails(o)
    BY <1>4, <1>f DEF OpFails, PlanFails, NetworkFails, AuditFails, SignFails,
                RelayerRefuses, RelayerAnswerLost, PollFails
<1>5. CASE MakeRawCall(o)
  <2>1. \/ pc'[o] = "send" /\ UNCHANGED <<result, plan, signed, sent>> /\ pc[o] = "raw" /\ plan[o] # <<>>
        \/ pc'[o] = "failed" /\ UNCHANGED <<plan, signed>>
      BY <1>5 DEF MakeRawCall
  <2> QED
      BY <1>0, <1>f, <2>1 DEF StageOf
<1>6. CASE Send(o)
  <2>1. \/ pc'[o] = "network" /\ UNCHANGED <<result, plan, signed, sent>> /\ pc[o] = "send"
        \/ pc'[o] = "failed" /\ UNCHANGED <<plan, signed>>
      BY <1>6 DEF Send
  <2> QED
      BY <1>0, <1>f, <2>1 DEF StageOf
<1>7. CASE Network(o) \/ ReadNonce(o)
  <2>1. /\ pc[o] \in {"network", "nonce"} /\ pc'[o] \in {"nonce", "next"}
        /\ UNCHANGED <<result, plan, signed, sent>>
      BY <1>7 DEF Network, ReadNonce
  <2> QED
      BY <1>0, <2>1 DEF StageOf
<1>8. CASE TakeDeploy(o)
  <2>1. pc'[o] = "next" /\ UNCHANGED <<result, plan, sent>> /\ pc[o] = "next"
      BY <1>8 DEF TakeDeploy
  <2>2. FollowsPlan(o)'
      BY <1>8, <2>1, AddFollows DEF TakeDeploy
  <2> QED
      BY <2>1, <2>2 DEF StageOf
<1>9. CASE SignSync(o)
  <2>1. pc'[o] = "next" /\ UNCHANGED <<result, plan, sent>> /\ pc[o] = "next"
      BY <1>9 DEF SignSync
  <2>2. FollowsPlan(o)'
      BY <1>9, <2>1, AddFollows DEF SignSync
  <2> QED
      BY <2>1, <2>2 DEF StageOf
<1>10. CASE RequestAudit(o)
  <2>1. /\ pc'[o] = "audit" /\ UNCHANGED <<result, plan, signed, sent>> /\ pc[o] = "next"
        /\ MoreToSign(o) /\ NextKind(o) = "call"
      BY <1>10 DEF RequestAudit
  <2>2. ~IsUpkeep(o)
      BY <2>1, NotUpkeep
  <2>3. ~IsUpkeep(o)' /\ MoreToSign(o)' /\ NextKind(o)' = "call"
      BY <2>1, <2>2 DEF IsUpkeep, MoreToSign, NextKind
  <2> QED
      BY <1>0, <2>1, <2>3 DEF StageOf
<1>11. CASE BackendAudits(o)
  <2>1. pc'[o] = "audited" /\ UNCHANGED <<result, plan, signed, sent>> /\ pc[o] = "audit"
      BY <1>11 DEF BackendAudits
  <2> QED
      BY <1>0, <2>1 DEF StageOf, MoreToSign, NextKind
<1>12. CASE AuditAnswered(o)
  <2>1. \/ pc'[o] = "sign" /\ UNCHANGED <<result, plan, signed, sent>> /\ pc[o] = "audited"
        \/ pc'[o] = "failed" /\ UNCHANGED <<plan, signed>>
      BY <1>12 DEF AuditAnswered
  <2> QED
      BY <1>0, <1>f, <2>1 DEF StageOf, MoreToSign, NextKind
<1>13. CASE Sign(o)
  <2>1. CASE Kind[o] = "transaction"
    <3>1. /\ pc'[o] = "next" /\ UNCHANGED <<result, plan, sent>> /\ pc[o] = "sign"
          /\ AddSigned(o, "call", DigestAddr(o), DigestNonce(o), wallet.owner)
        BY <1>13, <2>1 DEF Sign
    <3>2. NextKind(o) = "call" /\ plan[o] # <<>>
        BY <2>1, <3>1 DEF StageOf
    <3>3. FollowsPlan(o)'
        BY <3>1, <3>2, AddFollows
    <3> QED
        BY <3>1, <3>2, <3>3 DEF StageOf
  <2>2. CASE Kind[o] # "transaction"
      BY <1>13, <2>2, <1>f DEF Sign
  <2> QED
      BY <2>1, <2>2
<1>14. CASE SignWithoutKey(o) \/ WaitTimesOut(o)
    BY <1>14, <1>f DEF SignWithoutKey, WaitTimesOut
<1>15. CASE Post(o)
  <2>1. pc'[o] = "posted" /\ UNCHANGED <<result, plan, signed, sent>> /\ pc[o] = "next" /\ ~MoreToSign(o)
      BY <1>15 DEF Post
  <2> QED
      BY <1>0, <2>1 DEF StageOf, MoreToSign
<1>16. CASE RelayerTakes(o)
  <2>1. pc'[o] = "wait" /\ UNCHANGED <<result, plan, signed>> /\ pc[o] = "posted"
      BY <1>16 DEF RelayerTakes
  <2> QED
      BY <1>0, <2>1 DEF StageOf
<1>17. CASE Poll(o)
  <2>1. pc[o] = "wait" /\ UNCHANGED <<plan, signed, sent>>
        /\ (pc'[o] = "done" \/ UNCHANGED <<pc, result>>)
      BY <1>17 DEF Poll
  <2> QED
      BY <1>0, <1>f, <2>1 DEF StageOf
<1> QED
    BY <1>1, <1>2, <1>3, <1>4, <1>5, <1>6, <1>7, <1>8, <1>9, <1>10, <1>11, <1>12, <1>13, <1>14,
       <1>15, <1>16, <1>17 DEF OpStep

LEMMA NextStages == PartsOK /\ StagesOK /\ [Next]_vars => StagesOK'
<1> SUFFICES ASSUME PartsOK, StagesOK, [Next]_vars, NEW p \in Ops
             PROVE  StageOf(p)' /\ FollowsPlan(p)'
    BY DEF StagesOK
<1>0. StageOf(p) /\ FollowsPlan(p)
    BY DEF StagesOK
<1>1. CASE \E o \in Ops : Begin(o) \/ OpStep(o) \/ OpFails(o)
  <2>1. PICK o \in Ops : Begin(o) \/ OpStep(o) \/ OpFails(o)
      BY <1>1
  <2>2. CASE p = o
      BY <1>0, <2>1, <2>2, OpStage
  <2>3. CASE p # o
      BY <1>0, <2>1, <2>3, OthersAlone, OthersUnreported, StageFrame
  <2> QED
      BY <2>2, <2>3
<1>2. CASE UNCHANGED <<pc, result, plan, signed, sent>>
    BY <1>0, <1>2, StageFrame
<1>3. CASE \E o \in Ops : Mine(o)
    BY <1>2, <1>3 DEF Mine
<1>4. CASE SetAccountInfo \/ ViewWallet \/ StoreToken \/ ForeignCall \/ UNCHANGED vars
    BY <1>2, <1>4 DEF SetAccountInfo, ViewWallet, StoreToken, ForeignCall, vars
<1> QED
    BY <1>1, <1>3, <1>4 DEF Next

LEMMA StageInvariant == Spec => []StagesOK
<1>1. Init => StagesOK
    BY DEF Init, StagesOK, StageOf, FollowsPlan
<1> QED
    BY <1>1, NextStages, TypeAndAddress, PTL DEF Spec

\* What the caller knows depends on the operation's result and on whether it waits.
LEMMA ReportKept ==
    ASSUME NEW p \in Ops, result'[p] = result[p], pc'[p] = "wait" <=> pc[p] = "wait"
    PROVE  Report(p)' = Report(p)
BY DEF Report

LEMMA ReportIs ==
    ASSUME NEW p \in Ops
    PROVE  /\ result[p] = "none" /\ pc[p] # "wait" => Report(p) = "open"
           /\ result[p] = "none" /\ pc[p] = "wait" => Report(p) = "pending"
           /\ result[p] \in {"refused", "error"} => Report(p) = "rejected"
           /\ result[p] \in {"receipt", "signature"} => Report(p) = "answered"
           /\ result[p] \in {"unknown", "timeout"} => Report(p) = "lost"
BY DEF Report

LEMMA ReportWillBe ==
    ASSUME NEW p \in Ops
    PROVE  /\ result'[p] = "none" /\ pc'[p] # "wait" => Report(p)' = "open"
           /\ result'[p] = "none" /\ pc'[p] = "wait" => Report(p)' = "pending"
           /\ result'[p] \in {"refused", "error"} => Report(p)' = "rejected"
           /\ result'[p] \in {"receipt", "signature"} => Report(p)' = "answered"
           /\ result'[p] \in {"unknown", "timeout"} => Report(p)' = "lost"
BY DEF Report

\* The others' reports stay, and one moves.
OneReports(o, before, after) ==
    /\ Report(o) = before /\ Report(o)' = after
    /\ \A p \in Ops \ {o} : Report(p)' = Report(p)

LEMMA MoveIs ==
    ASSUME NEW o \in Ops, NEW before, NEW after, OneReports(o, before, after)
    PROVE  Promise!Move(o, before, after)
BY DEF Promise!Move, OneReports

\* The promise's other variables.
Upkeeps == {o \in Ops : IsUpkeep(o)}
Consented == {c.op : c \in approvals}

\* What a step of the promise is, in the pipeline's variables.
LEMMA Quiet ==
    ASSUME \A p \in Ops : Report(p)' = Report(p), UNCHANGED <<plan, approvals, sent, mined>>
    PROVE  UNCHANGED Promise!vars
BY DEF Promise!vars, IsUpkeep

LEMMA RejectIs ==
    ASSUME NEW o \in Ops, OneReports(o, "open", "rejected"), o \notin sent,
           UNCHANGED <<plan, approvals, sent, mined>>
    PROVE  Promise!Next
<1>1. Promise!Reject(o)
    BY MoveIs DEF Promise!Reject, IsUpkeep
<1> QED
    BY <1>1 DEF Promise!Next

LEMMA LoseIs ==
    ASSUME NEW o \in Ops, OneReports(o, "open", "lost") \/ OneReports(o, "pending", "lost"),
           UNCHANGED <<plan, approvals, sent, mined>>
    PROVE  Promise!Next
<1>1. Promise!Lose(o)
    BY MoveIs DEF Promise!Lose, IsUpkeep
<1> QED
    BY <1>1 DEF Promise!Next

LEMMA TakeIs ==
    ASSUME NEW o \in Ops, OneReports(o, "open", "lost") \/ OneReports(o, "open", "pending"),
           o \in Consented \cup Upkeeps, sent' = sent \cup {o},
           UNCHANGED <<plan, approvals, mined>>
    PROVE  Promise!Next
<1>1. Promise!Take(o)
    BY MoveIs DEF Promise!Take, IsUpkeep, Consented, Upkeeps
<1> QED
    BY <1>1 DEF Promise!Next

LEMMA CertifyIs ==
    ASSUME NEW o \in Ops, OneReports(o, "open", "answered"), o \in Consented,
           UNCHANGED <<plan, approvals, sent, mined>>
    PROVE  Promise!Next
<1>1. Promise!Certify(o)
    BY MoveIs DEF Promise!Certify, IsUpkeep, Consented
<1> QED
    BY <1>1 DEF Promise!Next

LEMMA ReceiptIs ==
    ASSUME NEW o \in Ops, OneReports(o, "pending", "answered"), mined[o] # "no",
           UNCHANGED <<plan, approvals, sent, mined>>
    PROVE  Promise!Next
<1>1. Promise!Receipt(o)
    BY MoveIs DEF Promise!Receipt, IsUpkeep
<1> QED
    BY <1>1 DEF Promise!Next

LEMMA ConsentIs ==
    ASSUME NEW o \in Ops, \A p \in Ops : Report(p)' = Report(p), Report(o) = "open", ~IsUpkeep(o),
           NEW c, c.op = o, approvals' = approvals \cup {c}, UNCHANGED <<plan, sent, mined>>
    PROVE  Promise!Next
<1>1. Consented' = Consented \cup {o}
    BY DEF Consented
<1>2. Promise!Consent(o)
    BY <1>1 DEF Promise!Consent, IsUpkeep, Consented
<1> QED
    BY <1>2 DEF Promise!Next

\* Making a plan that only keeps up the wallet, or another one.
LEMMA PlanIs ==
    ASSUME NEW o \in Ops, \A p \in Ops : Report(p)' = Report(p), Report(o) = "open",
           plan[o] = <<>>, \A p \in Ops \ {o} : plan'[p] = plan[p], o \notin sent,
           UNCHANGED <<approvals, sent, mined>>
    PROVE  Promise!Next \/ UNCHANGED Promise!vars
<1>1. o \notin Upkeeps
    BY DEF Upkeeps, IsUpkeep
<1>2. \A p \in Ops \ {o} : IsUpkeep(p)' <=> IsUpkeep(p)
    BY DEF IsUpkeep
<1>3. CASE IsUpkeep(o)'
  <2>1. Upkeeps' = Upkeeps \cup {o}
      BY <1>2, <1>3 DEF Upkeeps
  <2>2. Promise!NeedsNoConsent(o)
      BY <2>1 DEF Promise!NeedsNoConsent, Upkeeps
  <2> QED
      BY <2>2 DEF Promise!Next
<1>4. CASE ~IsUpkeep(o)'
  <2>1. Upkeeps' = Upkeeps
      BY <1>1, <1>2, <1>4 DEF Upkeeps
  <2> QED
      BY <2>1 DEF Promise!vars, Upkeeps
<1> QED
    BY <1>3, <1>4

\* Calls that reach the relayer are upkeep or were approved.
LEMMA PostedHasConsent ==
    ASSUME PartsOK, NEW o \in Ops, StageOf(o), FollowsPlan(o), SignedApproved(o), pc[o] = "posted"
    PROVE  o \in Consented \cup Upkeeps
<1>1. plan[o] # <<>> /\ ~MoreToSign(o) /\ plan[o] \in Plans /\ signed[o] \in Seq(Signed)
    BY DEF StageOf, PartsOK, RouteOK, SignedOK
<1>2. CASE plan[o] \in Upkeep
    BY <1>2 DEF Upkeep, Upkeeps, IsUpkeep
<1>3. CASE \E i \in DOMAIN plan[o] : plan[o][i] = "call"
  <2>1. PICK i \in DOMAIN plan[o] : plan[o][i] = "call"
      BY <1>3
  <2>2. plan[o] \in Seq(Parts)
      BY <1>1, PlanShape
  <2>3. i \in 1..Len(plan[o]) /\ Len(plan[o]) \in Nat /\ Len(signed[o]) \in Nat
        /\ DOMAIN signed[o] = 1..Len(signed[o])
      BY <1>1, <2>1, <2>2, LenProperties
  <2>4. i \in DOMAIN signed[o]
      BY <1>1, <2>3 DEF MoreToSign
  <2>5. signed[o][i].kind = "call"
      BY <2>1, <2>4 DEF FollowsPlan
  <2> QED
      BY <2>4, <2>5 DEF SignedApproved, Consented
<1> QED
    BY <1>1, <1>2, <1>3, PlanShape

\* A handler moves the report of its own operation alone.
LEMMA OpReports ==
    ASSUME PartsOK, NEW o \in Ops, Begin(o) \/ OpStep(o) \/ OpFails(o),
           NEW before, NEW after, Report(o) = before, Report(o)' = after
    PROVE  OneReports(o, before, after)
<1> SUFFICES ASSUME NEW p \in Ops \ {o}
             PROVE  Report(p)' = Report(p)
    BY DEF OneReports
<1>1. pc'[p] = pc[p] /\ result'[p] = result[p]
    BY OthersAlone, OthersUnreported
<1> QED
    BY <1>1, ReportKept

\* Every handler is a step of the promise, or none.
LEMMA OpPromises ==
    ASSUME PartsOK, NEW o \in Ops, ApprovalOf(o), StageOf(o), FollowsPlan(o),
           Begin(o) \/ OpStep(o) \/ OpFails(o)
    PROVE  Promise!Next \/ UNCHANGED Promise!vars
<1> USE DEF PartsOK, FlowOK
<1> DEFINE same == UNCHANGED <<plan, approvals, sent, mined>>
<1>0. ASSUME Report(o)' = Report(o) PROVE \A p \in Ops : Report(p)' = Report(p)
    BY <1>0, OpReports DEF OneReports
<1>q. ASSUME result'[o] = result[o], pc'[o] = "wait" <=> pc[o] = "wait", same
      PROVE  UNCHANGED Promise!vars
    BY <1>0, <1>q, ReportKept, Quiet
<1>r. ASSUME pc[o] \notin {"wait", "done", "failed"}, result'[o] \in {"error", "refused"}, same
      PROVE  Promise!Next
  <2>1. Report(o) = "open" /\ Report(o)' = "rejected" /\ o \notin sent
      BY <1>r, ReportIs, ReportWillBe DEF StageOf
  <2> QED
      BY <1>r, <2>1, OpReports, RejectIs
<1>1. CASE Begin(o)
  <2>1. /\ pc[o] = "idle" /\ same
        /\ \/ pc'[o] = "user" /\ UNCHANGED result
           \/ result'[o] = "error"
      BY <1>1 DEF Begin
  <2> QED
      BY <1>q, <1>r, <2>1
<1>2. CASE Prepare(o)
  <2>1. pc[o] = "user" /\ same /\ pc'[o] \in {"plan", "audit"} /\ UNCHANGED result
      BY <1>2 DEF Prepare
  <2> QED
      BY <1>q, <2>1
<1>3. CASE MakePlan(o)
  <2>1. /\ pc[o] = "plan" /\ pc'[o] = "raw" /\ UNCHANGED <<result, approvals, sent, mined>>
      BY <1>3 DEF MakePlan
  <2>2. \A p \in Ops \ {o} : plan'[p] = plan[p]
      BY OthersUnreported
  <2>3. Report(o) = "open" /\ Report(o)' = "open" /\ plan[o] = <<>> /\ o \notin sent
      BY <2>1, ReportIs, ReportWillBe DEF StageOf
  <2> QED
      BY <1>0, <2>1, <2>2, <2>3, PlanIs
<1>4. CASE PlanFails(o) \/ NetworkFails(o) \/ AuditFails(o) \/ SignFails(o) \/ SignWithoutKey(o)
  <2>1. pc[o] \in {"plan", "network", "audit", "audited", "sign"} /\ result'[o] = "error" /\ same
      BY <1>4 DEF PlanFails, NetworkFails, AuditFails, SignFails, SignWithoutKey
  <2> QED
      BY <1>r, <2>1
<1>5. CASE MakeRawCall(o)
  <2>1. /\ pc[o] = "raw" /\ same
        /\ \/ pc'[o] = "send" /\ UNCHANGED result
           \/ result'[o] = "error"
      BY <1>5 DEF MakeRawCall
  <2> QED
      BY <1>q, <1>r, <2>1
<1>6. CASE Send(o)
  <2>1. /\ pc[o] = "send" /\ same
        /\ \/ pc'[o] = "network" /\ UNCHANGED result
           \/ result'[o] = "error"
      BY <1>6 DEF Send
  <2> QED
      BY <1>q, <1>r, <2>1
<1>7. CASE Network(o) \/ ReadNonce(o) \/ RequestAudit(o) \/ Post(o)
  <2>1. /\ pc[o] \in {"network", "nonce", "next"} /\ same /\ UNCHANGED result
        /\ pc'[o] \in {"nonce", "next", "audit", "posted"}
      BY <1>7 DEF Network, ReadNonce, RequestAudit, Post
  <2> QED
      BY <1>q, <2>1
<1>8. CASE TakeDeploy(o) \/ SignSync(o)
  <2>1. same /\ UNCHANGED <<result, pc>>
      BY <1>8 DEF TakeDeploy, SignSync
  <2> QED
      BY <1>q, <2>1
<1>9. CASE BackendAudits(o)
  <2>1. /\ pc[o] = "audit" /\ pc'[o] = "audited" /\ UNCHANGED <<result, plan, sent, mined>>
        /\ approvals' = approvals \cup {Audited(o)} \/ UNCHANGED approvals
      BY <1>9 DEF BackendAudits, Audited
  <2>2. Report(o) = "open" /\ Report(o)' = "open" /\ ~IsUpkeep(o)
      BY <2>1, ReportIs, ReportWillBe DEF StageOf
  <2>3. Audited(o).op = o
      BY DEF Audited
  <2> QED
      BY <1>0, <1>q, <2>1, <2>2, <2>3, ConsentIs
<1>10. CASE AuditAnswered(o)
  <2>1. /\ pc[o] = "audited" /\ same
        /\ \/ pc'[o] = "sign" /\ UNCHANGED result
           \/ result'[o] \in {"error", "refused"}
      BY <1>10 DEF AuditAnswered
  <2> QED
      BY <1>q, <1>r, <2>1
<1>11. CASE Sign(o)
  <2>1. pc[o] = "sign" /\ same
      BY <1>11 DEF Sign
  <2>2. CASE Kind[o] = "transaction"
    <3>1. pc'[o] = "next" /\ UNCHANGED result
        BY <1>11, <2>2 DEF Sign
    <3> QED
        BY <1>q, <2>1, <3>1
  <2>3. CASE Kind[o] # "transaction"
    <3>1. result'[o] = "signature"
        BY <1>11, <2>3 DEF Sign
    <3>2. Report(o) = "open" /\ Report(o)' = "answered"
        BY <2>1, <3>1, ReportIs, ReportWillBe DEF StageOf
    <3>3. o \in Consented
        BY <2>1 DEF ApprovalOf, Audited, Consented
    <3> QED
        BY <2>1, <3>2, <3>3, OpReports, CertifyIs
  <2> QED
      BY <2>2, <2>3
<1>12. CASE RelayerTakes(o)
  <2>1. /\ pc[o] = "posted" /\ pc'[o] = "wait" /\ sent' = sent \cup {o}
        /\ UNCHANGED <<result, plan, approvals, mined>>
      BY <1>12 DEF RelayerTakes
  <2>2. Report(o) = "open" /\ Report(o)' = "pending"
      BY <2>1, ReportIs, ReportWillBe DEF StageOf
  <2>3. o \in Consented \cup Upkeeps
      BY <2>1, PostedHasConsent DEF ApprovalOf
  <2> QED
      BY <2>1, <2>2, <2>3, OpReports, TakeIs
<1>13. CASE RelayerAnswerLost(o)
  <2>1. /\ pc[o] = "posted" /\ result'[o] = "unknown" /\ sent' = sent \cup {o}
        /\ UNCHANGED <<plan, approvals, mined>>
      BY <1>13 DEF RelayerAnswerLost
  <2>2. Report(o) = "open" /\ Report(o)' = "lost"
      BY <2>1, ReportIs, ReportWillBe DEF StageOf
  <2>3. o \in Consented \cup Upkeeps
      BY <2>1, PostedHasConsent DEF ApprovalOf
  <2> QED
      BY <2>1, <2>2, <2>3, OpReports, TakeIs
<1>14. CASE RelayerRefuses(o) \/ PollFails(o) \/ WaitTimesOut(o)
  <2>1. pc[o] \in {"posted", "wait"} /\ result'[o] \in {"unknown", "timeout"} /\ same
      BY <1>14 DEF RelayerRefuses, PollFails, WaitTimesOut
  <2>2. Report(o) \in {"open", "pending"} /\ Report(o)' = "lost"
      BY <2>1, ReportIs, ReportWillBe DEF StageOf
  <2> QED
      BY <2>1, <2>2, OpReports, LoseIs
<1>15. CASE Poll(o)
  <2>1. pc[o] = "wait" /\ same
      BY <1>15 DEF Poll
  <2>2. CASE mined[o] # "no"
    <3>1. result'[o] = "receipt"
        BY <1>15, <2>2 DEF Poll
    <3>2. Report(o) = "pending" /\ Report(o)' = "answered"
        BY <2>1, <3>1, ReportIs, ReportWillBe DEF StageOf
    <3> QED
        BY <2>1, <2>2, <3>2, OpReports, ReceiptIs
  <2>3. CASE mined[o] = "no"
    <3>1. UNCHANGED <<pc, result>>
        BY <1>15, <2>3 DEF Poll
    <3> QED
        BY <1>q, <2>1, <3>1
  <2> QED
      BY <2>2, <2>3
<1> QED
    BY <1>1, <1>2, <1>3, <1>4, <1>5, <1>6, <1>7, <1>8, <1>9, <1>10, <1>11, <1>12, <1>13, <1>14,
       <1>15 DEF OpStep, OpFails

\* So is every other step of the page and of the chain.
LEMMA StepPromises ==
    PartsOK /\ ApprovalOK /\ StagesOK /\ [Next]_vars => [Promise!Next]_(Promise!vars)
<1> SUFFICES ASSUME PartsOK, ApprovalOK, StagesOK, [Next]_vars
             PROVE  Promise!Next \/ UNCHANGED Promise!vars
    OBVIOUS
<1>1. CASE \E o \in Ops : Begin(o) \/ OpStep(o) \/ OpFails(o)
    BY <1>1, OpPromises DEF ApprovalOK, StagesOK
<1>2. CASE UNCHANGED <<pc, result, plan, approvals, sent, mined>>
    BY <1>2, ReportKept, Quiet
<1>3. ASSUME NEW o \in Ops, Mine(o) PROVE Promise!Next
  <2>1. /\ o \in sent /\ mined[o] = "no" /\ UNCHANGED <<pc, result, plan, approvals, sent>>
        /\ \E f \in {"ok", "reverted"} : mined' = [mined EXCEPT ![o] = f]
      BY <1>3 DEF Mine
  <2>2. \A p \in Ops : Report(p)' = Report(p)
      BY <2>1, ReportKept
  <2>3. Promise!Settle(o)
      BY <2>1, <2>2 DEF Promise!Settle, IsUpkeep
  <2> QED
      BY <2>3 DEF Promise!Next
<1>4. CASE SetAccountInfo \/ ViewWallet \/ StoreToken \/ ForeignCall \/ UNCHANGED vars
    BY <1>2, <1>4 DEF SetAccountInfo, ViewWallet, StoreToken, ForeignCall, vars
<1> QED
    BY <1>1, <1>3, <1>4 DEF Next

LEMMA InitPromises == Init => Promise!Init
<1> SUFFICES ASSUME Init PROVE Promise!Init
    OBVIOUS
<1>1. \A o \in Ops : Report(o) = "open"
    BY ReportIs DEF Init
<1>2. \A o \in Ops : ~IsUpkeep(o)
    BY DEF Init, IsUpkeep
<1> QED
    BY <1>1, <1>2 DEF Init, Promise!Init

\* The pipeline keeps WalletPromise: whatever users do on the page and whatever is lost,
\* a rejected call never takes effect, nothing leaves the page or is signed for the
\* caller without an approval of this call, and a receipt is the call's own.
THEOREM PipelineRefinement == Spec => KeepsPromise
<1>1. Spec => Promise!Spec
    BY InitPromises, StepPromises, TypeAndAddress, ApprovalInvariant, StageInvariant, PTL
       DEF Spec, Promise!Spec
<1> QED
    BY <1>1 DEF KeepsPromise

-----------------------------------------------------------------------------
(* What follows from the promise alone.                                    *)

\* A rejected call is not at the relayer, and nothing became of it; what is at the
\* relayer was agreed to or is upkeep.
RejectedStaysOut ==
    \A o \in Ops :
       /\ Report(o) = "rejected" => o \notin sent /\ mined[o] = "no"
       /\ mined[o] # "no" => o \in sent
       /\ o \in sent => IsUpkeep(o) \/ \E c \in approvals : c.op = o

\* What the caller was told is never taken back.
ToldForGood ==
    [][\A o \in Ops : Report(o) \in {"rejected", "answered", "lost"} =>
                          Report(o)' = Report(o)]_vars

PromiseInv ==
    /\ mined \in [Ops -> {"no", "ok", "reverted"}]
    /\ sent \subseteq {c.op : c \in approvals} \cup {o \in Ops : IsUpkeep(o)}
    /\ \A o \in Ops : /\ Report(o) = "rejected" => o \notin sent
                      /\ mined[o] # "no" => o \in sent

LEMMA MovesOne ==
    ASSUME NEW o \in Ops, NEW before, NEW after, Promise!Move(o, before, after)
    PROVE  /\ Report(o) = before /\ Report(o)' = after
           /\ \A p \in Ops \ {o} : Report(p)' = Report(p)
BY DEF Promise!Move

LEMMA PromiseMoves ==
    ASSUME Promise!Next
    PROVE  \A o \in Ops :
              /\ Report(o) \in {"rejected", "answered", "lost"} => Report(o)' = Report(o)
              /\ Report(o)' = "rejected" /\ Report(o) # "rejected" =>
                     Report(o) = "open" /\ o \notin sent /\ sent' = sent
<1>1. PICK p \in Ops :
         \/ Promise!NeedsNoConsent(p) \/ Promise!Consent(p) \/ Promise!Reject(p) \/ Promise!Certify(p)
         \/ Promise!Take(p) \/ Promise!Lose(p) \/ Promise!Settle(p) \/ Promise!Receipt(p)
    BY DEF Promise!Next
<1>2. CASE Promise!Reject(p)
    BY <1>2, MovesOne DEF Promise!Reject
<1>3. CASE Promise!Certify(p) \/ Promise!Receipt(p)
    BY <1>3, MovesOne DEF Promise!Certify, Promise!Receipt
<1>4. CASE Promise!Take(p) \/ Promise!Lose(p)
    BY <1>4, MovesOne DEF Promise!Take, Promise!Lose
<1>5. CASE Promise!NeedsNoConsent(p) \/ Promise!Consent(p) \/ Promise!Settle(p)
  <2>1. [o \in Ops |-> Report(o)]' = [o \in Ops |-> Report(o)]
      BY <1>5 DEF Promise!NeedsNoConsent, Promise!Consent, Promise!Settle
  <2>2. \A o \in Ops : Report(o)' = Report(o)
      BY <2>1
  <2> QED
      BY <2>2
<1> QED
    BY <1>1, <1>2, <1>3, <1>4, <1>5

LEMMA PromiseKeepsInv ==
    ASSUME PromiseInv, Promise!Next
    PROVE  PromiseInv'
<1> DEFINE agreed == {c.op : c \in approvals}
           kept == {o \in Ops : IsUpkeep(o)}
<1>0. /\ mined \in [Ops -> {"no", "ok", "reverted"}] /\ sent \subseteq agreed \cup kept
      /\ \A o \in Ops : /\ Report(o) = "rejected" => o \notin sent
                        /\ mined[o] # "no" => o \in sent
    BY DEF PromiseInv
<1>1. PICK p \in Ops :
         \/ Promise!NeedsNoConsent(p) \/ Promise!Consent(p) \/ Promise!Reject(p) \/ Promise!Certify(p)
         \/ Promise!Take(p) \/ Promise!Lose(p) \/ Promise!Settle(p) \/ Promise!Receipt(p)
    BY DEF Promise!Next
<1> HIDE DEF agreed, kept
<1>2. /\ agreed \subseteq agreed' /\ kept \subseteq kept'
      /\ sent' = sent \/ (sent' = sent \cup {p} /\ p \in agreed \cup kept
                            /\ Report(p)' \in {"pending", "lost"})
      /\ mined' = mined \/ (sent' = sent /\ p \in sent /\ \E f \in {"ok", "reverted"} :
                                                  mined' = [mined EXCEPT ![p] = f])
    BY <1>1, MovesOne
       DEF agreed, kept, Promise!NeedsNoConsent, Promise!Consent, Promise!Reject, Promise!Certify,
           Promise!Take, Promise!Lose, Promise!Settle, Promise!Receipt
<1>3. sent' \subseteq agreed' \cup kept'
    BY <1>0, <1>2
<1>4. ASSUME NEW o \in Ops PROVE Report(o)' = "rejected" => o \notin sent'
    BY <1>0, <1>2, PromiseMoves
<1>5. ASSUME NEW o \in Ops PROVE mined'[o] # "no" => o \in sent'
    BY <1>0, <1>2
<1>6. mined' \in [Ops -> {"no", "ok", "reverted"}]
    BY <1>0, <1>2
<1> QED
    BY <1>3, <1>4, <1>5, <1>6 DEF PromiseInv, agreed, kept

\* Both follow from WalletPromise, which the pipeline implements: whoever logs in or out,
\* a call reported as refused or failed has no effect, then or later, nothing the user
\* must agree to is at the relayer without an approval of this call, and a caller is
\* told one thing only.
THEOREM RejectedTheorem == Spec => []RejectedStaysOut /\ ToldForGood
<1>1. Promise!Init => PromiseInv
    BY DEF Promise!Init, PromiseInv
<1>2. PromiseInv /\ UNCHANGED Promise!vars => PromiseInv'
  <2> SUFFICES ASSUME PromiseInv, UNCHANGED Promise!vars PROVE PromiseInv'
      OBVIOUS
  <2>1. /\ [o \in Ops |-> Report(o)]' = [o \in Ops |-> Report(o)]
        /\ {c.op : c \in approvals}' = {c.op : c \in approvals}
        /\ {o \in Ops : IsUpkeep(o)}' = {o \in Ops : IsUpkeep(o)}
        /\ sent' = sent /\ mined' = mined
      BY DEF Promise!vars
  <2>2. \A o \in Ops : Report(o)' = Report(o)
      BY <2>1
  <2> QED
      BY <2>1, <2>2 DEF PromiseInv
<1>3. PromiseInv => RejectedStaysOut
    BY DEF PromiseInv, RejectedStaysOut
<1> DEFINE told == \A o \in Ops : Report(o) \in {"rejected", "answered", "lost"} =>
                                      Report(o)' = Report(o)
<1>4. [Promise!Next]_(Promise!vars) => [told]_vars
  <2>1. CASE Promise!Next
      BY <2>1, PromiseMoves
  <2>2. CASE UNCHANGED Promise!vars
    <3>1. [o \in Ops |-> Report(o)]' = [o \in Ops |-> Report(o)]
        BY <2>2 DEF Promise!vars
    <3>2. \A o \in Ops : Report(o)' = Report(o)
        BY <3>1
    <3> QED
        BY <3>2
  <2> QED
      BY <2>1, <2>2
<1> QED
    BY <1>1, <1>2, <1>3, <1>4, PromiseKeepsInv, PipelineRefinement, PTL
       DEF KeepsPromise, Promise!Spec, ToldForGood

-----------------------------------------------------------------------------
(* Every operation runs out of steps, whoever logs in or out.              *)

\* No more is signed than the plan asks for.
Fits(o) == Len(signed[o]) <= Len(plan[o])
FitsOK == \A o \in Ops : Fits(o)

Unsigned(o) == Len(plan[o]) - Len(signed[o])

LEMMA AheadIs ==
    /\ Ahead["wait"] = 0 /\ Ahead["posted"] = 1 /\ Ahead["sign"] = 1 /\ Ahead["audited"] = 2
    /\ Ahead["audit"] = 3 /\ Ahead["next"] = 4 /\ Ahead["nonce"] = 5 /\ Ahead["network"] = 6
    /\ Ahead["send"] = 7 /\ Ahead["raw"] = 8 /\ Ahead["plan"] = 21 /\ Ahead["user"] = 22
    /\ Ahead["idle"] = 23
BY DEF Ahead

LEMMA AheadIsNat == ASSUME NEW s \in Stages \ {"done", "failed"} PROVE Ahead[s] \in Nat
BY AheadIs DEF Stages

LEMMA LengthsAreNat ==
    ASSUME PartsOK, NEW o \in Ops
    PROVE  Len(plan[o]) \in 0..3 /\ Len(signed[o]) \in Nat /\ (Fits(o) => Unsigned(o) \in Nat)
<1>1. Len(plan[o]) \in 0..3
    BY PlanLength DEF PartsOK, RouteOK
<1>2. Len(signed[o]) \in Nat
    BY LenProperties DEF PartsOK, SignedOK
<1> QED
    BY <1>1, <1>2 DEF Fits, Unsigned

\* A measure that goes down.
LEMMA Nearer ==
    ASSUME PartsOK, PartsOK', NEW o \in Ops, Fits(o), Fits(o)', pc[o] \notin {"done", "failed"},
           \/ pc'[o] \in {"done", "failed"}
           \/ Ahead[pc'[o]] + 4 * Unsigned(o)' - polls'[o] < Ahead[pc[o]] + 4 * Unsigned(o) - polls[o]
    PROVE  StepsLeft(o)' \in 0..StepsLeft(o) /\ StepsLeft(o)' # StepsLeft(o)
<1> DEFINE a == Ahead[pc[o]]
           u == Unsigned(o)
           p == polls[o]
<1>1. a \in Nat /\ u \in Nat /\ p \in 0..MaxPolls /\ MaxPolls \in Nat
    BY AheadIsNat, LengthsAreNat, ConstantsAssumption DEF PartsOK, FlowOK
<1>2. StepsLeft(o) = a + 4 * u + (MaxPolls - p) + 1
    BY DEF StepsLeft, Unsigned
<1>3. CASE pc'[o] \in {"done", "failed"}
  <2>1. StepsLeft(o)' = 0
      BY <1>3 DEF StepsLeft
  <2> HIDE DEF a, u, p
  <2> QED
      BY <1>1, <1>2, <2>1
<1>4. CASE pc'[o] \notin {"done", "failed"}
  <2> DEFINE b == Ahead[pc'[o]]
             v == Unsigned(o)'
             q == polls'[o]
  <2>1. b \in Nat
      BY <1>4, AheadIsNat DEF PartsOK, FlowOK
  <2>2. v \in Nat
    <3>1. Len(plan'[o]) \in 0..3
        BY PlanLength DEF PartsOK, RouteOK
    <3>2. Len(signed'[o]) \in Nat
        BY LenProperties DEF PartsOK, SignedOK
    <3> QED
        BY <3>1, <3>2 DEF Fits, Unsigned
  <2>3. q \in 0..MaxPolls
      BY DEF PartsOK, FlowOK
  <2>4. StepsLeft(o)' = b + 4 * v + (MaxPolls - q) + 1
      BY <1>4 DEF StepsLeft, Unsigned
  <2>5. b + 4 * v - q < a + 4 * u - p
      BY <1>4
  <2> HIDE DEF a, u, p, b, v, q
  <2> QED
      BY <1>1, <1>2, <2>1, <2>2, <2>3, <2>4, <2>5
<1> QED
    BY <1>3, <1>4

\* One more signed part of a plan that has more.
LEMMA AddLength ==
    ASSUME PartsOK, NEW o \in Ops, NEW kind, NEW addr, NEW n, NEW owner,
           MoreToSign(o), AddSigned(o, kind, addr, n, owner), plan'[o] = plan[o]
    PROVE  Fits(o)' /\ Unsigned(o)' = Unsigned(o) - 1
<1> DEFINE s == [kind |-> kind, addr |-> addr, nonce |-> n, owner |-> owner]
<1>1. signed'[o] = Append(signed[o], s) /\ signed[o] \in Seq(Signed)
    BY DEF AddSigned, PartsOK, SignedOK
<1> HIDE DEF s
<1>2. Len(signed'[o]) = Len(signed[o]) + 1
    BY <1>1
<1> QED
    BY <1>2, LengthsAreNat DEF MoreToSign, Fits, Unsigned

\* The handlers take their own operation nearer to its end.
LEMMA OpSteps ==
    ASSUME PartsOK, AddressOK, NEW o \in Ops, StageOf(o), Fits(o),
           Begin(o) \/ OpStep(o) \/ OpFails(o)
    PROVE  Fits(o)' /\ StepsLeft(o)' \in 0..StepsLeft(o) /\ StepsLeft(o)' # StepsLeft(o)
<1> USE DEF PartsOK, FlowOK
<1> DEFINE goal == Fits(o)' /\ StepsLeft(o)' \in 0..StepsLeft(o) /\ StepsLeft(o)' # StepsLeft(o)
<1>0. PartsOK'
    BY OpTypeOK
<1>p. polls[o] \in Nat /\ Unsigned(o) \in Nat /\ Len(plan[o]) \in 0..3
    BY LengthsAreNat, ConstantsAssumption
<1>m. ASSUME UNCHANGED <<plan, signed, polls>>, pc[o] \notin {"done", "failed"},
             \/ pc'[o] \in {"done", "failed"}
             \/ /\ Ahead[pc'[o]] \in Nat /\ Ahead[pc[o]] \in Nat
                /\ Ahead[pc'[o]] < Ahead[pc[o]]
      PROVE  goal
  <2>1. Fits(o)' /\ Unsigned(o)' = Unsigned(o) /\ polls'[o] = polls[o]
      BY <1>m DEF Fits, Unsigned
  <2>2. \/ pc'[o] \in {"done", "failed"}
        \/ Ahead[pc'[o]] + 4 * Unsigned(o)' - polls'[o] < Ahead[pc[o]] + 4 * Unsigned(o) - polls[o]
      BY <1>p, <1>m, <2>1
  <2> QED
      BY <1>0, <1>m, <2>1, <2>2, Nearer
<1>a. ASSUME UNCHANGED <<plan, polls>>, MoreToSign(o), pc[o] \in {"next", "sign"}, pc'[o] = "next",
             NEW kind, NEW addr, NEW n, NEW owner, AddSigned(o, kind, addr, n, owner)
      PROVE  goal
  <2>1. Fits(o)' /\ Unsigned(o)' = Unsigned(o) - 1 /\ polls'[o] = polls[o]
      BY <1>a, AddLength
  <2>2. Ahead[pc[o]] \in {1, 4} /\ Ahead[pc'[o]] = 4
      BY <1>a, AheadIs
  <2>3. Ahead[pc'[o]] + 4 * Unsigned(o)' - polls'[o] < Ahead[pc[o]] + 4 * Unsigned(o) - polls[o]
      BY <1>p, <2>1, <2>2
  <2> QED
      BY <1>0, <1>a, <2>1, <2>3, Nearer
<1>1. CASE Begin(o)
  <2>1. /\ pc[o] = "idle" /\ UNCHANGED <<plan, signed, polls>>
        /\ pc'[o] \in {"user", "failed"}
      BY <1>1 DEF Begin
  <2> QED
      BY <1>m, <2>1, AheadIs
<1>2. CASE Prepare(o)
  <2>1. /\ pc[o] = "user" /\ UNCHANGED <<plan, signed, polls>>
        /\ pc'[o] \in {"plan", "audit"}
      BY <1>2 DEF Prepare
  <2> QED
      BY <1>m, <2>1, AheadIs
<1>3. CASE MakePlan(o)
  <2>1. pc[o] = "plan" /\ pc'[o] = "raw" /\ UNCHANGED <<signed, polls>>
      BY <1>3 DEF MakePlan
  <2>2. signed[o] = <<>> /\ plan[o] = <<>>
      BY <2>1 DEF StageOf
  <2>3. Len(plan'[o]) \in 0..3
      BY <1>0, PlanLength DEF RouteOK
  <2>4. Fits(o)' /\ Unsigned(o)' \in 0..3 /\ Unsigned(o) = 0 /\ polls'[o] = polls[o]
      BY <2>1, <2>2, <2>3 DEF Fits, Unsigned
  <2>5. Ahead[pc'[o]] = 8 /\ Ahead[pc[o]] = 21
      BY <2>1, AheadIs
  <2>6. Ahead[pc'[o]] + 4 * Unsigned(o)' - polls'[o] < Ahead[pc[o]] + 4 * Unsigned(o) - polls[o]
      BY <1>p, <2>4, <2>5
  <2> QED
      BY <1>0, <2>1, <2>4, <2>6, Nearer
<1>4. CASE OpFails(o)
  <2>1. /\ pc[o] \notin {"done", "failed"} /\ pc'[o] = "failed" /\ UNCHANGED <<plan, signed, polls>>
      BY <1>4 DEF OpFails, PlanFails, NetworkFails, AuditFails, SignFails,
                RelayerRefuses, RelayerAnswerLost, PollFails
  <2> QED
      BY <1>m, <2>1
<1>5. CASE MakeRawCall(o)
  <2>1. /\ pc[o] = "raw" /\ UNCHANGED <<plan, signed, polls>>
        /\ pc'[o] \in {"send", "failed"}
      BY <1>5 DEF MakeRawCall
  <2> QED
      BY <1>m, <2>1, AheadIs
<1>6. CASE Send(o)
  <2>1. /\ pc[o] = "send" /\ UNCHANGED <<plan, signed, polls>>
        /\ pc'[o] \in {"network", "failed"}
      BY <1>6 DEF Send
  <2> QED
      BY <1>m, <2>1, AheadIs
<1>7. CASE Network(o) \/ ReadNonce(o)
  <2>1. /\ UNCHANGED <<plan, signed, polls>>
        /\ \/ pc[o] = "network" /\ pc'[o] = "nonce"
           \/ pc[o] = "nonce" /\ pc'[o] = "next"
      BY <1>7 DEF Network, ReadNonce
  <2> QED
      BY <1>m, <2>1, AheadIs
<1>8. CASE TakeDeploy(o)
  <2>1. /\ pc[o] = "next" /\ pc'[o] = "next" /\ UNCHANGED <<plan, polls>> /\ MoreToSign(o)
        /\ AddSigned(o, "deploy", user[o], 0, NoAccount)
      BY <1>8 DEF TakeDeploy
  <2> QED
      BY <1>a, <2>1
<1>9. CASE SignSync(o)
  <2>1. /\ pc[o] = "next" /\ pc'[o] = "next" /\ UNCHANGED <<plan, polls>> /\ MoreToSign(o)
        /\ AddSigned(o, "sync", wallet.address, NextNonce(o), NoAccount)
      BY <1>9 DEF SignSync
  <2> QED
      BY <1>a, <2>1
<1>10. CASE RequestAudit(o) \/ BackendAudits(o)
  <2>1. /\ UNCHANGED <<plan, signed, polls>>
        /\ \/ pc[o] = "next" /\ pc'[o] = "audit"
           \/ pc[o] = "audit" /\ pc'[o] = "audited"
      BY <1>10 DEF RequestAudit, BackendAudits
  <2> QED
      BY <1>m, <2>1, AheadIs
<1>11. CASE AuditAnswered(o)
  <2>1. /\ pc[o] = "audited" /\ pc'[o] \in {"sign", "failed"}
        /\ UNCHANGED <<plan, signed, polls>>
      BY <1>11 DEF AuditAnswered
  <2> QED
      BY <1>m, <2>1, AheadIs
<1>12. CASE Sign(o)
  <2>1. CASE Kind[o] = "transaction"
    <3>1. /\ pc[o] = "sign" /\ pc'[o] = "next" /\ UNCHANGED <<plan, polls>>
          /\ AddSigned(o, "call", DigestAddr(o), DigestNonce(o), wallet.owner)
        BY <1>12, <2>1 DEF Sign
    <3> QED
        BY <1>a, <2>1, <3>1 DEF StageOf
  <2>2. CASE Kind[o] # "transaction"
    <3>1. pc[o] = "sign" /\ pc'[o] = "done" /\ UNCHANGED <<plan, signed, polls>>
        BY <1>12, <2>2 DEF Sign
    <3> QED
        BY <1>m, <3>1
  <2> QED
      BY <2>1, <2>2
<1>13. CASE SignWithoutKey(o) \/ WaitTimesOut(o)
  <2>1. /\ pc[o] \in {"sign", "wait"} /\ pc'[o] = "failed" /\ UNCHANGED <<plan, signed, polls>>
      BY <1>13 DEF SignWithoutKey, WaitTimesOut
  <2> QED
      BY <1>m, <2>1
<1>14. CASE Post(o) \/ RelayerTakes(o)
  <2>1. /\ UNCHANGED <<plan, signed, polls>>
        /\ \/ pc[o] = "next" /\ pc'[o] = "posted"
           \/ pc[o] = "posted" /\ pc'[o] = "wait"
      BY <1>14 DEF Post, RelayerTakes
  <2> QED
      BY <1>m, <2>1, AheadIs
<1>15. CASE Poll(o)
  <2>1. /\ pc[o] = "wait" /\ pc'[o] \in {"wait", "done"} /\ UNCHANGED <<plan, signed>>
        /\ polls'[o] = polls[o] + 1
      BY <1>15 DEF Poll, NextRound
  <2>2. Fits(o)' /\ Unsigned(o)' = Unsigned(o)
      BY <2>1 DEF Fits, Unsigned
  <2>3. \/ pc'[o] = "done"
        \/ Ahead[pc'[o]] + 4 * Unsigned(o)' - polls'[o] < Ahead[pc[o]] + 4 * Unsigned(o) - polls[o]
      BY <1>p, <2>1, <2>2, AheadIs
  <2> QED
      BY <1>0, <2>1, <2>2, <2>3, Nearer
<1> QED
    BY <1>1, <1>2, <1>3, <1>4, <1>5, <1>6, <1>7, <1>8, <1>9, <1>10, <1>11, <1>12, <1>13, <1>14,
       <1>15 DEF OpStep

\* What no handler of its own does leaves an operation where it is.
LEMMA StepsFrame ==
    ASSUME PartsOK, NEW o \in Ops, Fits(o), pc'[o] = pc[o], plan'[o] = plan[o],
           signed'[o] = signed[o], polls'[o] = polls[o]
    PROVE  Fits(o)' /\ StepsLeft(o)' \in 0..StepsLeft(o)
<1>1. Fits(o)' /\ StepsLeft(o)' = StepsLeft(o)
    BY DEF Fits, StepsLeft
<1>2. StepsLeft(o) \in Nat
  <2>1. CASE pc[o] \in {"done", "failed"}
      BY <2>1 DEF StepsLeft
  <2>2. CASE pc[o] \notin {"done", "failed"}
    <3>1. Ahead[pc[o]] \in Nat /\ Unsigned(o) \in Nat
        BY <2>2, AheadIsNat, LengthsAreNat DEF PartsOK, FlowOK
    <3>2. polls[o] \in 0..MaxPolls /\ MaxPolls \in Nat
        BY ConstantsAssumption DEF PartsOK, FlowOK
    <3>3. StepsLeft(o) = Ahead[pc[o]] + 4 * Unsigned(o) + (MaxPolls - polls[o]) + 1
        BY <2>2 DEF StepsLeft, Unsigned
    <3> QED
        BY <3>1, <3>2, <3>3
  <2> QED
      BY <2>1, <2>2
<1> QED
    BY <1>1, <1>2

LEMMA OthersKeepPolls ==
    ASSUME PartsOK, NEW o \in Ops, NEW p \in Ops \ {o}, Begin(o) \/ OpStep(o) \/ OpFails(o)
    PROVE  polls'[p] = polls[p]
<1>1. CASE Poll(o)
    BY <1>1 DEF Poll, PartsOK, FlowOK
<1>2. CASE ~Poll(o)
    BY <1>2 DEF OpStep, OpFails, Begin, Prepare, MakePlan, PlanFails, MakeRawCall, Send, Network, NetworkFails, ReadNonce, TakeDeploy, SignSync, RequestAudit, BackendAudits, AuditFails, AuditAnswered, Sign, SignWithoutKey, SignFails, Post, RelayerTakes, RelayerAnswerLost, RelayerRefuses, PollFails, WaitTimesOut
<1> QED
    BY <1>1, <1>2

\* No step leaves an operation further from its end.
LEMMA NextSteps ==
    ASSUME PartsOK, AddressOK, StagesOK, FitsOK, [Next]_vars, NEW o \in Ops
    PROVE  /\ Fits(o)' /\ StepsLeft(o)' \in 0..StepsLeft(o)
           /\ Begin(o) \/ OpStep(o) \/ OpFails(o) => StepsLeft(o)' # StepsLeft(o)
<1>0. StageOf(o) /\ Fits(o)
    BY DEF StagesOK, FitsOK
<1>1. CASE Begin(o) \/ OpStep(o) \/ OpFails(o)
    BY <1>0, <1>1, OpSteps
<1>2. CASE ~(Begin(o) \/ OpStep(o) \/ OpFails(o))
  <2>1. CASE \E p \in Ops : Begin(p) \/ OpStep(p) \/ OpFails(p)
    <3>1. PICK p \in Ops : Begin(p) \/ OpStep(p) \/ OpFails(p)
        BY <2>1
    <3>2. o # p
        BY <1>2, <3>1
    <3>3. pc'[o] = pc[o] /\ plan'[o] = plan[o] /\ signed'[o] = signed[o] /\ polls'[o] = polls[o]
        BY <3>1, <3>2, OthersAlone, OthersUnreported, OthersKeepPolls
    <3> QED
        BY <1>0, <1>2, <3>3, StepsFrame
  <2>2. CASE \E p \in Ops : Mine(p)
      BY <1>0, <1>2, <2>2, StepsFrame DEF Mine
  <2>3. CASE SetAccountInfo \/ ViewWallet \/ StoreToken \/ ForeignCall \/ UNCHANGED vars
      BY <1>0, <1>2, <2>3, StepsFrame DEF SetAccountInfo, ViewWallet, StoreToken, ForeignCall, vars
  <2> QED
      BY <2>1, <2>2, <2>3 DEF Next
<1> QED
    BY <1>1, <1>2

LEMMA FitsInvariant == Spec => []FitsOK
<1>1. Init => FitsOK
  <2> SUFFICES ASSUME Init, NEW o \in Ops PROVE Fits(o)
      BY DEF FitsOK
  <2>1. plan[o] = <<>> /\ signed[o] = <<>>
      BY DEF Init
  <2> QED
      BY <2>1 DEF Fits
<1>2. PartsOK /\ AddressOK /\ StagesOK /\ FitsOK /\ [Next]_vars => FitsOK'
    BY NextSteps DEF FitsOK
<1> QED
    BY <1>1, <1>2, StageInvariant, TypeAndAddress, PTL DEF Spec

\* Every provider call has at most MaxPolls + 24 steps: whatever is answered, refused or
\* lost, each await that is settled leaves it fewer, and no other operation, no login and
\* nothing on the chain gives it more.
THEOREM StepsTheorem == Spec => StepsRunOut
<1> DEFINE Shrinks ==
        \A o \in Ops :
           /\ StepsLeft(o)' \in 0..StepsLeft(o)
           /\ Begin(o) \/ OpStep(o) \/ OpFails(o) => StepsLeft(o)' # StepsLeft(o)
<1>1. PartsOK /\ AddressOK /\ StagesOK /\ FitsOK /\ [Next]_vars => [Shrinks]_vars
    BY NextSteps
<1> QED
    BY <1>1, FitsInvariant, StageInvariant, TypeAndAddress, PTL DEF Spec, StepsRunOut

-----------------------------------------------------------------------------
(* The bundle, when nobody logs in or out.                                 *)

\* How the i-th signed call of o must look: for and by the account, and numbered so
\* that the last one has the last nonce.
IsNumbered(o, i) ==
    signed[o][i].kind # "deploy" =>
        /\ signed[o][i].addr = account
        /\ signed[o][i].kind = "call" => signed[o][i].owner = account
        /\ signed[o][i].nonce = nonce[o] - (Len(signed[o]) - i)

BundleOf(o) ==
    /\ pc[o] \notin {"idle", "user", "failed"} => wallet.owner = account
    /\ pc[o] \in {"send", "network", "nonce", "next", "posted", "wait"} => target[o] = account
    /\ pc[o] \in {"audit", "audited", "sign"} /\ Kind[o] = "transaction" => target[o] = account
    /\ o \in sent => target[o] = account
    /\ pc[o] \in {"idle", "user", "plan", "raw", "send", "network", "nonce"} => signed[o] = <<>>
    /\ \A i \in DOMAIN signed[o] : IsNumbered(o, i)

BundlesOK == \A o \in Ops : BundleOf(o)

LEMMA BundleFrame ==
    ASSUME NEW p \in Ops, BundleOf(p), UNCHANGED account,
           wallet' = wallet \/ wallet'.owner = account, pc'[p] = pc[p], target'[p] = target[p],
           nonce'[p] = nonce[p], signed'[p] = signed[p], p \in sent' <=> p \in sent
    PROVE  BundleOf(p)'
<1>1. \A i \in DOMAIN signed'[p] : IsNumbered(p, i)'
    BY DEF BundleOf, IsNumbered
<1> QED
    BY <1>1 DEF BundleOf

\* A main call for the next nonce keeps the numbers in order.
LEMMA AddNumbered ==
    ASSUME PartsOK, NEW o \in Ops, NEW kind, NEW owner, BundleOf(o), UNCHANGED account,
           AddSigned(o, kind, account, NextNonce(o), owner), kind = "call" => owner = account,
           nonce'[o] = NextNonce(o)
    PROVE  \A i \in DOMAIN signed'[o] : IsNumbered(o, i)'
<1> DEFINE s == [kind |-> kind, addr |-> account, nonce |-> NextNonce(o), owner |-> owner]
<1>1. signed'[o] = Append(signed[o], s)
    BY DEF AddSigned, PartsOK, SignedOK
<1>2. signed[o] \in Seq(Signed) /\ nonce[o] \in Nat /\ Len(signed[o]) \in Nat
    BY DEF PartsOK, SignedOK, AuditOK
<1>3. /\ s.kind = kind /\ s.addr = account /\ s.nonce = NextNonce(o) /\ s.owner = owner
    OBVIOUS
<1> HIDE DEF s
<1>4. Len(signed'[o]) = Len(signed[o]) + 1
    BY <1>1, <1>2
<1>5. \A i \in DOMAIN signed'[o] : \/ i \in DOMAIN signed[o] /\ signed'[o][i] = signed[o][i]
                                   \/ i = Len(signed[o]) + 1 /\ signed'[o][i] = s
    BY <1>1, <1>2
<1> TAKE i \in DOMAIN signed'[o]
<1>6. CASE i \in DOMAIN signed[o] /\ signed'[o][i] = signed[o][i]
  <2>1. i \in Nat /\ IsNumbered(o, i)
      BY <1>2, <1>6 DEF BundleOf
  <2>2. nonce'[o] - (Len(signed'[o]) - i) = nonce[o] - (Len(signed[o]) - i)
      BY <1>2, <1>4, <2>1 DEF NextNonce
  <2> QED
      BY <1>6, <2>1, <2>2 DEF IsNumbered
<1>7. CASE i = Len(signed[o]) + 1 /\ signed'[o][i] = s
  <2>1. nonce'[o] - (Len(signed'[o]) - i) = nonce'[o]
      BY <1>2, <1>4, <1>7 DEF NextNonce
  <2> QED
      BY <1>3, <1>7, <2>1 DEF IsNumbered
<1> QED
    BY <1>5, <1>6, <1>7

\* A handler gives the page's wallets at most the account's keyset.
LEMMA OpOwner ==
    ASSUME NEW o \in Ops, AccountOf(o), Begin(o) \/ OpStep(o) \/ OpFails(o)
    PROVE  wallet' = wallet \/ wallet'.owner = account
<1>1. CASE Prepare(o)
    BY <1>1 DEF Prepare, GetInstance, AccountOf
<1>2. CASE Send(o)
    BY <1>2 DEF Send, GetInstance, AccountOf
<1>3. CASE Begin(o) \/ OpFails(o)
    BY <1>3 DEF Begin, OpFails, PlanFails, NetworkFails, AuditFails, SignFails,
                RelayerRefuses, RelayerAnswerLost, PollFails
<1>4. CASE MakePlan(o) \/ MakeRawCall(o) \/ Network(o) \/ ReadNonce(o)
    BY <1>4 DEF MakePlan, MakeRawCall, Network, ReadNonce
<1>5. CASE TakeDeploy(o) \/ SignSync(o) \/ RequestAudit(o) \/ BackendAudits(o)
    BY <1>5 DEF TakeDeploy, SignSync, RequestAudit, BackendAudits
<1>6. CASE AuditAnswered(o) \/ Sign(o) \/ SignWithoutKey(o) \/ Post(o)
    BY <1>6 DEF AuditAnswered, Sign, SignWithoutKey, Post
<1>7. CASE RelayerTakes(o) \/ Poll(o) \/ WaitTimesOut(o)
    BY <1>7 DEF RelayerTakes, Poll, WaitTimesOut
<1> QED
    BY <1>1, <1>2, <1>3, <1>4, <1>5, <1>6, <1>7 DEF OpStep

LEMMA OthersKeepTarget ==
    ASSUME PartsOK, NEW o \in Ops, NEW p \in Ops \ {o}, Begin(o) \/ OpStep(o) \/ OpFails(o)
    PROVE  target'[p] = target[p]
<1>1. CASE MakeRawCall(o) \/ Post(o)
    BY <1>1 DEF MakeRawCall, Post, PartsOK, RouteOK
<1>2. CASE ~(MakeRawCall(o) \/ Post(o))
    BY <1>2 DEF OpStep, OpFails, Begin, Prepare, MakePlan, PlanFails, Send, Network, NetworkFails, ReadNonce, TakeDeploy, SignSync, RequestAudit, BackendAudits, AuditFails, AuditAnswered, Sign, SignWithoutKey, SignFails, RelayerTakes, RelayerAnswerLost, RelayerRefuses, Poll, PollFails, WaitTimesOut
<1> QED
    BY <1>1, <1>2

\* The handlers keep the bundle of their own operation in order.
LEMMA OpBundle ==
    ASSUME PartsOK, NEW o \in Ops, account \in Accounts, AccountOf(o), StageOf(o), BundleOf(o),
           Begin(o) \/ OpStep(o) \/ OpFails(o)
    PROVE  BundleOf(o)'
<1> USE DEF PartsOK, FlowOK, RouteOK
<1>0. UNCHANGED account /\ (wallet' = wallet \/ wallet'.owner = account)
    BY OpWallet, OpOwner
<1>k. ASSUME UNCHANGED signed, signed[o] = <<>> \/ nonce'[o] = nonce[o]
      PROVE  \A i \in DOMAIN signed'[o] : IsNumbered(o, i)'
    BY <1>0, <1>k DEF BundleOf, IsNumbered
<1>f. ASSUME UNCHANGED <<target, nonce, signed>>, pc'[o] = "failed",
             o \in sent' => o \in sent \/ pc[o] = "posted"
      PROVE  BundleOf(o)'
    BY <1>0, <1>f, <1>k DEF BundleOf
<1>1. CASE Begin(o)
  <2>1. /\ pc[o] = "idle" /\ UNCHANGED <<target, nonce, signed, sent>>
        /\ pc'[o] \in {"user", "failed"}
      BY <1>1 DEF Begin
  <2> QED
      BY <1>0, <1>k, <2>1 DEF BundleOf
<1>2. CASE Prepare(o)
  <2>1. /\ pc[o] = "user" /\ UNCHANGED <<target, nonce, signed, sent>> /\ wallet'.owner = account
        /\ (pc'[o] = "plan" \/ (pc'[o] = "audit" /\ Kind[o] # "transaction"))
      BY <1>2 DEF Prepare, GetInstance, AccountOf
  <2> QED
      BY <1>0, <1>k, <2>1 DEF BundleOf
<1>3. CASE MakePlan(o)
  <2>1. pc[o] = "plan" /\ pc'[o] = "raw" /\ UNCHANGED <<target, nonce, signed, sent>>
      BY <1>3 DEF MakePlan
  <2> QED
      BY <1>0, <1>k, <2>1 DEF BundleOf
<1>4. CASE OpFails(o)
  <2>1. /\ UNCHANGED <<target, nonce, signed>> /\ pc'[o] = "failed"
        /\ o \in sent' => o \in sent \/ pc[o] = "posted"
      BY <1>4 DEF OpFails, PlanFails, NetworkFails, AuditFails, SignFails,
                RelayerRefuses, RelayerAnswerLost, PollFails
  <2> QED
      BY <1>f, <2>1
<1>5. CASE MakeRawCall(o)
  <2>1. /\ pc[o] = "raw" /\ UNCHANGED <<wallet, nonce, signed, sent>>
        /\ \/ pc'[o] = "send" /\ target'[o] = account
           \/ pc'[o] = "failed" /\ UNCHANGED target
      BY <1>5 DEF MakeRawCall
  <2> QED
      BY <1>0, <1>f, <1>k, <2>1 DEF BundleOf
<1>6. CASE Send(o)
  <2>1. /\ pc[o] = "send" /\ UNCHANGED <<target, nonce, signed, sent>>
        /\ pc'[o] \in {"network", "failed"}
      BY <1>6 DEF Send
  <2> QED
      BY <1>0, <1>k, <2>1 DEF BundleOf
<1>7. CASE Network(o) \/ ReadNonce(o)
  <2>1. /\ pc[o] \in {"network", "nonce"} /\ pc'[o] \in {"nonce", "next"}
        /\ UNCHANGED <<target, signed, sent>>
      BY <1>7 DEF Network, ReadNonce
  <2> QED
      BY <1>0, <1>k, <2>1 DEF BundleOf
<1>8. CASE TakeDeploy(o)
  <2>1. /\ pc[o] = "next" /\ UNCHANGED <<pc, wallet, target, nonce, sent>>
        /\ AddSigned(o, "deploy", user[o], 0, NoAccount)
        /\ MoreToSign(o) /\ NextKind(o) = "deploy"
      BY <1>8 DEF TakeDeploy
  <2>2. signed[o] \in Seq(Signed) /\ plan[o] \in Seq(Parts)
        /\ \A i \in DOMAIN plan[o] : plan[o][i] = "deploy" => i = 1
      BY PlanShape DEF SignedOK
  <2>3. Len(signed[o]) \in Nat /\ Len(signed[o]) + 1 \in DOMAIN plan[o]
      BY <2>1, <2>2, LenProperties DEF MoreToSign
  <2>4. Len(signed[o]) = 0
      BY <2>1, <2>2, <2>3 DEF NextKind
  <2>5. \A i \in DOMAIN signed'[o] : signed'[o][i].kind = "deploy"
    <3> DEFINE s == [kind |-> "deploy", addr |-> user[o], nonce |-> 0, owner |-> NoAccount]
    <3>1. signed'[o] = Append(signed[o], s) /\ s.kind = "deploy"
        BY <2>1 DEF AddSigned, SignedOK
    <3> HIDE DEF s
    <3> QED
        BY <2>2, <2>4, <3>1
  <2> QED
      BY <1>0, <2>1, <2>5 DEF BundleOf, IsNumbered
<1>9. CASE SignSync(o)
  <2>1. /\ pc[o] = "next" /\ UNCHANGED <<pc, wallet, target, sent>>
        /\ AddSigned(o, "sync", account, NextNonce(o), NoAccount) /\ nonce'[o] = NextNonce(o)
      BY <1>9 DEF SignSync, AccountOf, AuditOK
  <2>2. \A i \in DOMAIN signed'[o] : IsNumbered(o, i)'
      BY <1>0, <2>1, AddNumbered
  <2> QED
      BY <1>0, <2>1, <2>2 DEF BundleOf
<1>10. CASE RequestAudit(o) \/ BackendAudits(o)
  <2>1. /\ pc[o] \in {"next", "audit"} /\ pc'[o] \in {"audit", "audited"}
        /\ UNCHANGED <<wallet, target, nonce, signed, sent>>
        /\ pc[o] = "audit" => pc'[o] = "audited"
      BY <1>10 DEF RequestAudit, BackendAudits
  <2> QED
      BY <1>0, <1>k, <2>1 DEF BundleOf
<1>11. CASE AuditAnswered(o)
  <2>1. /\ pc[o] = "audited" /\ pc'[o] \in {"sign", "failed"}
        /\ UNCHANGED <<wallet, target, nonce, signed, sent>>
      BY <1>11 DEF AuditAnswered
  <2> QED
      BY <1>0, <1>k, <2>1 DEF BundleOf
<1>12. CASE Sign(o)
  <2>1. CASE Kind[o] = "transaction"
    <3>1. /\ pc[o] = "sign" /\ pc'[o] = "next" /\ UNCHANGED <<wallet, target, sent>>
          /\ AddSigned(o, "call", account, NextNonce(o), account) /\ nonce'[o] = NextNonce(o)
        BY <1>12, <2>1 DEF Sign, AccountOf, BundleOf, AuditOK, DigestAddr, DigestNonce
    <3>2. \A i \in DOMAIN signed'[o] : IsNumbered(o, i)'
        BY <1>0, <3>1, AddNumbered
    <3> QED
        BY <1>0, <2>1, <3>1, <3>2 DEF BundleOf
  <2>2. CASE Kind[o] # "transaction"
    <3>1. /\ pc[o] = "sign" /\ pc'[o] = "done"
          /\ UNCHANGED <<wallet, target, nonce, signed, sent>>
        BY <1>12, <2>2 DEF Sign
    <3> QED
        BY <1>0, <1>k, <3>1 DEF BundleOf
  <2> QED
      BY <2>1, <2>2
<1>13. CASE SignWithoutKey(o) \/ WaitTimesOut(o)
  <2>1. UNCHANGED <<target, nonce, signed, sent>> /\ pc'[o] = "failed"
      BY <1>13 DEF SignWithoutKey, WaitTimesOut
  <2> QED
      BY <1>f, <2>1
<1>14. CASE Post(o)
  <2>1. /\ pc[o] = "next" /\ pc'[o] = "posted" /\ UNCHANGED <<wallet, nonce, signed, sent>>
        /\ target'[o] = account
      BY <1>14 DEF Post, AccountOf, BundleOf
  <2> QED
      BY <1>0, <1>k, <2>1 DEF BundleOf
<1>15. CASE RelayerTakes(o)
  <2>1. pc[o] = "posted" /\ pc'[o] = "wait" /\ UNCHANGED <<wallet, target, nonce, signed>>
      BY <1>15 DEF RelayerTakes
  <2> QED
      BY <1>0, <1>k, <2>1 DEF BundleOf
<1>16. CASE Poll(o)
  <2>1. /\ pc[o] = "wait" /\ pc'[o] \in {"wait", "done"}
        /\ UNCHANGED <<wallet, target, nonce, signed, sent>>
      BY <1>16 DEF Poll
  <2> QED
      BY <1>0, <1>k, <2>1 DEF BundleOf
<1> QED
    BY <1>1, <1>2, <1>3, <1>4, <1>5, <1>6, <1>7, <1>8, <1>9, <1>10, <1>11, <1>12, <1>13, <1>14,
       <1>15, <1>16 DEF OpStep

LEMMA NextBundles ==
    ASSUME ~Switching, PartsOK, AccountOK, StagesOK, BundlesOK, [Next]_vars
    PROVE  BundlesOK'
<1>0. account \in Accounts /\ \A p \in Ops : AccountOf(p) /\ StageOf(p) /\ BundleOf(p)
    BY DEF AccountOK, StagesOK, BundlesOK
<1>1. CASE \E o \in Ops : Begin(o) \/ OpStep(o) \/ OpFails(o)
  <2>1. PICK o \in Ops : Begin(o) \/ OpStep(o) \/ OpFails(o)
      BY <1>1
  <2>2. BundleOf(o)'
      BY <1>0, <2>1, OpBundle
  <2>3. UNCHANGED account /\ (wallet' = wallet \/ wallet'.owner = account)
      BY <1>0, <2>1, OpWallet, OpOwner
  <2>4. \A p \in Ops \ {o} : BundleOf(p)'
      BY <1>0, <2>1, <2>3, OthersAlone, OthersUnreported, OthersKeepTarget, BundleFrame
  <2> QED
      BY <2>2, <2>4 DEF BundlesOK
<1>2. CASE UNCHANGED <<account, pc, target, nonce, signed, sent>>
           /\ (wallet' = wallet \/ wallet'.owner = account)
    BY <1>0, <1>2, BundleFrame DEF BundlesOK
<1>3. CASE ViewWallet
    BY <1>2, <1>3 DEF ViewWallet, GetInstance
<1>4. CASE \E o \in Ops : Mine(o)
    BY <1>2, <1>4 DEF Mine
<1>5. CASE SetAccountInfo \/ StoreToken \/ ForeignCall \/ UNCHANGED vars
    BY <1>2, <1>5 DEF SetAccountInfo, StoreToken, ForeignCall, vars
<1> QED
    BY <1>1, <1>3, <1>4, <1>5 DEF Next

\* Bundles in order are one wallet's, whatever their length.
LEMMA BundlesAreOneWallets == PartsOK /\ BundlesOK => BundleIsOneWallets
<1> SUFFICES ASSUME PartsOK, BundlesOK, NEW o \in sent, NEW i \in MainCalls(o), NEW j \in MainCalls(o)
             PROVE  /\ signed[o][i].addr = target[o]
                    /\ signed[o][i].kind = "call" => signed[o][i].owner = target[o]
                    /\ signed[o][j].nonce - signed[o][i].nonce = j - i
    BY DEF BundleIsOneWallets
<1>1. o \in Ops /\ target[o] = account /\ IsNumbered(o, i) /\ IsNumbered(o, j)
    BY DEF PartsOK, BackendOK, BundlesOK, BundleOf, MainCalls
<1>2. signed[o] \in Seq(Signed) /\ nonce[o] \in Nat
    BY <1>1 DEF PartsOK, SignedOK, AuditOK
<1>3. Len(signed[o]) \in Nat /\ i \in Nat /\ j \in Nat
    BY <1>2, LenProperties DEF MainCalls
<1>4. signed[o][i].kind # "deploy" /\ signed[o][j].kind # "deploy"
    BY DEF MainCalls
<1> QED
    BY <1>1, <1>2, <1>3, <1>4 DEF IsNumbered

\* As long as nobody logs in or out, a bundle at the relayer (sendSignedTransactions) is
\* signed for and by the wallet it goes to, with consecutive nonces, however many
\* operations share the WalletsCreator and whoever calls wallet() in between.
THEOREM BundleTheorem == ASSUME ~Switching PROVE Spec => []BundleIsOneWallets
<1>1. Init => AccountOK /\ BundlesOK
  <2> SUFFICES ASSUME Init PROVE AccountOK /\ BundlesOK
      OBVIOUS
  <2>1. AccountOK
      BY DEF Init, AccountOK, AccountOf
  <2>2. \A o \in Ops : BundleOf(o)
      BY DEF Init, BundleOf, IsNumbered
  <2> QED
      BY <2>1, <2>2 DEF BundlesOK
<1>2. PartsOK /\ StagesOK /\ AccountOK /\ BundlesOK /\ [Next]_vars => AccountOK' /\ BundlesOK'
    BY NextAccount, NextBundles
<1> QED
    BY <1>1, <1>2, StageInvariant, TypeAndAddress, BundlesAreOneWallets, PTL DEF Spec

-----------------------------------------------------------------------------
(* Fresh bundles execute, whatever else of the page or elsewhere changes    *)
(* the wallet on the chain.                                                 *)

\* On polygon every wallet is deployed and has its keyset.
PolygonReady ==
    \A a \in Accounts : /\ chain[a]["polygon"].deployed = TRUE
                        /\ chain[a]["polygon"].synced = TRUE

\* The plan has the parts that the wallet lacks on the chain.
Complete(o) ==
    LET c == chain[account][Chain(o)]
    IN  /\ Has(plan[o], "deploy") \/ c.deployed = TRUE
        /\ Has(plan[o], "sync") \/ c.synced = TRUE

FreshOf(o) ==
    /\ plan[o] # <<>> => user[o] = account /\ Complete(o)
    /\ o \in sent => plan[o] # <<>> /\ ~MoreToSign(o)

FreshOK == \A o \in Ops : FreshOf(o)

\* No handler of the page changes the chain.
LEMMA OpWorld ==
    ASSUME NEW o \in Ops, Begin(o) \/ OpStep(o) \/ OpFails(o)
    PROVE  UNCHANGED <<mined, chain>>
BY DEF OpStep, OpFails, Begin, Prepare, MakePlan, PlanFails, MakeRawCall, Send, Network, NetworkFails, ReadNonce, TakeDeploy, SignSync, RequestAudit, BackendAudits, AuditFails, AuditAnswered, Sign, SignWithoutKey, SignFails, Post, RelayerTakes, RelayerAnswerLost, RelayerRefuses, Poll, PollFails, WaitTimesOut

\* Mining o undoes no deployment and no synchronisation.
LEMMA MineChain ==
    ASSUME PartsOK, NEW o \in Ops, Mine(o), NEW a \in Accounts, NEW c \in Chains
    PROVE  /\ chain[a][c].deployed = TRUE => chain'[a][c].deployed = TRUE
           /\ chain[a][c].synced = TRUE => chain'[a][c].synced = TRUE
<1> USE DEF PartsOK, ChainOK
<1>1. CASE UNCHANGED chain
    BY <1>1
<1>2. CASE chain' = [chain EXCEPT ![target[o]][Chain(o)] =
                       [nonce |-> @.nonce + Place(o, Len(signed[o])),
                        deployed |-> TRUE,
                        synced |-> @.synced \/ Syncs(o)]]
  <2> DEFINE before == chain[target[o]][Chain(o)]
             after == [nonce |-> before.nonce + Place(o, Len(signed[o])),
                       deployed |-> TRUE, synced |-> before.synced \/ Syncs(o)]
  <2>1. chain' = [chain EXCEPT ![target[o]] = [@ EXCEPT ![Chain(o)] = after]]
      BY <1>2
  <2>2. after.deployed = TRUE /\ (before.synced = TRUE => after.synced = TRUE)
      OBVIOUS
  <2> HIDE DEF after
  <2>3. \/ chain'[a][c] = chain[a][c]
        \/ a = target[o] /\ c = Chain(o) /\ chain'[a][c] = after
      BY <2>1
  <2> QED
      BY <2>2, <2>3
<1> QED
    BY <1>1, <1>2 DEF Mine

\* Nor does the user's other device.
LEMMA ForeignChain ==
    ASSUME PartsOK, ForeignCall, NEW a \in Accounts, NEW c \in Chains
    PROVE  /\ chain[a][c].deployed = TRUE => chain'[a][c].deployed = TRUE
           /\ chain[a][c].synced = TRUE => chain'[a][c].synced = TRUE
<1> USE DEF PartsOK, ChainOK
<1>1. PICK b \in Accounts, d \in Chains, sync \in BOOLEAN, call \in BOOLEAN :
         ForeignBundle(b, d, sync, call)
    BY DEF ForeignCall
<1> DEFINE after == [nonce |-> chain[b][d].nonce + Len(Bundle(FALSE, sync, call)),
                     deployed |-> TRUE, synced |-> chain[b][d].synced \/ sync]
<1>2. chain' = [chain EXCEPT ![b] = [@ EXCEPT ![d] = after]]
    BY <1>1 DEF ForeignBundle
<1>3. after.deployed = TRUE /\ (chain[b][d].synced = TRUE => after.synced = TRUE)
    OBVIOUS
<1> HIDE DEF after
<1>4. chain'[a][c] = chain[a][c] \/ (a = b /\ c = d /\ chain'[a][c] = after)
    BY <1>2
<1> QED
    BY <1>3, <1>4

LEMMA ChainIsChain == ASSUME NEW o \in Ops PROVE Chain(o) \in Chains
    BY ConstantsAssumption DEF Chain, Chains

\* What a wallet has on a chain it keeps.
LEMMA ChainGrows ==
    ASSUME PartsOK, [Next]_vars, NEW a \in Accounts, NEW c \in Chains
    PROVE  /\ chain[a][c].deployed = TRUE => chain'[a][c].deployed = TRUE
           /\ chain[a][c].synced = TRUE => chain'[a][c].synced = TRUE
<1>1. CASE UNCHANGED chain
    BY <1>1
<1>2. CASE \E o \in Ops : Mine(o)
    BY <1>2, MineChain
<1>3. CASE ForeignCall
    BY <1>3, ForeignChain
<1>4. CASE SetAccountInfo \/ ViewWallet \/ StoreToken \/ UNCHANGED vars
    BY <1>1, <1>4 DEF SetAccountInfo, ViewWallet, StoreToken, vars
<1> QED
    BY <1>1, <1>2, <1>3, <1>4, OpWorld DEF Next

LEMMA NextPolygon == PartsOK /\ PolygonReady /\ [Next]_vars => PolygonReady'
    BY ChainGrows DEF PolygonReady, Chains

\* A plan that lacks nothing goes on lacking nothing.
LEMMA CompleteStays ==
    ASSUME PartsOK, [Next]_vars, account \in Accounts, NEW p \in Ops, Complete(p),
           UNCHANGED account, plan'[p] = plan[p]
    PROVE  Complete(p)'
BY ChainGrows, ChainIsChain DEF Complete, Has

\* So an operation keeps it, whose plan and whose signed calls a step leaves alone.
LEMMA FreshFrame ==
    ASSUME PartsOK, [Next]_vars, account \in Accounts, NEW p \in Ops, FreshOf(p),
           UNCHANGED account, plan'[p] = plan[p], user'[p] = user[p],
           p \in sent' => /\ p \in sent \/ (plan[p] # <<>> /\ ~MoreToSign(p))
                          /\ signed'[p] = signed[p]
    PROVE  FreshOf(p)'
<1>1. plan[p] # <<>> => Complete(p)'
    BY CompleteStays DEF FreshOf
<1> QED
    BY <1>1 DEF FreshOf, MoreToSign

\* The plan is made of what the wallet lacks.
LEMMA PlanIsComplete ==
    ASSUME PartsOK, NEW o \in Ops, account \in Accounts, user[o] = account, PolygonReady, MakePlan(o)
    PROVE  Complete(o)' /\ plan'[o] \in Plans
<1> DEFINE c == chain[account][Chain(o)]
           elsewhere == Chain(o) # "polygon"
<1>1. PICK w \in BOOLEAN :
         plan' = [plan EXCEPT ![o] = Bundle(elsewhere /\ ~c.deployed, elsewhere /\ ~c.synced, w)]
    BY DEF MakePlan
<1>2. plan'[o] = Bundle(elsewhere /\ ~c.deployed, elsewhere /\ ~c.synced, w)
    BY <1>1 DEF PartsOK, RouteOK
<1>3. /\ Has(plan'[o], "deploy") <=> (elsewhere /\ ~c.deployed)
      /\ Has(plan'[o], "sync") <=> (elsewhere /\ ~c.synced)
      /\ plan'[o] \in Plans
    BY <1>2, BundleHas, BundleIsPlan
<1>4. c.deployed \in BOOLEAN /\ c.synced \in BOOLEAN
    BY ChainAnswers DEF PartsOK
<1>5. ~elsewhere => c.deployed = TRUE /\ c.synced = TRUE
    BY DEF PolygonReady
<1>6. UNCHANGED <<account, chain>>
    BY DEF MakePlan
<1>7. Complete(o)' <=> /\ Has(plan'[o], "deploy") \/ c.deployed = TRUE
                       /\ Has(plan'[o], "sync") \/ c.synced = TRUE
    BY <1>6 DEF Complete
<1> HIDE DEF elsewhere, c
<1>8. Has(plan'[o], "deploy") \/ c.deployed = TRUE
    BY <1>3, <1>4, <1>5
<1>9. Has(plan'[o], "sync") \/ c.synced = TRUE
    BY <1>3, <1>4, <1>5
<1> QED
    BY <1>3, <1>7, <1>8, <1>9

\* The handlers keep the bundle of their own operation complete.
LEMMA OpFresh ==
    ASSUME PartsOK, NEW o \in Ops, account \in Accounts, AccountOf(o), StageOf(o), FreshOf(o),
           PolygonReady, [Next]_vars, Begin(o) \/ OpStep(o) \/ OpFails(o)
    PROVE  FreshOf(o)'
<1> USE DEF PartsOK, FlowOK, RouteOK
<1>0. UNCHANGED account
    BY OpWallet
<1>k. ASSUME UNCHANGED <<user, plan, signed>>, o \in sent' <=> o \in sent PROVE FreshOf(o)'
    BY <1>0, <1>k, FreshFrame
<1>a. ASSUME UNCHANGED <<user, plan, sent>>, o \notin sent PROVE FreshOf(o)'
    BY <1>0, <1>a, FreshFrame
<1>t. ASSUME UNCHANGED <<user, plan, signed>>, sent' = sent \cup {o}, pc[o] = "posted"
      PROVE  FreshOf(o)'
  <2>1. plan[o] # <<>> /\ ~MoreToSign(o)
      BY <1>t DEF StageOf, MoreToSign
  <2> QED
      BY <1>0, <1>t, <2>1, FreshFrame
<1>1. CASE Begin(o)
  <2>1. pc[o] = "idle" /\ UNCHANGED <<plan, signed, sent>>
      BY <1>1 DEF Begin
  <2> QED
      BY <2>1 DEF FreshOf, StageOf
<1>2. CASE MakePlan(o)
  <2>1. pc[o] = "plan" /\ UNCHANGED <<user, signed, sent>>
      BY <1>2 DEF MakePlan
  <2>2. user[o] = account /\ signed[o] = <<>> /\ o \notin sent
      BY <2>1 DEF AccountOf, StageOf
  <2>3. Complete(o)'
      BY <1>2, <2>2, PlanIsComplete
  <2> QED
      BY <1>0, <2>1, <2>2, <2>3 DEF FreshOf
<1>3. CASE Prepare(o) \/ MakeRawCall(o) \/ Send(o) \/ Network(o) \/ ReadNonce(o)
    BY <1>3, <1>k DEF Prepare, MakeRawCall, Send, Network, ReadNonce
<1>4. CASE TakeDeploy(o) \/ SignSync(o) \/ Sign(o)
  <2>1. pc[o] \in {"next", "sign"} /\ UNCHANGED <<user, plan, sent>>
      BY <1>4 DEF TakeDeploy, SignSync, Sign
  <2> QED
      BY <1>a, <2>1 DEF StageOf
<1>5.  CASE RequestAudit(o) \/ BackendAudits(o) \/ AuditAnswered(o)
    BY <1>5, <1>k DEF RequestAudit, BackendAudits, AuditAnswered
<1>6. CASE SignWithoutKey(o) \/ Post(o) \/ Poll(o) \/ WaitTimesOut(o)
    BY <1>6, <1>k DEF SignWithoutKey, Post, Poll, WaitTimesOut
<1>7. CASE RelayerTakes(o) \/ RelayerAnswerLost(o)
    BY <1>7, <1>t DEF RelayerTakes, RelayerAnswerLost
<1>8. CASE PlanFails(o) \/ NetworkFails(o) \/ AuditFails(o) \/ SignFails(o)
            \/ RelayerRefuses(o) \/ PollFails(o)
    BY <1>8, <1>k DEF PlanFails, NetworkFails, AuditFails, SignFails, RelayerRefuses, PollFails
<1> QED
    BY <1>1, <1>2, <1>3, <1>4, <1>5, <1>6, <1>7, <1>8 DEF OpStep, OpFails

LEMMA NextFresh ==
    ASSUME ~Switching, PartsOK, AccountOK, StagesOK, PolygonReady, FreshOK, [Next]_vars
    PROVE  FreshOK'
<1>0. account \in Accounts /\ \A p \in Ops : AccountOf(p) /\ StageOf(p) /\ FreshOf(p)
    BY DEF AccountOK, StagesOK, FreshOK
<1>1. CASE \E o \in Ops : Begin(o) \/ OpStep(o) \/ OpFails(o)
  <2>1. PICK o \in Ops : Begin(o) \/ OpStep(o) \/ OpFails(o)
      BY <1>1
  <2>2. FreshOf(o)'
      BY <1>0, <2>1, OpFresh
  <2>3. UNCHANGED account
      BY <1>0, <2>1, OpWallet
  <2>4. ASSUME NEW p \in Ops \ {o} PROVE FreshOf(p)'
    <3>1. /\ plan'[p] = plan[p] /\ signed'[p] = signed[p] /\ user'[p] = user[p]
          /\ p \in sent' <=> p \in sent
        BY <2>1, OthersAlone, OthersUnreported, OthersKeepUser
    <3> QED
        BY <1>0, <2>3, <3>1, FreshFrame
  <2> QED
      BY <2>2, <2>4 DEF FreshOK
<1>2. ASSUME UNCHANGED <<account, user, plan, signed, sent>>, NEW p \in Ops
      PROVE  FreshOf(p)'
    BY <1>0, <1>2, FreshFrame
<1>3. CASE \/ \E o \in Ops : Mine(o)
           \/ ViewWallet \/ StoreToken \/ ForeignCall \/ UNCHANGED vars
  <2>1. UNCHANGED <<account, user, plan, signed, sent>>
      BY <1>3 DEF Mine, ViewWallet, StoreToken, ForeignCall, vars
  <2> QED
      BY <1>2, <2>1 DEF FreshOK
<1>4. ~SetAccountInfo
    BY DEF SetAccountInfo
<1> QED
    BY <1>1, <1>3, <1>4 DEF Next

\* The signed calls of a sent operation are the parts of its plan, one by one.
LEMMA SentIsPlan ==
    ASSUME PartsOK, NEW o \in Ops, FollowsPlan(o), Fits(o), FreshOf(o), o \in sent
    PROVE  /\ DOMAIN signed[o] = DOMAIN plan[o] /\ DOMAIN plan[o] \subseteq Nat \ {0}
           /\ \A i \in DOMAIN plan[o] : signed[o][i].kind = plan[o][i]
           /\ \A i \in DOMAIN plan[o] : 1..i \subseteq DOMAIN plan[o]
<1>1. signed[o] \in Seq(Signed) /\ plan[o] \in Seq(Parts)
    BY PlanShape DEF PartsOK, SignedOK, RouteOK
<1>2. /\ Len(signed[o]) \in Nat /\ DOMAIN signed[o] = 1..Len(signed[o])
      /\ Len(plan[o]) \in Nat /\ DOMAIN plan[o] = 1..Len(plan[o])
    BY <1>1, LenProperties
<1>3. Len(signed[o]) = Len(plan[o])
    BY <1>2 DEF FreshOf, Fits, MoreToSign
<1>4. DOMAIN signed[o] = DOMAIN plan[o]
    BY <1>2, <1>3
<1> QED
    BY <1>2, <1>4 DEF FollowsPlan

LEMMA Shift ==
    ASSUME NEW n \in Nat, NEW m \in Nat, NEW l \in Nat, NEW f \in Nat, NEW i \in Nat,
           n - (l - f) = m + 1
    PROVE  n - (l - i) = m + (1 + (i - f))
OBVIOUS

\* A complete bundle of the account that begins with the wallet's next nonce executes.
LEMMA CompleteExecutes ==
    ASSUME PartsOK, NEW o \in Ops, o \in sent, ~Superfluous(o), account \in Accounts,
           StageOf(o), FollowsPlan(o), Fits(o), BundleOf(o), FreshOf(o),
           \A i \in MainCalls(o) : Place(o, i) = 1 =>
               signed[o][i].nonce = chain[target[o]][Chain(o)].nonce + 1
    PROVE  Executable(o)
<1> DEFINE c == chain[account][Chain(o)]
<1>1. target[o] = account /\ user[o] = account /\ Complete(o) /\ plan[o] \in Plans
    BY DEF BundleOf, FreshOf, PartsOK, RouteOK
<1>2. /\ DOMAIN signed[o] = DOMAIN plan[o] /\ DOMAIN plan[o] \subseteq Nat \ {0}
      /\ \A i \in DOMAIN plan[o] : signed[o][i].kind = plan[o][i]
      /\ \A i \in DOMAIN plan[o] : 1..i \subseteq DOMAIN plan[o]
    BY SentIsPlan
<1>3. c.nonce \in Nat /\ nonce[o] \in Nat /\ Len(signed[o]) \in Nat
    BY ChainAnswers, LenProperties DEF PartsOK, AuditOK, SignedOK
<1>4. c.deployed \in BOOLEAN /\ c.synced \in BOOLEAN
    BY ChainAnswers DEF PartsOK
<1>5. Deploys(o) <=> Has(plan[o], "deploy")
    BY <1>2 DEF Deploys, Has
<1>6. /\ Has(plan[o], "deploy") \/ c.deployed = TRUE
      /\ Has(plan[o], "sync") \/ c.synced = TRUE
    BY <1>1 DEF Complete
<1>s. (Deploys(o) => ~c.deployed) /\ (Syncs(o) => ~c.synced)
    BY <1>1 DEF Superfluous
<1>7. Deploys(o) # c.deployed
  <2>1. Deploys(o) \in BOOLEAN
      BY DEF Deploys
  <2> HIDE DEF c
  <2> QED
      BY <1>4, <1>5, <1>6, <1>s, <2>1
<1>8. ASSUME NEW i \in MainCalls(o) PROVE signed[o][i].nonce = c.nonce + Place(o, i)
  <2> DEFINE f == IF Deploys(o) THEN 2 ELSE 1
  <2>1. i \in DOMAIN plan[o] /\ i \in Nat \ {0} /\ signed[o][i].kind # "deploy"
      BY <1>2 DEF MainCalls
  <2>2. Deploys(o) => i # 1
    <3> SUFFICES ASSUME Deploys(o) PROVE i # 1
        OBVIOUS
    <3>1. PICK j \in DOMAIN plan[o] : plan[o][j] = "deploy"
        BY <1>5 DEF Has
    <3>2. j = 1
        BY <1>1, <3>1, PlanShape
    <3> QED
        BY <1>2, <2>1, <3>1, <3>2
  <2>3. f \in 1..i
      BY <2>1, <2>2
  <2>4. f \in DOMAIN plan[o]
      BY <1>2, <2>1, <2>3
  <2>5. f \in MainCalls(o)
    <3>1. ASSUME plan[o][f] = "deploy" PROVE FALSE
      <4>1. f = 1
          BY <1>1, <2>4, <3>1, PlanShape
      <4>2. Deploys(o)
          BY <1>5, <2>4, <3>1 DEF Has
      <4> QED
          BY <4>1, <4>2
    <3> QED
        BY <1>2, <2>4, <3>1 DEF MainCalls
  <2>6. Place(o, f) = 1 /\ Place(o, i) = 1 + (i - f)
      BY <2>1 DEF Place
  <2>7. signed[o][f].nonce = c.nonce + 1
      BY <1>1, <2>5, <2>6
  <2>8. IsNumbered(o, i) /\ IsNumbered(o, f)
      BY <1>2, <2>1, <2>4 DEF BundleOf
  <2>9. /\ signed[o][i].nonce = nonce[o] - (Len(signed[o]) - i)
        /\ signed[o][f].nonce = nonce[o] - (Len(signed[o]) - f)
      BY <2>1, <2>5, <2>8 DEF IsNumbered, MainCalls
  <2>10. f \in Nat
      OBVIOUS
  <2> HIDE DEF f, c
  <2>11. nonce[o] - (Len(signed[o]) - f) = c.nonce + 1
      BY <2>7, <2>9
  <2>12. nonce[o] - (Len(signed[o]) - i) = c.nonce + (1 + (i - f))
    <3>1. i \in Nat /\ nonce[o] \in Nat /\ Len(signed[o]) \in Nat /\ c.nonce \in Nat
        BY <1>3, <2>1
    <3> QED
        BY <2>10, <2>11, <3>1, Shift
  <2> QED
      BY <2>6, <2>9, <2>12
<1>9. ASSUME NEW i \in MainCalls(o), signed[o][i].kind = "call"
      PROVE  /\ signed[o][i].addr = target[o] /\ signed[o][i].owner = target[o]
             /\ c.synced \/ \E j \in 1..(i - 1) : signed[o][j].kind = "sync"
  <2>1. i \in DOMAIN plan[o] /\ i \in Nat \ {0} /\ plan[o][i] = "call"
      BY <1>2, <1>9 DEF MainCalls
  <2>2. signed[o][i].addr = target[o] /\ signed[o][i].owner = target[o]
      BY <1>1, <1>2, <1>9, <2>1 DEF BundleOf, IsNumbered
  <2>3. ASSUME c.synced = FALSE PROVE \E j \in 1..(i - 1) : signed[o][j].kind = "sync"
    <3>1. PICK j \in DOMAIN plan[o] : plan[o][j] = "sync"
        BY <1>6, <2>3 DEF Has
    <3>2. j < i
        BY <1>1, <2>1, <3>1, SyncFirst
    <3>3. j \in 1..(i - 1) /\ signed[o][j].kind = "sync"
        BY <1>2, <2>1, <3>1, <3>2
    <3> QED
        BY <3>3
  <2> QED
      BY <1>4, <2>2, <2>3
<1>10. ASSUME NEW i \in MainCalls(o), signed[o][i].kind = "sync" PROVE ~c.synced
    BY <1>10, <1>s DEF MainCalls, Syncs
<1> QED
    BY <1>1, <1>7, <1>8, <1>9, <1>10 DEF Executable

\* Between the plan of a bundle (innerGenerateTransferTx) and its mining, any number of
\* operations of the page, on the same chain too, and the user's other devices deploy the
\* wallet, synchronise its keyset and take nonces.  As long as nobody logs in or out, that
\* makes the first nonce stale or a part superfluous and spoils nothing else: a bundle of
\* which neither is true executes.
THEOREM FreshTheorem == ASSUME ~Switching PROVE Spec => []FreshBundleExecutes
<1>1. Init => AccountOK /\ BundlesOK /\ PolygonReady /\ FreshOK
  <2> SUFFICES ASSUME Init PROVE AccountOK /\ BundlesOK /\ PolygonReady /\ FreshOK
      OBVIOUS
  <2>1. AccountOK
      BY DEF Init, AccountOK, AccountOf
  <2>2. BundlesOK
      BY DEF Init, BundlesOK, BundleOf, IsNumbered
  <2>3. PolygonReady
    <3> SUFFICES ASSUME NEW b \in Accounts
                 PROVE  /\ chain[b]["polygon"].deployed = TRUE
                        /\ chain[b]["polygon"].synced = TRUE
        BY DEF PolygonReady
    <3>1. PICK deployed \in BOOLEAN, synced \in BOOLEAN :
             chain = [a \in Accounts |-> [c \in Chains |->
                        IF c = "polygon" \/ deployed
                        THEN [nonce |-> 1, deployed |-> TRUE,
                              synced |-> c = "polygon" \/ synced]
                        ELSE [nonce |-> 0, deployed |-> FALSE, synced |-> synced]]]
        BY DEF Init
    <3> DEFINE on == "polygon" = "polygon" \/ synced
    <3>2. on = TRUE
        OBVIOUS
    <3>3. "polygon" \in Chains
        BY DEF Chains
    <3>4. chain[b]["polygon"] = [nonce |-> 1, deployed |-> TRUE, synced |-> on]
        BY <3>1, <3>3
    <3> HIDE DEF on
    <3> QED
        BY <3>2, <3>4
  <2>4. FreshOK
    <3>1. \A o \in Ops : plan[o] = <<>> /\ signed[o] = <<>> /\ o \notin sent
        BY DEF Init
    <3> QED
        BY <3>1 DEF FreshOK, FreshOf
  <2> QED
      BY <2>1, <2>2, <2>3, <2>4
<1>2. PartsOK /\ StagesOK /\ AccountOK /\ BundlesOK /\ PolygonReady /\ FreshOK /\ [Next]_vars
         => AccountOK' /\ BundlesOK' /\ PolygonReady' /\ FreshOK'
    BY NextAccount, NextBundles, NextPolygon, NextFresh
<1>3. PartsOK /\ StagesOK /\ FitsOK /\ AccountOK /\ BundlesOK /\ FreshOK => FreshBundleExecutes
    BY CompleteExecutes DEF FreshBundleExecutes, PartsOK, BackendOK, StagesOK, FitsOK, AccountOK,
                            BundlesOK, FreshOK
<1> QED
    BY <1>1, <1>2, <1>3, FitsInvariant, StageInvariant, TypeAndAddress, PTL DEF Spec

-----------------------------------------------------------------------------
(* The signer, when no wallet is only looked at.                           *)

\* From the second getInstance on a wallet of the page has a signFunc.
SignerOK ==
    \A o \in Ops : pc[o] \notin {"idle", "user", "failed"} => wallet.signer = TRUE

LEMMA NextSigner ==
    ASSUME PartsOK, ~Viewing, SignerOK, [Next]_vars
    PROVE  SignerOK'
<1> USE DEF PartsOK, FlowOK
<1>1. ASSUME NEW o \in Ops, Begin(o) \/ OpStep(o) \/ OpFails(o) PROVE SignerOK'
  <2>0. \A p \in Ops \ {o} : pc'[p] = pc[p]
      BY <1>1, OthersAlone
  <2>1. CASE wallet' = wallet /\ (pc'[o] \in {"user", "failed"} \/ pc[o] \notin {"idle", "user", "failed"})
      BY <2>0, <2>1 DEF SignerOK
  <2>2. CASE Prepare(o) \/ (Send(o) /\ wallet' # wallet)
    <3>1. wallet'.signer = TRUE
        BY <2>2 DEF Prepare, Send, GetInstance
    <3> QED
        BY <3>1 DEF SignerOK
  <2>3. CASE Begin(o)
      BY <2>1, <2>3 DEF Begin
  <2>4. CASE OpFails(o)
      BY <2>1, <2>4 DEF OpFails, PlanFails, NetworkFails, AuditFails, SignFails,
                        RelayerRefuses, RelayerAnswerLost, PollFails
  <2>5. CASE OpStep(o) /\ ~Prepare(o)
    <3>1. wallet' = wallet \/ (Send(o) /\ wallet' # wallet)
        BY <2>5 DEF OpStep, MakePlan, MakeRawCall, Network, ReadNonce, TakeDeploy, SignSync,
                    RequestAudit, BackendAudits, AuditAnswered, Sign, SignWithoutKey, Post,
                    RelayerTakes, Poll, WaitTimesOut
    <3>2. pc[o] \notin {"idle", "user", "failed"}
        BY <2>5 DEF OpStep, MakePlan, MakeRawCall, Send, Network, ReadNonce, TakeDeploy, SignSync,
                    RequestAudit, BackendAudits, AuditAnswered, Sign, SignWithoutKey, Post,
                    RelayerTakes, Poll, WaitTimesOut
    <3> QED
        BY <2>1, <2>2, <3>1, <3>2
  <2> QED
      BY <1>1, <2>2, <2>3, <2>4, <2>5
<1>2. CASE UNCHANGED <<pc, wallet>>
    BY <1>2 DEF SignerOK
<1>3. CASE \/ \E o \in Ops : Mine(o)
           \/ SetAccountInfo \/ StoreToken \/ ForeignCall \/ UNCHANGED vars
    BY <1>2, <1>3 DEF Mine, SetAccountInfo, StoreToken, ForeignCall, vars
<1>4. ~ViewWallet
    BY DEF ViewWallet
<1> QED
    BY <1>1, <1>3, <1>4 DEF Next

\* On a page that never calls wallet(), verifySignMessage, simulateTransactions or
\* checkLocalStatus, an operation whose audit was approved has the signer its caller gave
\* it, whoever logs in and however operations interleave: those four are the only cause
\* of the violation that the run ViewedSigner shows.
THEOREM SignerTheorem == ASSUME ~Viewing PROVE Spec => []ApprovedCallHasItsSigner
<1>1. Init => SignerOK
    BY DEF Init, SignerOK
<1>2. PartsOK /\ SignerOK /\ [Next]_vars => SignerOK'
    BY NextSigner
<1>3. SignerOK => ApprovedCallHasItsSigner
    BY DEF SignerOK, ApprovedCallHasItsSigner
<1> QED
    BY <1>1, <1>2, <1>3, TypeAndAddress, PTL DEF Spec
=============================================================================
