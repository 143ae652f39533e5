# A TLA+ verification of UniPass-Wallet-JS

UniPass-Wallet-JS is the client side of a smart-contract wallet: a browser page
logs users in, asks a backend to audit what they want to sign, lets a
(two-party) master key sign it, and hands the signed calls to a relayer, which
has them executed by the user's wallet contract.  This directory keeps TLA+
models of the client's own logic, the TLC runs that check them on small
instances, and proofs for every value of the constants.

Paths below are under `src/packages/`.

## 1. Inventory

| component | state | operations | talks to |
|---|---|---|---|
| provider (`provider/src/index.ts`, `operate.ts`) | `config.accountInfo`, one `UnipassWalletProvider` | `transaction`, `sendTransaction`, `signMessage`, `signTypedDataMessage`, `generatePermit`, `wallet`, `verifySignMessage`, `simulateTransactions`, `setAccountInfo` | backend, wallets |
| wallets creator (`provider/src/utils/unipass.ts`) | **one** instance with a `Wallet` per chain; `address` and `keyset` of all of them are overwritten by every `getInstance` | `getInstance` | - |
| sign token (`provider/src/utils/storages.ts`) | `__oauth_info.up_sign_token` in localStorage | read by `tssAudit`, forgotten by `clearUpSignToken` when disposable | login page |
| wallet (`wallet/src/wallet.ts`) | `address`, `keyset` (mutable) | `signTransactions`, `signRawMainExecuteCall`, `signRawBundledExecuteCall`, `sendSignedTransactions`, `waitForTransaction`, `signMessage`, `signPermit` | relayer, key |
| relayer client (`relayer/src/rpcRelayer`) | - | `getNonce`, `relay`, `wait`, fees, `simulate` | relayer service |
| keys and keysets (`keys/src`) | the options of an e-mail/OpenID key, its `keyHash`, sign function | constructors, updates, `obscure`, JSON, `generateSignature`, keyset hash | wallets, backend |
| off-chain validation (`wallet/src/index.ts`) | - | `isValidSignature` | keys (same byte format) |
| session keys (`wallet/src/sessionKey.ts`, `permit.ts`) | permit, key store | `generatePermit`, `generateSignature` | wallet |
| account-layer builders (`transaction-builders/src`) | the change, its meta nonce, a signature | one builder per contract operation, each with its digest and role-weight threshold: constructor, `generateSignature`, `build` | wallet object, wallet contract |
| two-party keys (`provider/src/utils/tss.ts`) | session, `upAuthToken`, contexts of the worker | `generateLocalKey`, `generateTxSig`, `generateTssPermit` | backend, worker |
| EIP-4337 hook (`eip4337-hook/src`) | hooks on the chain | add, remove, `needAdd`, receipt polling | chain, bundler, paymaster |
| deployer (`deployer/src`) | contracts on the chain | `deployEip2470`, `deployContract`, `deployProxyContract` | chain |
| DKIM (`dkim`, `dkim-base`) | - | parsing of an e-mail and its subject | keys |
| keystore, storage, roles, network, ABIs | - | cryptography, thin wrappers, constants | - |

What is hard here:

* **Shared mutable wallets between awaits.**  All provider calls of a page use
  the same `Wallet` objects.  A call reads `wallet.address`, awaits the audit,
  and reads `wallet.address` and `wallet.keyset` again.
* **A chain of a dozen awaits over four services**, each of which can refuse,
  fail or lose its answer, while the user's approval and a signature have
  already been given.
* **Bundles**: on a new chain a deployment, a keyset synchronisation and the
  user's call are numbered, signed one after the other and executed as a whole.
* **One-time sign tokens** that several audits may carry at once.
* **The wait for a receipt** that may never come.
* **Signatures that outlive their moment**: a builder keeps one, an application hands
  it to another builder, the keyset that made it is replaced, a lock falls due.
* **Retry without limit** of key generation and signing, with a token the backend may
  have accepted already, while requests of the attempt before are still under way.

What makes each component correct: nothing is signed or sent that the user has
not approved; a call that is reported failed has no effect; a bundle is
complete, in order and of one wallet; every call ends; the keyset hash (the
wallet's identity) survives every conversion of a keyset; what the keys generate
is what the validators accept.

## 2. Plan

1. **`WalletPipeline`** - the provider pipeline, with `WalletPromise`, the
   abstract statement of what it promises, and two modules of proofs.  *Done.*
2. **Keys** - `OpenIDKey` and `EmailKey`: the two mailbox keys as state machines
   over their legal calls, with their proofs.  *Done.*
3. **`MessageSignature`** - the keys of plain accounts and contracts, permits and
   session keys: what `signMessage` and `signPermit` emit against what
   `isValidSignature` makes of it, with its proofs.  *Done.*
4. **`AccountLayer`** - the builders against the contract's time lock (external, as
   `sdk/tests/transaction.spec.ts` shows it), implementing `AccountPromise`, with its
   proofs.  *Done.*
5. **`Tss`** - key generation and signing: sessions, one-time `upAuthToken`s, keystores,
   the unbounded retry, implementing `KeyPromise`, with its proofs.  *Done.*
6. **`Eip4337Hook`** with its proofs, *done* for the hooks.
7. Left: the user operations and receipts of the EIP-4337 client; the deployer.

## 3. The modules

### WalletPipeline

The page's shared state is `account` (what `getUser()` finds), `wallet` (address
and keyset of every wallet of the `WalletsCreator`, and whether the keyset has a
`signFunc`) and `token` (the sign token in localStorage).  Every provider call is
an *operation* `o` with its own program counter `pc[o]` and local variables; an
action is the code between two awaits, and all operations interleave.

| action | code |
|---|---|
| `Begin`, `Prepare` | `getUser()` and the first `getInstance` of `innerGenerateTransferTx`, `genSignMessage`, `innerGeneratePermit` |
| `MakePlan`, `PlanFails` | `innerGenerateTransferTx`: which of deployTx, syncAccountExecute, callExecute there are |
| `MakeRawCall` | `operateToRawExecuteCall` (second `getUser()`, targets of the bundle) |
| `Send` | `sendTransaction` of `operate.ts` (third `getUser()`, second `getInstance`, `instance[chainType]`) |
| `Network`, `NetworkFails`, `ReadNonce` | `signTransactions` up to the nonce |
| `TakeDeploy`, `SignSync`, `RequestAudit` | one part of `signRawBundledExecuteCall` / `signRawMainExecuteCall` |
| `BackendAudits`, `AuditFails`, `AuditAnswered` | `api.tssAudit`, `clearUpSignToken` and what each caller does with the status |
| `Sign`, `SignWithoutKey`, `SignFails` | `digestTxHash`, `signMessage`, `signPermit`, the key's `signFunc` |
| `Post`, `RelayerTakes`, `RelayerAnswerLost`, `RelayerRefuses` | `sendSignedTransactions` |
| `Poll`, `PollFails`, `WaitTimesOut` | `waitForTransaction` |
| `SetAccountInfo`, `ViewWallet` | `setAccountInfo`; `wallet()`, `verifySignMessage`, `checkLocalStatus`, `simulateTransactions` |
| `StoreToken`, `Mine`, `ForeignCall` | the login page, the chain, and the same client on another device of the user (outside the page) |

Contents, calls, digests and signatures are abstract: an audited or signed content
is *who, with which nonce, for which operation*.  A digest is a function of
exactly these, so two digests are equal when these are.  The number and content
of transactions inside a call, fees, gas and the wire format are left out.

External parts are modelled from what the code sends and expects: the backend
approves, refuses or asks for a confirmation; the relayer's nonce is the wallet's
or, on any failure, 0 (`RpcRelayer.getNonce`); the chain executes a call whose
nonce follows the wallet's, and a bundle as a whole.  A synchronisation is refused when the
keyset is synchronised already, as its meta nonce is not beyond the wallet's.  Another
device runs the same client (`ForeignBundle`): what it sends deploys the wallet and
synchronises its keyset where that is missing, and executes a call or none.  So both
the nonces and the plan of a bundle become stale.  A change of the account's keyset by the
other device is not in this module (`AccountLayer` has it, for the builders).

`MaySign` is what each caller makes of the audit's answer: all sign after "Approved" only,
but for `innerGeneratePermit`, which signs unless the answer is one of the two others
(`IsNotStopped`).  The backend has three answers.

An account's keyset with its `signFunc` is what the caller of the provider passes,
for the account that was logged in when it called: this is an assumption on the
caller, and the weakest under which the provider could be right.

### WalletPromise

What a caller may rely on: nothing that needs the user's approval leaves the page,
or is signed for the caller, without it; a call reported rejected never takes
effect; the only reports that leave the effect open are a lost answer of the
relayer and the timeout of the wait; a receipt is of a call that took effect.
`WalletPipeline!Promise` maps the pipeline's state to it (`Report`, the operations
with an approval, those that are only upkeep), and `KeepsPromise` is its
specification.

### StepsLeft

`EveryCallEnds` says that a call ends, under fairness.  `StepsRunOut`, in `WalletPipeline` and
in `Tss`, is the part of it that asks nothing of the scheduler: a rank, the number of
steps a call can still take at most (`StepsLeft`), goes down with every step of the call
and never up, whatever the rest of the system does.  In the pipeline it counts four
steps for each part of the plan that is not signed yet, what the stage is worth
(`Ahead`), and the rounds of the wait; in `Tss` two steps for each request that is left,
and one request more for the second start.  So a call takes at most `MaxPolls + 24` steps,
and one with a token that is accepted once at most nine.

### MCWalletPipeline

The functions that say which operations a run has.  The other `MC` modules, below,
name symmetric sets, keysets, changes and passwords.

### OpenIDKey and EmailKey

A keyset holds the keys of a wallet; the hash of the keyset, made of the
`keyHash` of each, decides about the wallet's address and about every signature.
`OpenIDKey` is a `KeyOpenIDWithEmail` (mailbox and OpenID login of the user),
`EmailKey` a `KeyEmailDkim` (mailbox of a guardian).  Neither class has anything
concurrent; what is hard is that a key is prepared for a signature by several
calls in any order, each of which builds a new object out of the fields of the old.

| state | code |
|---|---|
| `key` | the object the caller goes on with: its options, hashes and signature type |
| `json` | the text `toJson` gave last |
| `identity`, `logins` | `keyHash` at creation, and the logins of the ID tokens given (of the model, for the properties) |

There is one action per method that makes or changes a key (`UpdateDkimParams`,
`UpdateIDToken`, `Obscure`, `ToJson`, `FromJson`, ...).  `New` and `Constructible`
are what the constructor computes and when it throws; a call that throws changes
nothing and is no step.  `generateSignature` changes nothing either: `CanSign` says
when it resolves, and `SignedKey` which key hash a verifier finds in the result.
`Obscure` of `OpenIDKey` has two outcomes, because `obscure()` overwrites the options
of the key it is called on as well: the caller may go on with either object.

Hashes are named by what they are taken of (no two contents collide); an e-mail is
its sender and the digest in its subject; a zero-knowledge proof is only there or not,
as the code compares it with nothing.  `rounds` of a `Hash` in `EmailKey` counts how
often `keyHash` was handed to the constructor as if it were the e-mail hash, which
every update does; `MaxRounds` bounds it.

### MessageSignature

One wallet, the key objects of its keyset, and what they have signed.

| state | code |
|---|---|
| `keys` | `keyset.keys`: one array, shared by every `Wallet` that `setKeyset` and `options` make |
| `made` | the raw signatures that holders of keys have made, also in calls that failed |
| `permits` | `permit` of each `SessionKey` |
| `store` | a `SessionKeyStore` an application keeps |
| `issued` | what `signMessage` returned, for whom and with which keyset (for the properties) |

`SignMessage`, `GeneratePermit`, `SignWithSession`, `FromSessionKeyStore`,
`RestoreKeyset` (`Keyset.fromJson(keyset.toJson())`) and `SetKeyset` are the methods
of the same names; `SignFails` is the rejected `Promise.all` of `signPermit`.  `StoreSession`
is the application's.  A digest is what it is computed of, and says whether its fields
were packed or ABI-encoded; recovering a signature over any other digest gives
`Nobody`.  `Part` is what `generateSignature` and `generateKey` emit for one key, `ParsedHash`,
`ParsedWeight` and `SignedWeights` what the parser finds, with the arithmetic of
`bytesToUint32`.  A key read from JSON is a new object of what was written (`Written`,
`Restored`), and the key that `fromSessionKeyStore` puts in the master key's place is a new
`KeySecp256k1` (`Authorized`).  How a mailbox key's hash is computed again from its JSON is
the subject of `OpenIDKey` and `EmailKey`; here it keeps it.  `ProvedHash` is what the account
contract (external) finds in a permit.  `getSigSize` of the EIP-4337 hook is here too, against the number
of bytes of the same parts.

### MCMessageSignature

Three keysets: a master key that weighs enough alone beside a mailbox, a master key and a
device that do together, beside a contract, and one whose master key is another one, beside
a guardian's mailbox (`KeyEmailDkim`).

### Eip4337Hook

`hooks` is the implementation that the wallet contract has for each selector of the
hook.  Clients read it (`getHooks`) and build the bundle of `getAddEIP4337HookTransaction`
or `getRemoveEIP4337HookTransaction` (`built`); the bundle is executed, reverted or
dropped later.  The contract is external; that `selfExecute` executes a bundle as a
whole, or not at all, is what `revertOnError` of all its transactions asks for.  A
bundle that finds what it was built for is not reverted; any other may be or not, as
the client's code does not say what adding over another hook or removing none does.

### AccountPromise

What the account layer promises about the four things that control a wallet: the
keyset in force, the keyset waiting behind the time lock, the length of the lock, the
implementation (`control`).  Each changes only with an agreement by keys of the keyset
in force, of enough weight for the kind of change; an agreement brings about one
change; without one, only a lock that is due comes into force.  `Changes` are the
operations with their arguments, `Weight` is `getSignRoleWeight`.  An agreement names
the *action type*, which `UpdateKeysetHash` and `UpdateKeysetHashWithTimeLock` share: an
agreement to one is an agreement to the other, as long as its weight is enough.
What weight is enough (`Enough`) is the contract's and an assumption of the project; no source
of the contract is in the repository.  `FreshTxIsAccepted` compares each builder's
`validateRoleWeight` with it.

### AccountLayer and MCAccountLayer

| state | code |
|---|---|
| `builder` | a builder object: its change, meta nonce, `signature`, and whether its own `generateSignature` gave it (`own`, of the model) |
| `call` | a `generateSignature` whose keys have signed: the signature, and the keyset of the wallet object since then |
| `granted`, `txs` | signatures made, transactions handed to the relayer |
| `control`, `metaNonce`, `now` | the wallet contract and the chain's clock (external) |
| `used` | signatures of executed transactions (for the promise) |

`New` is the constructor, which takes a kept signature as well.  `GenerateSignature` is
`generateSignature` up to the signed message, `Resolve` and `Rejects` what
`validateRoleWeight` makes of `getSignRoleWeight` afterwards.  `Overwrite` is `getInstance` of
the provider, which gives a shared wallet object another keyset in between.  `Send` is
`build` (ABI encoding throws for a missing signature).  `Execute` is the contract: a meta nonce
beyond its own, a signature of the keyset in force over this digest, and enough weight.
Whether a direct update or a synchronisation drops a pending lock is left open.

`MCAccountLayer` has a keyset of two keys that own the wallet only together and guard it
one by one for a delayed change, and a keyset of a single owner; and one change of each kind.

### Tss and MCTss

A call of `generateLocalKey` or `generateTxSig` is a protocol of three or two requests.

| state | code |
|---|---|
| `pc`, `step`, `attempt` | where the call is, and how often the recursion has started it |
| `token` | the `upAuthToken` of its next request |
| `share` | the key that `signContext2`, or the decrypted `localKey`, is a share of |
| `input`, `result` | arguments and what it resolves with |
| `net` | requests and answers under way |
| `spent`, `keys` | tokens the backend has seen, keys it has finished (external) |

`Request` is an `api` call with what is computed before it (`LocalWorks`: `encryptKeystore`
before `finishKeygen`, `decryptKeystore` before `startSign`); `Continue` and `Finish` take
its answer; `Fails` and `LocalFails` are the two nested `try` blocks, `Restart`: `null` or `""` if
the first step failed, everything again otherwise.  A failure may be of the answer, so
the request stays in `net` and the backend may handle it later (`Handle`).  The backend
accepts the tokens of the calls in `OneTime` once; what it does with others is not
assumed.  Neither `startMessageSign` nor `sign` compares the `address` it is given with the
share in the keystore; what two parties with shares of two keys make is a signature by
none (`SignedBy`, external).  A keystore is its content and its password; it opens with every password of
the same NFKC form (`Nfkc`), and some passwords have no UTF-8 encoding (`Malformed`).

### KeyPromise

What a caller of the two functions may rely on, without tokens, requests and attempts: a
key it is given is its own and finished by the backend, a signature is by the key it
asked for if it brought the share of this key and by none otherwise, a call ends once, with a key or with nothing, and no token that is
accepted once makes two keys.  The backend may finish a key when nobody waits for it any
more (`Make` has no guard on the call).  `Tss!Promise` maps the state to it: `asked` is the
`address` argument of a signature that has begun and the key of its keystore, `told` what a call that is done resolved with.

## 4. The runs

| run | question | instance |
|---|---|---|
| `PipelineTwo` | `FreshBundleExecutes`, `SignedWasApproved`, `BundleIsOneWallets`, `AnsweredTokenIsGone`: what can a stale plan spoil, and are two transactions of one account kept apart? | both on the same chain other than polygon, every state of deployment and synchronisation, two disposable tokens, another device up to nonce 2, no rounds of waiting; operations and tokens symmetric |
| `PipelineSwitch` | `SentWasApproved`, `KeepsPromise`: does the promise survive users logging in and out? | two accounts, a transaction and a permit |
| `PipelineLive` | `TypeOK`, `StepsRunOut`, and `EveryCallEnds` under fairness: does every call get an answer, and does nothing send it back? | a transaction and a message, two tokens (one disposable), two rounds of waiting |
| `SwitchSigned` (violated) | is what was signed what was audited, when another user logs in? | two accounts, two transactions |
| `ViewedSigner` (violated) | does an approved call keep its signer when somebody looks at the wallet? | one transaction |
| `OpenIDKeyUpdates` | `TypeOK`, `MailHashKept`, `LoginHashKept`, `SignatureProvesKey`, `PreparedKeySigns`: does a key stay itself, and does it sign when it was prepared? | two addresses, two logins, two digests, symmetric; ID tokens of any login |
| `EmailKeyUpdates` | `TypeOK`, `RawKeyHashKept`, `SignatureProvesKey`, `PreparedKeySigns` of a guardian's key | two addresses, peppers and digests, three rounds |
| `SignatureAll` | `TypeOK`, `ValidMeansApproved`, `SignedValidates`, `SigSizeIsExact`, `RestoredPermitCounts`: does what validates come from the account's keys, does what they sign validate, and what is the permit of a restored session good for? | three keysets with two master keys, two messages, a session key, two raw signatures, one signature kept |
| `RestoredMaster` (violated) | does a master key go on signing after a session key was restored? | one keyset, one message |
| `HookClients` | `TypeOK`, `FreshBundleTakesEffect`, `InstalledStays`: does a bundle do what it was built for, and what does a stale one? | two clients, two implementations, four selectors, adding and removing |
| `AccountChanges` | `TypeOK`, `FreshTxIsAccepted`, `KeepsAccountPromise`: does what `generateSignature` lets pass have the weight its operation needs, and do builders and contract keep the account's promise? | two builders, one on a shared wallet object, two keysets, all seven kinds of change, two meta nonces, two signatures, a clock of two times |
| `TssCalls` | `TypeOK`, `ReturnedKeyIsFinished`, `OneKeyPerToken`, `EveryCallEnds`, `StepsRunOut`, `KeepsKeyPromise`: what may a caller make of a key or a signature it gets, and does it get an answer? | two key generations, with and without a one-time token, a signature, three passwords, two attempts |

`CHECK_DEADLOCK FALSE` is set in the runs of the pipeline, of the account layer and of Tss: when
all calls have ended and nothing is stored, logged in, mined or executed any more the
page rests.

**Bounds.**  `MaxPolls` is the `timeout` argument of `wait()` (30 in the code); one
or two rounds contain the first, a middle and the last, and `PipelineTwo`, which is about what
happens before, has none.  `MaxForeign` bounds the
nonce up to which another device executes bundles: 2 lets it synchronise and call at once or
one after the other, and a nonce be stale by more than one.  Two operations are enough
for every interference that goes through the shared wallets and the shared token,
because an operation touches nothing else of another (a transaction on polygon, where every
wallet is deployed and synchronised, is in `SwitchSigned` and in the proofs); two accounts are enough for
a switch away and back.  Two addresses, logins and digests let the e-mail or token
at hand be the right or a wrong one, which is all a key compares.  `MaxMade = 2` raw signatures and `MaxIssued = 1` kept
signature are enough for two signers, or a stored permit and a message, and every property of
`MessageSignature` is about one signature at a time; two messages tell the right from
a wrong one and are symmetric.  The two times of its clock are of 2022, so that their
first byte is not zero, as for every time since 1970's first half year.  Two clients
are enough for a stale bundle.  Two builders with two signatures and two meta nonces let a
signature be kept, handed on, used up or outlive its keyset; `MaxTime = 1` is past the
length of the lock.  `MaxAttempts = 2`: a call is refused at its second start when its token
is accepted once, and an attempt interferes only with those before it.
The proofs below have no bounds (but for `MaxRounds`, `MaxMade`, `MaxIssued`, `MaxGrants`, `MaxTime` and
`MaxAttempts`, which are any numbers; `MaxAttempts` at least 2).

**Fairness.**  `WF` on `OpStep(o)` for every operation: the event loop resumes an
operation whose await is settled, and every request is settled in the end (axios
has a timeout of ten minutes, a `fetch` ends with the connection).  There is no
fairness for `Mine`, for logging in, or for failures.  In `Tss` it is `WF` on `CallStep(c)`, for
the same reason; the backend is not assumed to answer, as a lost answer is a failure that
settles the request.  That a call ends although it may start again for ever rests on the
token: an attempt that goes past its first step has spent the token it was given, so the
next start is refused and gives up.

**What the violated runs show.**

* `SwitchSigned`: `signRawMainExecuteCall` audits `this.address` and, after the
  await, digests and signs with `this.address` and `this.keyset` as they are then.
  Between the two another user's call can have reset both.  `SignedTheorem` proves
  that the switch of accounts is the only way to this.
* `ViewedSigner`: looking at the wallet replaces the keyset of all wallets by one
  loaded from JSON, which cannot sign; a transaction that was just approved fails.
  `SignerTheorem` proves that the views are the only way to this: without them the property
  holds, also while users log in and out.
* `RestoredMaster`: `fromSessionKeyStore` puts a key that always returns the stored
  authorization into the keyset all wallets share, and leaves it there.

**What else the models show**, without a run of its own because it is one line of
code, or because no text of the repository says otherwise:

* `provider/src/index.ts:119` passes `chain` and not `_chain` to the sending, so that a
  transaction without chain always rejects (`Send` with `ChainOf` omitted).
* `wallet/src/wallet.ts:267` compares the nonce with `constants.Zero` by identity: a wallet
  that is not deployed, or whose relayer is down, is not refused with "Has Not
  Deployed" (`ReadNonce` has no such branch).
* `wallet/src/index.ts:57` ABI-encodes what `wallet/src/permit.ts:36` packs: no signature of a
  session key validates off the chain (`PermitDigest` and `CheckedDigest`).
  `ValidMeansApproved` therefore says little of session keys, and `SignedValidates` is
  about signatures without one; `RestoredPermitCounts` is about the digest that permits are
  made for.
* A plan is made once.  A bundle whose wallet was deployed or synchronised by somebody else
  between its plan (`operate.ts:66-137`) and its mining has a part too many and fails on the
  chain although its nonce is fresh; nothing plans it again (`Superfluous`).  No text of the
  repository says that it would succeed.
* `generateTxSig` hands `address` and the share of `localKey` to the two sides of the protocol
  without comparing them, nor what it gets with the address.
* `keys/src/keyOpenIDWithEmail.ts:206` looks for the e-mail where `toJson` does not write it,
  and takes signature type 0 for a missing one (`Restored`).
* `updateIDToken` accepts a token of another login and changes the key hash with it
  (why `LoginHashKept` speaks of `logins`).
* An obscured guardian's key that is updated gets another key hash (why
  `RawKeyHashKept` is about raw keys).
* `eip4337-hook/src/utils.ts:118` and `unipassAccountApi.ts:137` negate a promise: no caller is
  ever told to add the hook.  The two functions are not modelled.
* `wallet/src/index.ts:46` has the comparison with the clock the wrong way round, and
  `bytesToUint32` (line 67) does not scale the first byte, so that no timestamp is ever in the
  future: an expired permit is never refused as expired (`ThrowsExpired`).
* `baseTxBuilder.ts:48` weighs the keys of the wallet object as it is after they have signed.
  With a wallet object of the provider, whose keyset `getInstance` overwrites, a builder
  can resolve with a signature that is too light, or reject a good one: this is why
  `FreshTxIsAccepted` is about the builders outside `Shared`.  Only the contract then keeps the
  promise.
* `updateKeysetHashWithTimeLockTxBuilder.ts:48` signs the digest of `updateKeysetHashTxBuilder.ts:50`: an
  agreement to a delayed change with the weight of an immediate one can be used for that.
* A builder collects the keys' signatures before it weighs them, so that they exist also
  when it throws (`granted` keeps them).  `generateSignature` of an unlock always throws.
* `tss.ts:185` and `:202` repeat whatever failed, also what cannot succeed (a password without
  encoding): with a token that the backend accepts again the recursion has no end
  (`Restart` reaches `MaxAttempts`; why `EveryCallEnds` is about `OneTime`).
* `generateLocalKey` may answer `null` while the backend has finished a key for it, when the
  answer of `finishKeygen` was lost (`keys` without a `result`); `OneKeyPerToken` says it is one.
* `deployer/src/deployer.ts:45` compares two BigNumbers with `<`, that is their decimal strings.
  Not modelled.
* A client that adds the hook with a bundle built before another one removed it leaves
  it half installed; the next bundle repairs it.

## 5. The proofs

* `WalletPipelineProofs` - `TypeCorrect`: `Spec => []TypeOK`.  `TypeOK` is split
  into parts by the steps that change them (`FlowOK`, `PageOK`, ...).  It is not
  inductive alone: the nonce an operation reads is a number only because the
  address it asks for is a user's, which holds because every `getInstance` between
  `Prepare` and `ReadNonce` gave the wallets a user's address (`AddressOK`).
  `TokenTheorem`: `Spec => []AnsweredTokenIsGone`, which is inductive as it stands: every
  answered audit clears a disposable token, and the login page stores only unspent ones.
  `PlanShape` says which bundles there are, for the proofs below: nothing, upkeep alone,
  or something with the user's call; a deployment comes first.
* `WalletApprovalProofs` -
  * `SentTheorem`: `Spec => []SentWasApproved`, whoever logs in or out.  The
    strengthening `ApprovalOK` follows an approval through the steps: after the
    answer "Approved", and when about to sign, the audited content is among the
    approvals; its nonce is the one that will be signed; a signed call keeps its
    approval.
  * `SignedTheorem`: without a switch of accounts, `Spec => []SignedWasApproved`.
    It adds `AccountOK`: the wallets' address is the account's whenever an
    operation is under way, so that the address read after the audit is the one
    read before it.
  * `PipelineRefinement`: `Spec => KeepsPromise`, whoever logs in or out.  `StagesOK` says
    what an operation has got to by where it stands (`StageOf`: no result before its end, a
    plan before a call is sent, not at the relayer before it is posted) and that it signs
    the parts of its plan in their order (`FollowsPlan`).  So a plan of which every part is
    signed is upkeep or has a signed call, which `ApprovalOK` shows approved; that is what
    `Take` of the promise asks for (`PostedHasConsent`).  Every handler is then one step of
    the promise, or none (`OpPromises`).
  * `BundleTheorem`: without a switch of accounts, `Spec => []BundleIsOneWallets`, although
    `wallet()` may replace the keyset's signer meanwhile.  `BundleOf` adds that the wallets'
    keyset is the account's, that main calls go to the account, and that the i-th signed
    call has the nonce `nonce - (Len - i)`: counted from the last one, which every step that
    signs keeps true because a deployment, the one part without a nonce, comes first.
  * `RejectedTheorem`: what the abstract promise implies is proved of `WalletPromise` alone
    (`PromiseInv`, `PromiseMoves`) and carried over by the refinement: a call reported as
    rejected is not at the relayer and nothing became of it (`RejectedStaysOut`), and what a
    caller was told is never taken back (`ToldForGood`).
  * `StepsTheorem`: `Spec => StepsRunOut`, whoever logs in or out.  The rank is a number only
    because no more is signed than the plan asks for (`FitsOK`); it goes down because each
    handler either moves to a stage that is worth less or signs a part that is left
    (`OpSteps`), and no other operation touches what it is made of (`StepsFrame`).
  * `FreshTheorem`: without a switch of accounts, `Spec => []FreshBundleExecutes`, however many
    operations of the page are on the same chain and whatever another device deploys and
    synchronises: a bundle whose first nonce is the wallet's, and none of whose parts has
    become superfluous, executes.  `Superfluous` is needed: of two first transactions on one
    chain both are planned with the deployment, and one that reads its nonce after the
    other was mined has a fresh nonce and a deployment too many.
    `FreshOf` says what the plan of an operation under way has to do with the chain: it lacks
    no part, as it deploys the wallet if that is not deployed and synchronises it if that is
    not synchronised (`Complete`).  Whoever executes something, a wallet is never less deployed
    or synchronised than before (`ChainGrows`), so that this stays true (`CompleteStays`).  What is
    posted is the whole plan (`SentIsPlan`), so that a bundle whose first nonce is the wallet's has
    all it needs in the right order (`CompleteExecutes`).
  * `SignerTheorem`: with no view of the wallet, `Spec => []ApprovedCallHasItsSigner`: from the
    first `getInstance` of any operation on, every one hands over a keyset with a `signFunc`.

* `OpenIDKeyProofs` - `KeyTypeCorrect`, `MailHashTheorem`, `LoginHashTheorem`, `SignatureTheorem`,
  `PreparedTheorem`.  The invariant adds what the constructor
  establishes (`Sound`: the stored hashes are those of the options, the claims those of
  the token, a raw e-mail's sender is the key's) and that the JSON would give such a key
  again (`JsonSound`).  Every action but `Obscure` goes through the constructor, so one
  lemma (`RenewKeepsInv`) serves them all; `Obscure` is safe because it changes the
  type together with the address, after which the hash is never computed again.
  `PreparedTheorem` is `Spec => PreparedKeySigns`, an action property: what a preparing call put
  into the key passes the constructor unchanged (`NewKeeps`), and is all that `CanSign` asks for.
* `EmailKeyProofs` - `EmailTypeCorrect`, `RawKeyHashTheorem`, `EmailSignatureTheorem`,
  `EmailPreparedTheorem`, along the same line.

* `MessageSignatureProofs` - `SignatureTypeCorrect`, `ValidMeansApprovedTheorem`,
  `RestoredPermitTheorem`, `IssuedSizeTheorem`, `SignedValidatesTheorem`.  `SignatureInv` adds `Backed` to the types: every
  raw signature inside a `signFunc`, a permit, the store or an issued signature was made
  by its holder.  `ValidatedIsApproved` turns a successful validation into the set of places
  whose holders signed: the parsed hash equals the keyset's, so that the parts and the
  keys have the same length, addresses and weights, and a part that signs recovers
  to an address only from a raw signature in `made` over this digest.  `IssuedOK` says that a
  message's signature is what `signPermit` made of its keyset, which gives its size
  (`SigSizeTheorem`) and, conversely, that it validates (`ParsedIsKeyset`,
  `SignedWeightsAre`).  The last holds under an assumption of the theorem itself: no
  weight of a keyset reaches 2^24 (`Light`), because `bytesToUint32` adds the top byte of a
  number to its other three instead of shifting it.  `RestoredPermitTheorem`: `Spec =>
  RestoredPermitCounts`; `StoreOwn` says that a stored authorization is over the permit of its own
  session, so that the master key's place in the permit recovers to whoever made it, and
  every other place is the keyset's (`RestoredParts`).
* `Eip4337HookProofs` - `HookTypeCorrect`, `FreshBundleTheorem`, `InstalledStaysTheorem`.  `HookInv` says that a
  bundle is the one the code builds for the hooks it was read from; such a bundle fits
  them, so that it cannot revert, and removes only where it adds, so that it takes
  nothing of its own implementation away.
* `AccountLayerProofs` - `AccountTypeCorrect`, `FreshTxTheorem`, `AccountRefinement`.  `AccountInv` adds
  to the types `Backed` (every signature in a builder, a call or a transaction was made by
  keys: it is in `granted`), `OwnInv` (of a builder with a wallet object of its own: the
  keyset weighed is the one that signed, and what it kept by itself is over its own digest
  and weighs enough) and `UsedIsPast` (a used signature's meta nonce is not beyond the
  wallet's).  The refinement maps each variable to the one of the same name: a transaction
  that is accepted has a signature in `granted`, by the keyset in force, and not in
  `used`, because its digest has a meta nonce beyond the wallet's (`AcceptedIsNew`).
* `TssProofs` - `TssTypeCorrect`, `ReturnedKeyTheorem`, `OneKeyTheorem`,
  `StepsTheorem`, `KeyRefinement`.  `TssInv` says
  what a call knows at each step (`CallOK`: its share is of this attempt's session) and what a
  message under way proves (`KeyMessageOK`: the answer to `finishKeygen` means the key is
  finished; `SignMessageOK`).  `OnceOK` follows a one-time token: whatever is past the first
  request is of the first attempt, and has spent the token, so every key is of the
  first attempt.  `StepsTheorem` rests on both: a call that is past its first step is in its
  first attempt, so that it has two requests left at least when it starts again, and the second
  start has one.  `KeyRefinement`: `Spec => KeepsKeyPromise`; the end of a call is `Give` or
  `GiveUp` (`CallKeeps`, `OneCall`), a late request that is handled is `Make`, which `OnceOK`
  shows to be the only one of its token (`HandleKeeps`), all other steps are none.

The assumptions are `ConstantsAssumption` (the kinds and chains of operations, and
that the special tokens are not tokens), `OpenIDKeyAssumption` (undefined is no token and no set of DKIM parameters),
`EmailKeyAssumption` (the bound is a number, and undefined no DKIM parameters), `MessageSignatureAssumption` (the keysets are
sequences of fresh keys, and nobody holds the key `Nobody`), `HookAssumption` (the zero
address is no implementation), `LayerAssumption` (keysets are sequences of weights, delays and
nonces numbers, the changes wanted are changes) and `TssAssumption` (key generations and
signatures are different calls, `Nfkc` is a function on passwords) with `NoneAssumption` (`None` is no
key); sets may be infinite.

Only model-checked: liveness itself (`EveryCallEnds`, of calls and of two-party generation).
A temporal proof from fairness, with `ENABLED`, is out of this prover's reach; what is proved
of it is `StepsRunOut`, so that a call can go on for ever only by standing still.  Whether an
operation that has not ended has always a step to take is left to the run.

## 6. Not modelled

The components without a module in section 1 have no control of their own that a model
could get wrong: WebCrypto and IndexedDB wrappers, tables of weights and error codes,
network contexts and ABIs; the deployer, which asks the chain before each of its steps;
the parsing of an e-mail (`dkim`, `dkim-base`), a function of its text; `TxExcutor` of the
sdk, which is the loop of `signPermit` again.  Scrypt, AES and the arithmetic of the
shares are ideal.  Of the modelled components: `generateTssPermit` and the byte form of a
two-party signature, the EIP-4337 client's user operations, gas estimation, simulation of fees, ABI encoding, and the login,
sign-up and OTP requests of `api/backend.ts`.
