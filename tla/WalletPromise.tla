---------------------------- MODULE WalletPromise ----------------------------
(***************************************************************************)
(* What the provider promises to the caller of transaction, signMessage    *)
(* and generatePermit, without saying how it is done:                      *)
(*  - nothing the user must agree to leaves the page, or is signed for the  *)
(*    caller, before the user's approval for this call was given;           *)
(*  - a call that is reported as refused or failed never takes effect, and  *)
(*    the only reports that leave it open are the loss of the relayer's     *)
(*    answer and the timeout of the wait;                                   *)
(*  - a call takes effect at most once, and a receipt is one of its own.    *)
(* WalletPipeline is shown to implement it.                                *)
(***************************************************************************)
CONSTANT Ops

VARIABLES
    report,    \* what the caller knows of each call
    consented, \* the calls the user has approved
    upkeep,    \* the calls that only deploy or synchronise the wallet
    taken,     \* the calls the relayer has taken
    fate       \* what became of them on the chain

vars == <<report, consented, upkeep, taken, fate>>

Reports == {"open", "pending", "answered", "rejected", "lost"}

Init ==
    /\ report = [o \in Ops |-> "open"]
    /\ consented = {} /\ upkeep = {} /\ taken = {}
    /\ fate = [o \in Ops |-> "no"]

\* The report on a call moves from `before` to `after`.
Move(o, before, after) ==
    /\ report[o] = before
    /\ report' = [report EXCEPT ![o] = after]

\* The call turns out to have nothing the user must approve.
NeedsNoConsent(o) ==
    /\ report[o] = "open" /\ o \notin taken
    /\ upkeep' = upkeep \cup {o}
    /\ UNCHANGED <<report, consented, taken, fate>>

Consent(o) ==
    /\ report[o] = "open" /\ o \notin upkeep
    /\ consented' = consented \cup {o}
    /\ UNCHANGED <<report, upkeep, taken, fate>>

\* The call ends without effect, now and later.
Reject(o) ==
    /\ Move(o, "open", "rejected") /\ o \notin taken
    /\ UNCHANGED <<consented, upkeep, taken, fate>>

\* A signature is handed to the caller.
Certify(o) ==
    /\ Move(o, "open", "answered") /\ o \in consented
    /\ UNCHANGED <<consented, upkeep, taken, fate>>

\* The relayer has the call, whether or not the caller learns of it.
Take(o) ==
    /\ Move(o, "open", "pending") \/ Move(o, "open", "lost")
    /\ o \in consented \cup upkeep
    /\ taken' = taken \cup {o}
    /\ UNCHANGED <<consented, upkeep, fate>>

Lose(o) ==
    /\ Move(o, "open", "lost") \/ Move(o, "pending", "lost")
    /\ UNCHANGED <<consented, upkeep, taken, fate>>

Settle(o) ==
    /\ o \in taken /\ fate[o] = "no"
    /\ \E f \in {"ok", "reverted"} : fate' = [fate EXCEPT ![o] = f]
    /\ UNCHANGED <<report, consented, upkeep, taken>>

Receipt(o) ==
    /\ Move(o, "pending", "answered") /\ fate[o] # "no"
    /\ UNCHANGED <<consented, upkeep, taken, fate>>

Next == \E o \in Ops :
    \/ NeedsNoConsent(o) \/ Consent(o) \/ Reject(o) \/ Certify(o)
    \/ Take(o) \/ Lose(o) \/ Settle(o) \/ Receipt(o)

Spec == Init /\ [][Next]_vars
=============================================================================
