------------------------------ MODULE KeyPromise ------------------------------
(***************************************************************************)
(* What generateLocalKey and generateTxSig promise to their callers, without *)
(* the tokens, the requests and the attempts by which it is done:           *)
(*  - a key that a caller is given is its own, and the backend has finished  *)
(*    it; it may have finished others for the same call, before or after,    *)
(*    but no second one for a token that it accepts once;                    *)
(*  - a signature is by the key the caller asked for, one that an earlier    *)
(*    call gave away, if the caller brought the share of this key; if it     *)
(*    brought another one, the signature is by no key;                      *)
(*  - a call ends once: with what it gives, or with nothing.                 *)
(* Tss is shown to implement it.                                            *)
(***************************************************************************)
CONSTANTS
    Keygens, \* the calls of generateLocalKey
    Signs,   \* the calls of generateTxSig
    OneTime, \* the calls whose token is accepted once
    Keys,    \* the keys there can be, each with the call it is made for
    None

VARIABLES
    keys,  \* the keys the backend has finished
    asked, \* the key that each signature is asked of, and the one whose share is brought
    told,  \* the key that each call gave, or signed with
    given, \* the calls that have given one
    gaveup \* the calls that have ended with nothing

vars == <<keys, asked, told, given, gaveup>>

Ended == given \cup gaveup

Init ==
    /\ keys = {} /\ given = {} /\ gaveup = {}
    /\ asked = [c \in Signs |-> [address |-> None, share |-> None]]
    /\ told = [c \in Keygens \cup Signs |-> None]

\* The backend finishes a key, whether or not its call still waits for it.
Make(k) ==
    /\ k.call \in OneTime => \A j \in keys : j.call # k.call
    /\ keys' = keys \cup {k}
    /\ UNCHANGED <<asked, told, given, gaveup>>

GivenAway(k) == \E d \in Keygens : d \in given /\ told[d] = k

Ask(c, k, l) ==
    /\ asked[c].address = None /\ c \notin Ended
    /\ GivenAway(k) /\ GivenAway(l)
    /\ asked' = [asked EXCEPT ![c] = [address |-> k, share |-> l]]
    /\ UNCHANGED <<keys, told, given, gaveup>>

\* The call is over and has given k.
Give(c, k) ==
    /\ c \notin Ended
    /\ told' = [told EXCEPT ![c] = k]
    /\ given' = given \cup {c}
    /\ UNCHANGED <<keys, asked, gaveup>>

GiveKey(c, k) == k.call = c /\ k \in keys /\ Give(c, k)

GiveSignature(c) ==
    /\ asked[c].address # None
    /\ Give(c, IF asked[c].share = asked[c].address THEN asked[c].address ELSE None)

GiveUp(c) ==
    /\ c \notin Ended
    /\ gaveup' = gaveup \cup {c}
    /\ UNCHANGED <<keys, asked, told, given>>

Next ==
    \/ \E k \in Keys : Make(k)
    \/ \E c \in Signs, k, l \in Keys : Ask(c, k, l)
    \/ \E c \in Keygens, k \in Keys : GiveKey(c, k)
    \/ \E c \in Signs : GiveSignature(c)
    \/ \E c \in Keygens \cup Signs : GiveUp(c)

Spec == Init /\ [][Next]_vars
=============================================================================
