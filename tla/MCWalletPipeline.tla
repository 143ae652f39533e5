-------------------------- MODULE MCWalletPipeline --------------------------
(***************************************************************************)
(* Instances of WalletPipeline for TLC: which provider method each         *)
(* operation of the page calls, and on which chain.  Operation o1 is       *)
(* always a transaction on a chain other than polygon, where bundles occur. *)
(***************************************************************************)
EXTENDS WalletPipeline, TLC

CONSTANTS o1, o2

AloneKind == o1 :> "transaction"
AloneOther == o1 :> "other"

TwoTransactions == o1 :> "transaction" @@ o2 :> "transaction"
TransactionAndMessage == o1 :> "transaction" @@ o2 :> "message"
TransactionAndPermit == o1 :> "transaction" @@ o2 :> "permit"
BothOther == o1 :> "other" @@ o2 :> "other"
OtherAndPolygon == o1 :> "other" @@ o2 :> "polygon"

\* Both operations are alike, and so are the tokens when all are disposable.
TwoSymmetry == Permutations({o1, o2}) \cup Permutations(Tokens)
=============================================================================
