------------------------- MODULE MCMessageSignature -------------------------
(***************************************************************************)
(* Instances of MessageSignature for TLC: an account whose master key weighs   *)
(* enough alone, one with another master key, and one where a master key and a     *)
(* device sign together, beside mailboxes or a contract.                            *)
(***************************************************************************)
EXTENDS MessageSignature, TLC

CONSTANTS master, device, mailbox, contract

Weight(owner, assetsOp) == [owner |-> owner, assetsOp |-> assetsOp, guardian |-> 0]

Key(class, address, weight, signs) ==
    [class |-> class, address |-> address, weight |-> weight, signs |-> signs, auth |-> None]

Alone ==
    <<Key("KeySecp256k1", master, Weight(40, 100), TRUE),
      Key("KeyOpenIDWithEmail", mailbox, Weight(60, 0), TRUE)>>

Together ==
    <<Key("KeySecp256k1", master, Weight(40, 40), TRUE),
      Key("KeySecp256k1Wallet", device, Weight(100, 60), TRUE),
      Key("KeyERC1271", contract, Weight(0, 100), FALSE)>>

\* After a recovery: the device's key is the master key.
Recovered ==
    <<Key("KeySecp256k1", device, Weight(100, 100), TRUE),
      Key("KeyEmailDkim", mailbox, Weight(60, 0), TRUE)>>

AllKeysets == {Alone, Together, Recovered}
AloneKeysets == {Alone}

\* 8 July 2022, and a minute later.
Clock == {1657260000, 1657260060}

MessageSymmetry == Permutations(Messages)
=============================================================================
