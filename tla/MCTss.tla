-------------------------------- MODULE MCTss --------------------------------
(* Passwords for the runs of Tss: two spellings of one password, another that   *)
(* cannot be encoded.                                                          *)
EXTENDS Tss

CONSTANTS plain, spelled, broken

AllPasswords == {plain, spelled, broken}
OneForm == [p \in AllPasswords |-> IF p = spelled THEN plain ELSE p]
=============================================================================
