---------------------------- MODULE MCOpenIDKey -----------------------------
(***************************************************************************)
(* An instance of OpenIDKey for TLC: no address, login or digest is special.  *)
(***************************************************************************)
EXTENDS OpenIDKey, TLC

KeySymmetry == Permutations(Emails) \cup Permutations(Subjects) \cup Permutations(Digests)
=============================================================================
