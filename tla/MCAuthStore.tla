---------------------------- MODULE MCAuthStore ----------------------------
(***************************************************************************)
(* Instances of AuthStore for TLC.                                         *)
(***************************************************************************)
EXTENDS AuthStoreTable, TLC

Symmetry == Permutations(Names) \cup Permutations(Tokens)
=============================================================================
