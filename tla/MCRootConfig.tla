---------------------------- MODULE MCRootConfig ----------------------------
(***************************************************************************)
(* Instances of RootConfig for TLC; commands and tokens are                *)
(* interchangeable.                                                        *)
(***************************************************************************)
EXTENDS RootConfig, TLC

Symmetry == Permutations(Commands) \cup Permutations(Roots)
=============================================================================
