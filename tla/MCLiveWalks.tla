---------------------------- MODULE MCLiveWalks ----------------------------
(***************************************************************************)
(* An instance of LiveWalks for TLC.  Contents and clients are             *)
(* interchangeable; the names are not, one of them may begin with a dot.   *)
(***************************************************************************)
EXTENDS LiveWalks, TLC

Symmetry == Permutations(Hashes) \cup Permutations(Clients)
=============================================================================
