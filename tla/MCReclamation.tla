--------------------------- MODULE MCReclamation ---------------------------
(***************************************************************************)
(* An instance of Reclamation for TLC.                                     *)
(***************************************************************************)
EXTENDS Reclamation, BlobStoreMap
=============================================================================
