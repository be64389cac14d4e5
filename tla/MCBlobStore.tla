---------------------------- MODULE MCBlobStore ----------------------------
(***************************************************************************)
(* Instances of BlobStore for TLC.  Namespaces, object names, contents and *)
(* clients are interchangeable model values; every property the instances  *)
(* check is a safety property, for which the symmetry is sound.            *)
(***************************************************************************)
EXTENDS BlobStoreMap, TLC

Symmetry ==
    UNION {Permutations(S) : S \in {Namespaces, Names, Hashes, Clients, Collectors}}
=============================================================================
