----------------------------- MODULE MCDataDir -----------------------------
(***************************************************************************)
(* An instance of DataDir for TLC.  The archive has every file; all its    *)
(* aliases name one blob.  Requests are interchangeable.                   *)
(***************************************************************************)
EXTENDS DataDir, TLC

MCArchive ==
    LET h == CHOOSE x \in Hashes : TRUE
    IN [f \in Files |-> IF f \in Keys THEN h ELSE f]

Symmetry == Permutations(Clients)
=============================================================================
