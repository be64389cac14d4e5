-------------------------- MODULE MCNamespaceLife --------------------------
(***************************************************************************)
(* Instances of NamespaceLife for TLC: object paths, tokens and requests   *)
(* are interchangeable.                                                    *)
(***************************************************************************)
EXTENDS NamespaceLife, TLC

Symmetry == UNION {Permutations(S) : S \in {Paths, Tokens, Requests}}
=============================================================================
