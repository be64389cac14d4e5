---------------------------- MODULE BlobStoreMap ----------------------------
(***************************************************************************)
(* BlobStore implements ObjectMap, beside any number of collectors.  The   *)
(* map is the alias files; an upload takes effect when writeAlias renames  *)
(* the alias, a delete when it unlinks it, a read when GetObject has read  *)
(* it: the blob it opens next is content-addressed and can only be the     *)
(* same, or gone, which takes a collector.                                 *)
(***************************************************************************)
EXTENDS BlobStore

\* The request as its client sees it: an open read has settled already.
ClientCall(c) ==
    [phase |-> CASE pc[c] = "idle" -> "idle"
                 [] pc[c] \in {"open", "reply"} -> "settled"
                 [] OTHER -> "pending",
     op |-> op[c],
     scope |-> CASE pc[c] = "purge" -> todo[c]
                 [] pc[c] \in {"idle", "open", "reply"} -> {}
                 [] OTHER -> {key[c]},
     value |-> IF pc[c] = "unlink" THEN NoHash ELSE hash[c],
     result |-> IF pc[c] = "open" THEN "ok" ELSE status[c]]

Map == INSTANCE ObjectMap WITH
    Groups <- {{n} \X Names : n \in Namespaces}, Values <- Hashes, NoValue <- NoHash,
    Collected <- (Collectors # {}),
    map <- alias, call <- [c \in Clients |-> ClientCall(c)]

\* Uploads, reads and deletes are linearizable, with the errors and crashes the
\* file system adds: PutObject, GetObject, DeleteObject, DeleteNamespaceAliases.
\* A collector (store.go:252) disturbs none of them but a read, which it can only
\* make miss its content: nobody is ever served another one.
ImplementsMap == Map!Spec

---------------------------------------------------------------------------
(* The invariants behind the refinement.                                   *)

\* The operation each step belongs to.
OpOf(p) == CASE p \in UploadSteps -> "put"
             [] p \in {"lookup", "open"} -> "get"
             [] p \in {"find", "unlink"} -> "delete"
             [] p = "purge" -> "drop"
             [] p = "idle" -> "none"

\* A request holds what its step needs and nothing else.
RequestIsConsistent ==
    \A c \in Clients :
        /\ pc[c] # "reply" => op[c] = OpOf(pc[c]) /\ status[c] = "none"
        /\ pc[c] \in UploadSteps \cup {"lookup", "open", "find", "unlink"} => key[c] \in Keys
        /\ pc[c] \in {"idle", "purge", "reply"} => key[c] = NoKey
        /\ pc[c] \in UploadSteps \cup {"open", "unlink"} => hash[c] \in Hashes
        /\ pc[c] \in {"idle", "lookup", "find", "purge"} => hash[c] = NoHash
        /\ pc[c] # "purge" => todo[c] = {}

\* Without a collector, whatever names a blob finds it.
BlobsStay ==
    /\ NoDanglingAlias
    /\ \A c \in Clients : pc[c] \in {"publish", "open"} => hash[c] \in blobs

\* Only a collector makes a blob go away.
MapInv == RequestIsConsistent /\ (Collectors = {} => BlobsStay)
=============================================================================
