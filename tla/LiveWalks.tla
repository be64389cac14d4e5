----------------------------- MODULE LiveWalks -----------------------------
(***************************************************************************)
(* The two operations that walk the directories of a store that is in use: *)
(* a listing (WalkObjects in internal/store/store.go, streamed by          *)
(* handleList in internal/server/server.go) and `picocdn backup`           *)
(* (cmd/picocdn/main.go), a process of its own.  Both read a directory     *)
(* first and the files it named one after the other, while uploads,        *)
(* deletes, removals of namespaces and the collector go on; both give up   *)
(* at the first file that has vanished meanwhile.  The backup walks the    *)
(* blobs before the aliases.                                               *)
(*                                                                         *)
(* The objects of a namespace lie in one directory here, a blob in one of  *)
(* its own.  One walk is under way at a time.  A listing's prefix selects  *)
(* among what the walk passes and is left out.                             *)
(***************************************************************************)
EXTENDS BlobStore

CONSTANT Hidden    \* object paths whose last segment begins with a dot

ASSUME HiddenAssumption == Hidden \subseteq Names

VARIABLES
    job,       \* what the walk is for
    wpc,       \* what it does next
    scope,     \* the namespaces it covers
    dirs,      \* directories of aliases it has not read yet
    files,     \* alias files its directory has named, not visited yet
    unkept,    \* hashes the backup's walk of the blobs has not passed
    found,     \* objects with their hashes: the listing, or the archived aliases
    kept,      \* archived blobs
    stayed,    \* history: objects that were there all the time of the walk
    touched    \* history: objects written or removed since it began

walkVars == <<job, wpc, scope, dirs, files, unkept, found, kept, stayed, touched>>
allVars == <<vars, walkVars>>

Objects == {k \in Keys : alias[k] # NoHash}

WalkInit ==
    /\ Init
    /\ job = "none"
    /\ wpc = "idle"
    /\ scope = {}
    /\ dirs = {}
    /\ files = {}
    /\ unkept = {}
    /\ found = {}
    /\ kept = {}
    /\ stayed = {}
    /\ touched = {}

---------------------------------------------------------------------------
(* The walk                                                                *)

Begin(j, p, S) ==
    /\ wpc = "idle"
    /\ job' = j
    /\ wpc' = p
    /\ scope' = S
    /\ stayed' = Objects
    /\ UNCHANGED <<vars, files, found, kept, touched>>

\* handleList: 200 and the head of the answer go out before the walk.
ListStart(n) ==
    /\ Begin("list", "dirs", {n})
    /\ dirs' = {n}
    /\ UNCHANGED unkept

\* runBackup, after config.json and the namespace files.
BackupStart ==
    /\ Begin("backup", "blobs", Namespaces)
    /\ unkept' = Hashes
    /\ UNCHANGED dirs

\* Variant: a blob an upload is using just now is left to the next backup.
BackupBlobUnused(h) ==
    /\ wpc = "blobs"
    /\ h \in unkept
    /\ unkept' = unkept \ {h}
    /\ kept' = IF h \in blobs /\ \A c \in Clients : hash[c] # h THEN kept \cup {h} ELSE kept
    /\ UNCHANGED <<vars, job, wpc, scope, dirs, files, found, stayed, touched>>

\* Variant: a blob that cannot be opened is passed over.
BackupBlobSkipping(h) ==
    /\ wpc = "blobs"
    /\ h \in unkept
    /\ unkept' = unkept \ {h}
    /\ kept' \in {kept, kept \cup ({h} \cap blobs)}
    /\ UNCHANGED <<vars, job, wpc, scope, dirs, files, found, stayed, touched>>

\* tarAddTree of the blobs: each one is passed once, there or not there then.
BackupBlob(h) ==
    /\ wpc = "blobs"
    /\ h \in unkept
    /\ unkept' = unkept \ {h}
    /\ kept' = kept \cup ({h} \cap blobs)
    /\ UNCHANGED <<vars, job, wpc, scope, dirs, files, found, stayed, touched>>

BackupAliases ==
    /\ wpc = "blobs"
    /\ unkept = {}
    /\ wpc' = "dirs"
    /\ dirs' = Namespaces
    /\ UNCHANGED <<vars, job, scope, files, unkept, found, kept, stayed, touched>>

\* One directory at a time: its entries now are the files the walk visits next.
ReadDir(n) ==
    /\ wpc = "dirs"
    /\ n \in dirs
    /\ files = {}
    /\ dirs' = dirs \ {n}
    /\ files' = {k \in Objects : k[1] = n}
    /\ UNCHANGED <<vars, job, wpc, scope, unkept, found, kept, stayed, touched>>

\* WalkObjects passes over names that begin with a dot without reading them.
Skip(k) ==
    /\ job = "list"
    /\ k \in files
    /\ k[2] \in Hidden
    /\ files' = files \ {k}
    /\ UNCHANGED <<vars, job, wpc, scope, dirs, unkept, found, kept, stayed, touched>>

\* The file has the content of this moment, not of the directory's.
Visit(k) ==
    /\ k \in files
    /\ job = "list" => k[2] \notin Hidden
    /\ alias[k] # NoHash
    /\ found' = found \cup {<<k, alias[k]>>}
    /\ files' = files \ {k}
    /\ UNCHANGED <<vars, job, wpc, scope, dirs, unkept, kept, stayed, touched>>

\* Variant: what was still to be visited is not dropped.
CloseKeeping(p) ==
    /\ wpc' = p
    /\ unkept' = {}
    /\ UNCHANGED <<vars, job, scope, dirs, files, found, kept, stayed, touched>>

\* The walk is over; how it went is in p.
Close(p) ==
    /\ wpc' = p
    /\ dirs' = {}
    /\ files' = {}
    /\ unkept' = {}
    /\ UNCHANGED <<vars, job, scope, found, kept, stayed, touched>>

\* os.ReadFile or lstat does not find the file any more: that ends the walk.  A
\* listing is closed like a complete one, a backup reports the error.
Vanished(k) ==
    /\ k \in files
    /\ job = "list" => k[2] \notin Hidden
    /\ alias[k] = NoHash
    /\ Close("cut")

\* An I/O error, a full disk, a client that left, a blob the collector took, the
\* temporary file of an upload that the directory named and the rename took away.
WalkFails ==
    /\ wpc \in {"blobs", "dirs"}
    /\ Close("cut")

\* Variant: a vanished file ends the walk as if it were the last one.
WalkDoneEarly ==
    /\ wpc = "dirs"
    /\ dirs = {}
    /\ files = {} \/ \E k \in files : alias[k] = NoHash
    /\ Close("done")

WalkDone ==
    /\ wpc = "dirs"
    /\ dirs = {}
    /\ files = {}
    /\ Close("done")

\* The answer or the archive is handed over.
WalkEnd ==
    /\ wpc \in {"done", "cut"}
    /\ job' = "none"
    /\ wpc' = "idle"
    /\ scope' = {}
    /\ found' = {}
    /\ kept' = {}
    /\ stayed' = {}
    /\ touched' = {}
    /\ UNCHANGED <<vars, dirs, files, unkept>>

Walk ==
    \/ BackupStart \/ BackupAliases \/ WalkFails \/ WalkDone \/ WalkEnd
    \/ \E n \in Namespaces : ListStart(n) \/ ReadDir(n)
    \/ \E h \in Hashes : BackupBlob(h)
    \/ \E k \in Keys : Skip(k) \/ Visit(k) \/ Vanished(k)

\* A step of the store, of which the history notes what it did to the aliases.
StoreStep ==
    /\ Next
    /\ stayed' = {k \in stayed : alias'[k] # NoHash}
    /\ touched' = IF wpc = "idle" THEN {}
                  ELSE touched \cup {k \in Keys : alias'[k] # alias[k]
                                                  \/ guarded'[k] # guarded[k]}
    /\ UNCHANGED <<job, wpc, scope, dirs, files, unkept, found, kept>>

WalkNext == Walk \/ StoreStep

WalkSpec == WalkInit /\ [][WalkNext]_allVars

---------------------------------------------------------------------------
(* Properties                                                              *)

\* The walk is well formed: only what lies in its scope is still to be visited.
WalkTypeOK ==
    /\ job \in {"none", "list", "backup"}
    /\ wpc \in {"idle", "blobs", "dirs", "done", "cut"}
    /\ scope \subseteq Namespaces
    /\ dirs \subseteq scope
    /\ files \subseteq {k \in Keys : k[1] \in scope}
    /\ unkept \subseteq Hashes
    /\ found \subseteq Keys \X Hashes
    /\ kept \subseteq Hashes
    /\ stayed \subseteq Keys
    /\ touched \subseteq Keys

\* The objects the walk has to report.
Reportable == {k \in Keys : k[1] \in scope /\ (job = "list" => k[2] \notin Hidden)}

\* "List objects in a namespace" (README, API), "the backup tarball includes ...
\* aliases" (README, Backup): a walk that comes to its end without an error has
\* reported every object that was there all the time, however it was overwritten and
\* whatever was added and removed around it.  A listing leaves out dot names.
NothingStayedIsMissed ==
    wpc = "done" => \A k \in stayed \cap Reportable : \E h \in Hashes : <<k, h>> \in found

\* The backup archives blobs first and aliases later (main.go:205), without a lock.
\* An archived alias whose blob is not in the archive was written after the backup
\* began, or had lost its blob to the collector already.
ArchiveIsClosed ==
    job = "backup" => \A p \in found : p[2] \in kept \/ p[1] \in touched \/ ~guarded[p[1]]

---------------------------------------------------------------------------
(* The inductive invariant behind these properties.                        *)

\* An object that stayed is reported, or still ahead of the walk.
StayedIsAhead ==
    /\ wpc # "idle" => stayed \subseteq Objects
    /\ wpc \in {"blobs", "dirs", "done"} =>
          \A k \in stayed \cap Reportable :
              \/ \E h \in Hashes : <<k, h>> \in found
              \/ k \in files
              \/ k[1] \in dirs
              \/ wpc = "blobs"

\* The blob of an object that was not touched is archived, or still ahead.
UntouchedIsKept ==
    job = "backup" /\ wpc \in {"blobs", "dirs", "done", "cut"} =>
        \A k \in Objects \ touched : guarded[k] =>
            \/ alias[k] \in kept
            \/ wpc = "blobs" /\ alias[k] \in unkept
            \/ wpc = "cut"

\* The walk holds what its step needs.
WalkIsConsistent ==
    /\ wpc = "idle" => job = "none" /\ found = {}
    /\ wpc = "blobs" => job = "backup" /\ found = {} /\ scope = Namespaces
    /\ wpc # "dirs" => dirs = {} /\ files = {}
    /\ wpc # "idle" => job # "none"
    /\ wpc # "blobs" => unkept = {}

WalkInv ==
    /\ WalkIsConsistent /\ StayedIsAhead /\ UntouchedIsKept
    /\ NothingStayedIsMissed /\ ArchiveIsClosed
=============================================================================
