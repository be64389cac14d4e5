------------------------------ MODULE DataDir ------------------------------
(***************************************************************************)
(* The files of a data directory and what a power loss leaves of them:     *)
(* blobs and aliases that PutObject and DeleteObject write and remove      *)
(* (internal/store/store.go), and `picocdn restore`, which unpacks an      *)
(* archive over them in a process of its own (cmd/picocdn/main.go).        *)
(*                                                                         *)
(* The server and the restoration of control files (config.json and the    *)
(* namespace files) write a temporary file, sync it, rename it and sync    *)
(* its directory.  The restoration of blobs and aliases opens the file     *)
(* itself with O_TRUNC, copies, and syncs nothing.  Nobody syncs the       *)
(* directory a new directory is made in.                                   *)
(*                                                                         *)
(* Each file lies in a directory of its own: a sync that reaches more      *)
(* files at once is this one and a Flush of the others.  A control file is *)
(* only written by restore here; AuthStore and RootConfig have its other   *)
(* writers.                                                                *)
(***************************************************************************)
EXTENDS Naturals

CONSTANTS
    Controls,   \* config.json, namespaces/<ns>.json
    Hashes,     \* contents: a blob file has the name of its content
    Keys,       \* objects: an alias file has a hash as its content
    Clients,    \* requests in flight
    Archive,    \* what the archive has under each file name
    None,       \* no file
    Torn        \* a file that was truncated and not written to its end

Files == Controls \cup Hashes \cup Keys

\* The contents a file can have when it is whole.
Whole(f) == IF f \in Keys THEN Hashes ELSE {f}

ASSUME FilesAssumption ==
    /\ Controls \cap Hashes = {} /\ Controls \cap Keys = {} /\ Hashes \cap Keys = {}
    /\ None # Torn /\ {None, Torn} \cap Files = {}

ASSUME ArchiveAssumption ==
    /\ Archive \in [Files -> Files \cup {None}]
    /\ \A f \in Files : Archive[f] \in Whole(f) \cup {None}

Archived == {f \in Files : Archive[f] # None}

VARIABLES
    file,      \* the files as the kernel shows them
    durable,   \* what a power loss may leave of each
    raw,       \* files whose data restore has written and nobody has synced
    rooted,    \* files whose directory a power loss leaves
    exposed,   \* history: hashes somebody relied on, or took, before they were safe
    pc,        \* the next step of each request
    key,
    hash,
    rpc,       \* the next step of restore
    todo,      \* files restore has still to write
    open,      \* the one it is writing
    outcome,   \* how the last restoration ended
    mine       \* history: files the server or gc changed since it began

fileVars == <<file, durable, raw, rooted, exposed>>
clientVars == <<pc, key, hash>>
restoreVars == <<rpc, todo, open, outcome>>
vars == <<fileVars, clientVars, restoreVars, mine>>

\* An empty store; some directories are left of earlier objects.
Init ==
    /\ file = [f \in Files |-> None]
    /\ durable = [f \in Files |-> {None}]
    /\ raw = {}
    /\ rooted \in SUBSET Files
    /\ exposed = {}
    /\ pc = [c \in Clients |-> "idle"]
    /\ key = [c \in Clients |-> None]
    /\ hash = [c \in Clients |-> None]
    /\ rpc = "idle"
    /\ todo = {}
    /\ open = None
    /\ outcome = "none"
    /\ mine = {}

\* Whatever happens, the blob is there and whole.
Settled(h) == durable[h] = {h}

---------------------------------------------------------------------------
(* The file system                                                         *)

\* rename or unlink: the name gets a synced file v, or None.  A file restore had
\* open under that name is written on, but has no name any more.
Replace(f, v) ==
    /\ file' = [file EXCEPT ![f] = v]
    /\ durable' = [durable EXCEPT ![f] = @ \cup {v}]
    /\ raw' = raw \ {f}

Overtaken(f) ==
    /\ rpc' = IF rpc = "copy" /\ open = f THEN "lost" ELSE rpc
    /\ mine' = mine \cup {f}
    /\ UNCHANGED <<todo, open, outcome>>

\* Variant: a removal is not among what a sync brings to the disk.
AfterSyncOfEntries(f) ==
    IF f \in raw THEN durable[f]
    ELSE IF f \in rooted THEN durable[f] \ {None}
    ELSE {file[f], None}

\* What a power loss may leave of f once its directory is synced.
AfterSync(f) ==
    IF f \in raw THEN durable[f]
    ELSE IF f \in rooted THEN {file[f]}
    ELSE {file[f], None}

\* The kernel writes back a file, its directory and the directories above.
Flush(f) ==
    /\ file[f] # None \/ durable[f] # {None}
    /\ durable' = [durable EXCEPT ![f] = {file[f]}]
    /\ raw' = raw \ {f}
    /\ rooted' = rooted \cup {f}
    /\ exposed' = IF file[f] = f THEN exposed \ {f} ELSE exposed
    /\ UNCHANGED <<file, clientVars, restoreVars, mine>>

PowerLoss ==
    /\ \E after \in [Files -> Files \cup {None, Torn}] :
          /\ \A f \in Files : after[f] \in durable[f]
          /\ file' = after
          /\ durable' = [f \in Files |-> {after[f]}]
          /\ rooted' = rooted \cup {f \in Files : after[f] # None}
          /\ exposed' = {h \in exposed : after[h] # h}
    /\ raw' = {}
    /\ pc' = [c \in Clients |-> "idle"]
    /\ key' = [c \in Clients |-> None]
    /\ hash' = [c \in Clients |-> None]
    /\ rpc' = "idle"
    /\ todo' = {}
    /\ open' = None
    /\ outcome' = IF rpc = "idle" /\ outcome = "none" THEN "none" ELSE "cut"
    /\ mine' = {}

---------------------------------------------------------------------------
(* The server                                                              *)

Leave(c) ==
    /\ pc' = [pc EXCEPT ![c] = "idle"]
    /\ key' = [key EXCEPT ![c] = None]
    /\ hash' = [hash EXCEPT ![c] = None]

\* PutObject has the upload in a synced temporary file, and os.Stat ...
Put(c, k, h, step) ==
    /\ pc[c] = "idle"
    /\ pc' = [pc EXCEPT ![c] = step]
    /\ key' = [key EXCEPT ![c] = k]
    /\ hash' = [hash EXCEPT ![c] = h]

\* ... finds a file under the hash, in whatever state: the upload relies on it.
PutHit(c, k, h) ==
    /\ file[h] # None
    /\ Put(c, k, h, "publish")
    /\ exposed' = IF Settled(h) THEN exposed ELSE exposed \cup {h}
    /\ UNCHANGED <<file, durable, raw, rooted, restoreVars, mine>>

\* ... finds none.
PutMiss(c, k, h) ==
    /\ file[h] = None
    /\ Put(c, k, h, "install")
    /\ UNCHANGED <<fileVars, restoreVars, mine>>

\* Variant: the directory of the blob is not synced.
PutInstallUnsynced(c) ==
    /\ pc[c] = "install"
    /\ Replace(hash[c], hash[c])
    /\ Overtaken(hash[c])
    /\ pc' = [pc EXCEPT ![c] = "publish"]
    /\ UNCHANGED <<rooted, exposed, key, hash>>

PutInstall(c) ==
    /\ pc[c] = "install"
    /\ Replace(hash[c], hash[c])
    /\ Overtaken(hash[c])
    /\ pc' = [pc EXCEPT ![c] = "sync"]
    /\ UNCHANGED <<rooted, exposed, key, hash>>

\* syncDir of the blob's directory, not of those MkdirAll has made it in.
PutSync(c) ==
    /\ pc[c] = "sync"
    /\ durable' = [durable EXCEPT ![hash[c]] = AfterSync(hash[c])]
    /\ exposed' = IF AfterSync(hash[c]) = {hash[c]}
                     THEN exposed \ {hash[c]} ELSE exposed \cup {hash[c]}
    /\ pc' = [pc EXCEPT ![c] = "publish"]
    /\ UNCHANGED <<file, raw, rooted, key, hash, restoreVars, mine>>

\* writeAlias up to the rename ...
PutPublish(c) ==
    /\ pc[c] = "publish"
    /\ Replace(key[c], hash[c])
    /\ Overtaken(key[c])
    /\ pc' = [pc EXCEPT ![c] = "ack"]
    /\ UNCHANGED <<rooted, exposed, key, hash>>

\* ... and the sync of the alias's directory, before the answer.
PutAck(c) ==
    /\ pc[c] = "ack"
    /\ durable' = [durable EXCEPT ![key[c]] = AfterSync(key[c])]
    /\ Leave(c)
    /\ UNCHANGED <<file, raw, rooted, exposed, restoreVars, mine>>

\* A call fails, or the server is killed: what has been done stays.
PutFails(c) ==
    /\ pc[c] # "idle"
    /\ Leave(c)
    /\ UNCHANGED <<fileVars, restoreVars, mine>>

\* DeleteObject, which does not delete an alias it cannot read.  An error of the
\* directory sync is dropped.
Delete(k) ==
    /\ file[k] \in Hashes
    /\ file' = [file EXCEPT ![k] = None]
    /\ \E s \in {{None}, durable[k] \cup {None}} : durable' = [durable EXCEPT ![k] = s]
    /\ raw' = raw \ {k}
    /\ Overtaken(k)
    /\ UNCHANGED <<rooted, exposed, clientVars>>

\* gc takes a blob no alias names; the removal is not synced.  That it takes none an
\* upload or a restoration has just brought is the business of the grace period.
Collect(h) ==
    /\ file[h] # None
    /\ \A k \in Keys : file[k] # h
    /\ \A c \in Clients : hash[c] # h
    /\ rpc = "idle"
    /\ Replace(h, None)
    /\ Overtaken(h)
    /\ exposed' = IF \E k \in Keys : h \in durable[k] THEN exposed \cup {h} ELSE exposed
    /\ UNCHANGED <<rooted, clientVars>>

---------------------------------------------------------------------------
(* picocdn restore                                                         *)

\* The archive has the entries in the order runBackup has written them.
Stage(f) == IF f \in Controls THEN 0 ELSE IF f \in Hashes THEN 1 ELSE 2

NextEntry(f) == f \in todo /\ \A e \in todo : Stage(f) <= Stage(e)

\* Without --force only into an empty directory: a special case of this.
RestoreStart ==
    /\ rpc = "idle"
    /\ rpc' = "next"
    /\ todo' = Archived
    /\ mine' = {}
    /\ UNCHANGED <<fileVars, clientVars, open, outcome>>

\* Variant: a control file is opened like any other.
RestoreOpenAny(f) ==
    /\ rpc = "next"
    /\ NextEntry(f)
    /\ rpc' = "copy"
    /\ open' = f
    /\ file' = [file EXCEPT ![f] = Torn]
    /\ durable' = [durable EXCEPT ![f] = @ \cup {Torn}]
    /\ raw' = raw \cup {f}
    /\ exposed' = exposed \cup ({f} \cap Hashes)
    /\ UNCHANGED <<rooted, clientVars, todo, outcome, mine>>

\* O_TRUNC: a file that was whole is empty from here on, whoever uses it.
RestoreOpen(f) ==
    /\ f \notin Controls
    /\ rpc = "next"
    /\ NextEntry(f)
    /\ rpc' = "copy"
    /\ open' = f
    /\ file' = [file EXCEPT ![f] = Torn]
    /\ durable' = [durable EXCEPT ![f] = @ \cup {Torn}]
    /\ raw' = raw \cup {f}
    /\ exposed' = exposed \cup ({f} \cap Hashes)
    /\ UNCHANGED <<rooted, clientVars, todo, outcome, mine>>

Written ==
    /\ rpc' = "next"
    /\ todo' = todo \ {open}
    /\ open' = None
    /\ UNCHANGED <<clientVars, outcome, mine>>

\* Variant: an error of the copy is passed over.
RestoreCopyCut ==
    /\ rpc = "copy"
    /\ UNCHANGED fileVars
    /\ Written

\* io.Copy and Close.  A restored alias relies on its blob without looking.
RestoreCopy ==
    /\ rpc = "copy"
    /\ file' = [file EXCEPT ![open] = Archive[open]]
    /\ durable' = [durable EXCEPT ![open] = @ \cup {Archive[open]}]
    /\ raw' = raw \cup {open}
    /\ exposed' = IF open \in Keys /\ ~Settled(Archive[open])
                     THEN exposed \cup {Archive[open]} ELSE exposed
    /\ UNCHANGED rooted
    /\ Written

\* The server has put another file under the name, or taken the name away.
RestoreCopyLost ==
    /\ rpc = "lost"
    /\ UNCHANGED fileVars
    /\ Written

\* restoreFileAtomic, up to the rename ...
RestoreControl(f) ==
    /\ f \in Controls
    /\ rpc = "next"
    /\ NextEntry(f)
    /\ Replace(f, Archive[f])
    /\ rpc' = "sync"
    /\ open' = f
    /\ UNCHANGED <<rooted, exposed, clientVars, todo, outcome, mine>>

\* ... and the sync of the directory.
RestoreControlSync ==
    /\ rpc = "sync"
    /\ durable' = [durable EXCEPT ![open] = AfterSync(open)]
    /\ UNCHANGED <<file, raw, rooted, exposed>>
    /\ Written

RestoreEnd(o) ==
    /\ rpc' = "idle"
    /\ todo' = {}
    /\ open' = None
    /\ outcome' = o
    /\ UNCHANGED <<fileVars, clientVars, mine>>

\* "status": "restored"
RestoreDone ==
    /\ rpc = "next"
    /\ todo = {}
    /\ RestoreEnd("restored")

\* An error, a truncated archive, a kill.
RestoreCut ==
    /\ rpc # "idle"
    /\ RestoreEnd("cut")

---------------------------------------------------------------------------

Server ==
    \/ \E c \in Clients, k \in Keys, h \in Hashes : PutHit(c, k, h) \/ PutMiss(c, k, h)
    \/ \E c \in Clients : PutInstall(c) \/ PutSync(c) \/ PutPublish(c) \/ PutAck(c) \/ PutFails(c)
    \/ \E k \in Keys : Delete(k)

Restore ==
    \/ RestoreStart \/ RestoreCopy \/ RestoreCopyLost \/ RestoreControlSync
    \/ RestoreDone \/ RestoreCut
    \/ \E f \in Files : RestoreOpen(f) \/ RestoreControl(f)

Next ==
    \/ Server
    \/ Restore
    \/ \E h \in Hashes : Collect(h)
    \/ \E f \in Files : Flush(f)
    \/ PowerLoss

Spec == Init /\ [][Next]_vars

---------------------------------------------------------------------------
(* Properties                                                              *)

\* The state is well formed; what is there is among what a power loss may leave.
TypeOK ==
    /\ file \in [Files -> Files \cup {None, Torn}]
    /\ durable \in [Files -> SUBSET (Files \cup {None, Torn})]
    /\ \A f \in Files : durable[f] \subseteq Whole(f) \cup {None, Torn} /\ file[f] \in durable[f]
    /\ raw \subseteq Files
    /\ rooted \subseteq Files
    /\ exposed \subseteq Hashes
    /\ pc \in [Clients -> {"idle", "install", "sync", "publish", "ack"}]
    /\ key \in [Clients -> Keys \cup {None}]
    /\ hash \in [Clients -> Hashes \cup {None}]
    /\ \A c \in Clients : pc[c] # "idle" => key[c] \in Keys /\ hash[c] \in Hashes
    /\ rpc \in {"idle", "next", "copy", "lost", "sync"}
    /\ todo \subseteq Archived
    /\ open \in Files \cup {None}
    /\ rpc \in {"copy", "lost", "sync"} => open \in todo
    /\ outcome \in {"none", "cut", "restored"}
    /\ mine \subseteq Files

\* "a crash mid-restore never leaves a truncated control-plane file behind"
\* (main.go:393): not on the disk, not after a power loss, however often restore is
\* cut short and run again.
ControlIsWhole == \A f \in Controls : Torn # file[f] /\ Torn \notin durable[f]

\* Only restore tears files, and only those of its archive: as long as it has never
\* been run, no upload, no kill and no power loss leaves a truncated blob or alias;
\* while it runs, it has every torn file still before it.
TornIsRepaired ==
    \A f \in Files : file[f] = Torn =>
        /\ f \in Archived \ Controls
        /\ IF rpc = "idle" THEN outcome = "cut" ELSE f \in todo

\* `{"status": "restored"}` (main.go:374) means that everything the archive has is in
\* place, whole, but for what the server or gc changed meanwhile; after any number of
\* earlier attempts cut short, and although the server may replace a file restore is
\* writing, whose data then goes nowhere.
RestoredMeansComplete ==
    rpc = "idle" /\ outcome = "restored" =>
        \A f \in Archived : file[f] = Archive[f] \/ (f \in mine /\ file[f] # Torn)

\* PutObject makes the blob safe before it publishes the alias: no power loss leaves
\* an alias without its blob, whole.  The exceptions are what the code leaves open: a
\* blob relied on as it was found (store.go:374), one in a directory that was made
\* for it (store.go:370), one gc took while an alias that named it could come back
\* (store.go:184), and what restore writes (main.go:358).
AliasOutlivesNoBlob ==
    \A k \in Keys : \A h \in durable[k] \cap Hashes : Settled(h) \/ h \in exposed

---------------------------------------------------------------------------
(* The inductive invariant behind these properties.                        *)

\* An upload publishes what is safe, or known not to be.
PublishedIsSafe ==
    \A c \in Clients : pc[c] = "publish" => Settled(hash[c]) \/ hash[c] \in exposed

\* A power loss tears only what restore has torn.
TornOnDisk ==
    \A f \in Files : Torn \in durable[f] =>
        /\ f \in Archived \ Controls
        /\ rpc = "idle" => outcome # "none"

\* What restore has written is in place, unless the server changed it.
WrittenIsThere ==
    rpc # "idle" => \A f \in Archived \ todo : file[f] = Archive[f] \/ f \in mine

\* The file restore is writing is the one under the name, unless it is lost.
OpenIsTorn ==
    /\ rpc = "lost" => file[open] # Torn /\ open \in mine
    /\ rpc = "copy" => open \notin Controls
    /\ rpc = "sync" => open \in Controls /\ file[open] = Archive[open]

IInv ==
    /\ ControlIsWhole /\ TornIsRepaired /\ RestoredMeansComplete /\ AliasOutlivesNoBlob
    /\ PublishedIsSafe /\ TornOnDisk /\ WrittenIsThere /\ OpenIsTorn
=============================================================================
