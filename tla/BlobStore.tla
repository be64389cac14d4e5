----------------------------- MODULE BlobStore -----------------------------
(***************************************************************************)
(* The object store of picocdn (internal/store/store.go) with the part of  *)
(* the HTTP handlers that calls it: content-addressed blobs, one alias     *)
(* file per object, uploads, reads and deletes by concurrent requests, the *)
(* removal of a namespace's aliases, and the mark-and-sweep collector that *)
(* `picocdn gc` runs as a process of its own beside the server.  The two   *)
(* processes share nothing but the file system, so every system call that  *)
(* another process can observe is a step of its own.                       *)
(*                                                                         *)
(* A blob file keeps the modification time of the upload's temporary file, *)
(* because rename(2) does not change it; the collector compares that time  *)
(* with its cutoff.  File contents are abstracted to their hash, paths to  *)
(* pairs of a namespace and a name.                                        *)
(***************************************************************************)
EXTENDS Integers, FiniteSets

CONSTANTS
    Namespaces,    \* namespaces that hold objects
    Names,         \* object paths, after cleanObjectPath
    Hashes,        \* SHA-256 sums of the contents the clients upload
    Clients,       \* requests the server serves at the same time
    Collectors,    \* `picocdn gc` processes
    Operations,    \* the operations the clients issue
    NoHash,        \* "no alias file", "no blob chosen"
    NoKey,         \* the key of a client that serves no object request
    Grace,         \* the collector's --grace
    MaxFinalize,   \* longest time from the last write of an upload to its alias
    MaxTime        \* bound of the clock

Keys == Namespaces \X Names

ASSUME OperationsAssumption == Operations \subseteq {"put", "get", "delete", "drop"}
ASSUME NoHashAssumption == NoHash \notin Hashes
ASSUME NoKeyAssumption == NoKey \notin Keys
ASSUME TimeAssumption == /\ Grace \in Nat
                         /\ MaxFinalize \in Nat
                         /\ MaxTime \in Nat
\* Two uploads that race for one blob may install it one finalization late, so
\* the grace period has to cover two of them.
ASSUME GraceAssumption == Grace > 2 * MaxFinalize

VARIABLES
    alias,     \* alias files: the hash each object path names, or NoHash
    guarded,   \* history: was the alias published under the collector's protection
    blobs,     \* the hashes that have a blob file
    mtime,     \* modification time of each blob file, 0 when there is none
    now,       \* wall clock, shared by the processes

    pc,        \* what each client's request does next
    op,        \* the operation of the request
    key,       \* the object it is about
    hash,      \* the content it uploads, or the hash it read from the alias
    wrote,     \* modification time of the upload's temporary file
    fresh,     \* history: the blob is young enough to outlive the finalization
    todo,      \* aliases a namespace removal has still to unlink
    status,    \* the answer

    gpc,       \* what each collector does next
    cutoff,    \* time.Now() - grace, read when it starts
    seen,      \* object paths its walk of the aliases has passed
    marked,    \* its set `referenced`
    unswept,   \* hashes its walk of the blobs has not passed
    victim     \* the blob it has found old and is about to remove

diskVars == <<alias, guarded, blobs, mtime>>
clientVars == <<pc, op, key, hash, wrote, fresh, todo, status>>
gcVars == <<gpc, cutoff, seen, marked, unswept, victim>>
vars == <<diskVars, now, clientVars, gcVars>>

UploadSteps == {"upload", "stat", "rename", "publish"}
\* The steps of an upload whose content is complete: they take MaxFinalize at most.
FinalSteps == {"stat", "rename", "publish"}
ClientSteps == UploadSteps \cup {"idle", "lookup", "open", "find", "unlink", "purge", "reply"}
Statuses == {"none", "ok", "notfound", "error"}

Init ==
    /\ alias = [k \in Keys |-> NoHash]
    /\ guarded = [k \in Keys |-> FALSE]
    /\ blobs = {}
    /\ mtime = [h \in Hashes |-> 0]
    /\ now = 0
    /\ pc = [c \in Clients |-> "idle"]
    /\ op = [c \in Clients |-> "none"]
    /\ key = [c \in Clients |-> NoKey]
    /\ hash = [c \in Clients |-> NoHash]
    /\ wrote = [c \in Clients |-> 0]
    /\ fresh = [c \in Clients |-> FALSE]
    /\ todo = [c \in Clients |-> {}]
    /\ status = [c \in Clients |-> "none"]
    /\ gpc = [g \in Collectors |-> "idle"]
    /\ cutoff = [g \in Collectors |-> 0]
    /\ seen = [g \in Collectors |-> {}]
    /\ marked = [g \in Collectors |-> {}]
    /\ unswept = [g \in Collectors |-> {}]
    /\ victim = [g \in Collectors |-> NoHash]

---------------------------------------------------------------------------
(* Requests                                                                *)

\* A request begins: o is its operation, p its first step.
Invoke(c, o, p) ==
    /\ pc[c] = "idle"
    /\ o \in Operations
    /\ op' = [op EXCEPT ![c] = o]
    /\ pc' = [pc EXCEPT ![c] = p]

\* The handler has decided its answer, with the hash of the content it serves.
Answer(c, s, h) ==
    /\ pc' = [pc EXCEPT ![c] = "reply"]
    /\ status' = [status EXCEPT ![c] = s]
    /\ hash' = [hash EXCEPT ![c] = h]
    /\ key' = [key EXCEPT ![c] = NoKey]
    /\ wrote' = [wrote EXCEPT ![c] = 0]
    /\ fresh' = [fresh EXCEPT ![c] = FALSE]
    /\ todo' = [todo EXCEPT ![c] = {}]
    /\ UNCHANGED <<now, op, gcVars>>

\* The answer reaches the client.
Reply(c) ==
    /\ pc[c] = "reply"
    /\ pc' = [pc EXCEPT ![c] = "idle"]
    /\ op' = [op EXCEPT ![c] = "none"]
    /\ hash' = [hash EXCEPT ![c] = NoHash]
    /\ status' = [status EXCEPT ![c] = "none"]
    /\ UNCHANGED <<diskVars, now, key, wrote, fresh, todo, gcVars>>

\* An I/O error, a cancelled request, a body over the limit.  What reached the
\* disk stays; the temporary file is removed.
Fail(c) ==
    /\ pc[c] \notin {"idle", "reply"}
    /\ Answer(c, "error", NoHash)
    /\ UNCHANGED diskVars

\* PutObject: the temporary file is created and the body begins to arrive.
PutStart(c, k, h) ==
    /\ Invoke(c, "put", "upload")
    /\ key' = [key EXCEPT ![c] = k]
    /\ hash' = [hash EXCEPT ![c] = h]
    /\ UNCHANGED <<diskVars, now, wrote, fresh, todo, status, gcVars>>

\* io.Copy has written the last byte: the temporary file's modification time.
PutCopied(c) ==
    /\ pc[c] = "upload"
    /\ pc' = [pc EXCEPT ![c] = "stat"]
    /\ wrote' = [wrote EXCEPT ![c] = now]
    /\ UNCHANGED <<diskVars, now, op, key, hash, fresh, todo, status, gcVars>>

\* Variant: a blob that is found is trusted to be new, and touched (os.Chtimes).
PutStatHitTouching(c) ==
    /\ pc[c] = "stat"
    /\ hash[c] \in blobs
    /\ pc' = [pc EXCEPT ![c] = "publish"]
    /\ mtime' = [mtime EXCEPT ![hash[c]] = now]
    /\ fresh' = [fresh EXCEPT ![c] = TRUE]
    /\ UNCHANGED <<alias, guarded, blobs, now, op, key, hash, wrote, todo, status, gcVars>>

\* os.Stat finds the blob: the upload drops its copy and relies on that one,
\* whatever its age, without touching its modification time.
PutStatHit(c) ==
    /\ pc[c] = "stat"
    /\ hash[c] \in blobs
    /\ pc' = [pc EXCEPT ![c] = "publish"]
    /\ fresh' = [fresh EXCEPT ![c] = mtime[hash[c]] + Grace > wrote[c] + MaxFinalize]
    /\ UNCHANGED <<diskVars, now, op, key, hash, wrote, todo, status, gcVars>>

\* Variant: the alias is published before the blob is renamed into its place.
PutStatMissAliasFirst(c) ==
    /\ pc[c] = "stat"
    /\ hash[c] \notin blobs
    /\ pc' = [pc EXCEPT ![c] = "publish"]
    /\ UNCHANGED <<diskVars, now, op, key, hash, wrote, fresh, todo, status, gcVars>>

PutStatMiss(c) ==
    /\ pc[c] = "stat"
    /\ hash[c] \notin blobs
    /\ pc' = [pc EXCEPT ![c] = "rename"]
    /\ UNCHANGED <<diskVars, now, op, key, hash, wrote, fresh, todo, status, gcVars>>

\* os.Rename installs the temporary file as the blob, over one that another
\* upload may have installed since the os.Stat.
PutRename(c) ==
    /\ pc[c] = "rename"
    /\ blobs' = blobs \cup {hash[c]}
    /\ mtime' = [mtime EXCEPT ![hash[c]] = wrote[c]]
    /\ fresh' = [fresh EXCEPT ![c] = TRUE]
    /\ pc' = [pc EXCEPT ![c] = "publish"]
    /\ UNCHANGED <<alias, guarded, now, op, key, hash, wrote, todo, status, gcVars>>

\* No running collector can take the blob h any more.
Safe(h) == h \in blobs /\ \A g \in Collectors : gpc[g] # "idle" => h \in marked[g]

\* Variant: a failed directory sync takes the new alias away again.
PutPublishUndone(c) ==
    /\ pc[c] = "publish"
    /\ \E s \in {"ok", "error"} :
          /\ Answer(c, s, NoHash)
          /\ alias' = [alias EXCEPT ![key[c]] = IF s = "ok" THEN hash[c] ELSE NoHash]
    /\ guarded' = [guarded EXCEPT ![key[c]] = fresh[c] \/ Safe(hash[c])]
    /\ UNCHANGED <<blobs, mtime>>

\* writeAlias: the rename publishes the object.  The directory sync that
\* follows may fail; the upload is then reported as failed, and has happened.
PutPublish(c) ==
    /\ pc[c] = "publish"
    /\ alias' = [alias EXCEPT ![key[c]] = hash[c]]
    /\ guarded' = [guarded EXCEPT ![key[c]] = fresh[c] \/ Safe(hash[c])]
    /\ \E s \in {"ok", "error"} : Answer(c, s, NoHash)
    /\ UNCHANGED <<blobs, mtime>>

\* handleGet: GetObject reads the alias file ...
GetStart(c, k) ==
    /\ Invoke(c, "get", "lookup")
    /\ key' = [key EXCEPT ![c] = k]
    /\ UNCHANGED <<diskVars, now, hash, wrote, fresh, todo, status, gcVars>>

GetLookup(c) ==
    /\ pc[c] = "lookup"
    /\ alias[key[c]] # NoHash
    /\ hash' = [hash EXCEPT ![c] = alias[key[c]]]
    /\ pc' = [pc EXCEPT ![c] = "open"]
    /\ UNCHANGED <<diskVars, now, op, key, wrote, fresh, todo, status, gcVars>>

GetMissing(c) ==
    /\ pc[c] = "lookup"
    /\ alias[key[c]] = NoHash
    /\ Answer(c, "notfound", NoHash)
    /\ UNCHANGED diskVars

\* ... and os.Open opens the blob it named then.  Once open, the file outlives
\* its removal, so nothing after this step can fail for lack of the blob.
GetOpen(c) ==
    /\ pc[c] = "open"
    /\ IF hash[c] \in blobs
          THEN Answer(c, "ok", hash[c])
          ELSE Answer(c, "notfound", NoHash)
    /\ UNCHANGED diskVars

\* DeleteObject reads the alias, then removes the file under the same name,
\* and reports the hash it read.
DeleteStart(c, k) ==
    /\ Invoke(c, "delete", "find")
    /\ key' = [key EXCEPT ![c] = k]
    /\ UNCHANGED <<diskVars, now, hash, wrote, fresh, todo, status, gcVars>>

\* Variant: the hash is read without looking whether there is one.
DeleteFindUnchecked(c) ==
    /\ pc[c] = "find"
    /\ hash' = [hash EXCEPT ![c] = alias[key[c]]]
    /\ pc' = [pc EXCEPT ![c] = "unlink"]
    /\ UNCHANGED <<diskVars, now, op, key, wrote, fresh, todo, status, gcVars>>

DeleteFind(c) ==
    /\ pc[c] = "find"
    /\ alias[key[c]] # NoHash
    /\ hash' = [hash EXCEPT ![c] = alias[key[c]]]
    /\ pc' = [pc EXCEPT ![c] = "unlink"]
    /\ UNCHANGED <<diskVars, now, op, key, wrote, fresh, todo, status, gcVars>>

\* The alias is missing when it is read, or gone when it is removed.
DeleteMissing(c) ==
    /\ pc[c] \in {"find", "unlink"}
    /\ alias[key[c]] = NoHash
    /\ Answer(c, "notfound", NoHash)
    /\ UNCHANGED diskVars

DeleteUnlink(c) ==
    /\ pc[c] = "unlink"
    /\ alias[key[c]] # NoHash
    /\ alias' = [alias EXCEPT ![key[c]] = NoHash]
    /\ guarded' = [guarded EXCEPT ![key[c]] = FALSE]
    /\ Answer(c, "ok", NoHash)
    /\ UNCHANGED <<blobs, mtime>>

\* DeleteNamespaceAliases: os.RemoveAll unlinks the namespace's alias files one
\* by one.  A file created behind it makes the final rmdir fail (Fail).
DropStart(c, n) ==
    /\ Invoke(c, "drop", "purge")
    /\ todo' = [todo EXCEPT ![c] = {n} \X Names]
    /\ UNCHANGED <<diskVars, now, key, hash, wrote, fresh, status, gcVars>>

DropUnlink(c, k) ==
    /\ pc[c] = "purge"
    /\ k \in todo[c]
    /\ alias' = [alias EXCEPT ![k] = NoHash]
    /\ guarded' = [guarded EXCEPT ![k] = FALSE]
    /\ todo' = [todo EXCEPT ![c] = @ \ {k}]
    /\ UNCHANGED <<blobs, mtime, now, pc, op, key, hash, wrote, fresh, status, gcVars>>

DropDone(c) ==
    /\ pc[c] = "purge"
    /\ todo[c] = {}
    /\ Answer(c, "ok", NoHash)
    /\ UNCHANGED diskVars

\* The server is killed: requests vanish, files stay.
Crash ==
    /\ \E c \in Clients : pc[c] # "idle"
    /\ pc' = [c \in Clients |-> "idle"]
    /\ op' = [c \in Clients |-> "none"]
    /\ key' = [c \in Clients |-> NoKey]
    /\ hash' = [c \in Clients |-> NoHash]
    /\ wrote' = [c \in Clients |-> 0]
    /\ fresh' = [c \in Clients |-> FALSE]
    /\ todo' = [c \in Clients |-> {}]
    /\ status' = [c \in Clients |-> "none"]
    /\ UNCHANGED <<diskVars, now, gcVars>>

---------------------------------------------------------------------------
(* The collector                                                           *)

\* Variant: the grace period is left out of the cutoff.
GCStartWithoutGrace(g) ==
    /\ gpc[g] = "idle"
    /\ gpc' = [gpc EXCEPT ![g] = "mark"]
    /\ cutoff' = [cutoff EXCEPT ![g] = now]
    /\ seen' = [seen EXCEPT ![g] = {}]
    /\ marked' = [marked EXCEPT ![g] = {}]
    /\ UNCHANGED <<diskVars, now, clientVars, unswept, victim>>

GCStart(g) ==
    /\ gpc[g] = "idle"
    /\ gpc' = [gpc EXCEPT ![g] = "mark"]
    /\ cutoff' = [cutoff EXCEPT ![g] = now - Grace]
    /\ seen' = [seen EXCEPT ![g] = {}]
    /\ marked' = [marked EXCEPT ![g] = {}]
    /\ UNCHANGED <<diskVars, now, clientVars, unswept, victim>>

\* filepath.WalkDir over the aliases reads directories as it reaches them: each
\* path is passed once, at any time during the walk, present or absent then.
GCVisit(g, k) ==
    /\ gpc[g] = "mark"
    /\ k \notin seen[g]
    /\ seen' = [seen EXCEPT ![g] = @ \cup {k}]
    /\ marked' = [marked EXCEPT ![g] = @ \cup ({alias[k]} \ {NoHash})]
    /\ UNCHANGED <<diskVars, now, clientVars, gpc, cutoff, unswept, victim>>

\* Variant: the sweep begins while the walk of the aliases is still under way.
GCSweepEarly(g) ==
    /\ gpc[g] = "mark"
    /\ gpc' = [gpc EXCEPT ![g] = "sweep"]
    /\ unswept' = [unswept EXCEPT ![g] = Hashes]
    /\ UNCHANGED <<diskVars, now, clientVars, cutoff, seen, marked, victim>>

GCSweep(g) ==
    /\ gpc[g] = "mark"
    /\ seen[g] = Keys
    /\ gpc' = [gpc EXCEPT ![g] = "sweep"]
    /\ unswept' = [unswept EXCEPT ![g] = Hashes]
    /\ UNCHANGED <<diskVars, now, clientVars, cutoff, seen, marked, victim>>

\* Variant: the age of the blob is not looked at.
KeepsMarkedOnly(g, h) == h \in marked[g]

\* A blob file that is referenced, or whose modification time is after the cutoff.
Keeps(g, h) == h \in marked[g] \/ mtime[h] > cutoff[g]

\* Variant: a blob file that cannot be judged is passed over.
GCSkipUnjudged(g, h) ==
    /\ gpc[g] = "sweep"
    /\ h \in unswept[g]
    /\ unswept' = [unswept EXCEPT ![g] = @ \ {h}]
    /\ UNCHANGED <<diskVars, now, clientVars, gpc, cutoff, seen, marked, victim>>

GCSkip(g, h) ==
    /\ gpc[g] = "sweep"
    /\ h \in unswept[g]
    /\ h \in blobs => Keeps(g, h)
    /\ unswept' = [unswept EXCEPT ![g] = @ \ {h}]
    /\ UNCHANGED <<diskVars, now, clientVars, gpc, cutoff, seen, marked, victim>>

\* d.Info() reports an unreferenced blob that is old enough.
GCInfo(g, h) ==
    /\ gpc[g] = "sweep"
    /\ h \in unswept[g]
    /\ h \in blobs /\ ~Keeps(g, h)
    /\ gpc' = [gpc EXCEPT ![g] = "remove"]
    /\ victim' = [victim EXCEPT ![g] = h]
    /\ unswept' = [unswept EXCEPT ![g] = @ \ {h}]
    /\ UNCHANGED <<diskVars, now, clientVars, cutoff, seen, marked>>

\* os.Remove takes whatever file has the name now.
GCRemove(g) ==
    /\ gpc[g] = "remove"
    /\ victim[g] \in blobs
    /\ blobs' = blobs \ {victim[g]}
    /\ mtime' = [mtime EXCEPT ![victim[g]] = 0]
    /\ gpc' = [gpc EXCEPT ![g] = "sweep"]
    /\ victim' = [victim EXCEPT ![g] = NoHash]
    /\ UNCHANGED <<alias, guarded, now, clientVars, cutoff, seen, marked, unswept>>

\* The walk of the blobs ends; or an error ends the run early: an alias that
\* vanished before it was read, a blob another collector took first, a kill.
GCEnd(g) ==
    /\ gpc[g] # "idle"
    /\ gpc' = [gpc EXCEPT ![g] = "idle"]
    /\ cutoff' = [cutoff EXCEPT ![g] = 0]
    /\ seen' = [seen EXCEPT ![g] = {}]
    /\ marked' = [marked EXCEPT ![g] = {}]
    /\ unswept' = [unswept EXCEPT ![g] = {}]
    /\ victim' = [victim EXCEPT ![g] = NoHash]
    /\ UNCHANGED <<diskVars, now, clientVars>>

---------------------------------------------------------------------------

\* Time passes.  No upload spends more than MaxFinalize in its final steps: the
\* deployment's side of the grace period.
Tick ==
    /\ now < MaxTime
    /\ \A c \in Clients : pc[c] \in FinalSteps => now < wrote[c] + MaxFinalize
    /\ now' = now + 1
    /\ UNCHANGED <<diskVars, clientVars, gcVars>>

ClientNext(c) ==
    \/ Reply(c) \/ Fail(c)
    \/ \E k \in Keys, h \in Hashes : PutStart(c, k, h)
    \/ PutCopied(c) \/ PutStatHit(c) \/ PutStatMiss(c) \/ PutRename(c) \/ PutPublish(c)
    \/ \E k \in Keys : GetStart(c, k) \/ DeleteStart(c, k)
    \/ GetLookup(c) \/ GetMissing(c) \/ GetOpen(c)
    \/ DeleteFind(c) \/ DeleteMissing(c) \/ DeleteUnlink(c)
    \/ \E n \in Namespaces : DropStart(c, n)
    \/ \E k \in Keys : DropUnlink(c, k)
    \/ DropDone(c)

CollectorNext(g) ==
    \/ GCStart(g) \/ GCSweep(g) \/ GCRemove(g) \/ GCEnd(g)
    \/ \E k \in Keys : GCVisit(g, k)
    \/ \E h \in Hashes : GCSkip(g, h) \/ GCInfo(g, h)

Next ==
    \/ \E c \in Clients : ClientNext(c)
    \/ \E g \in Collectors : CollectorNext(g)
    \/ Crash
    \/ Tick

Spec == Init /\ [][Next]_vars

---------------------------------------------------------------------------
(* Properties                                                              *)

\* The state is well formed: a request in an object step has its object, an
\* upload has its content, a reader past the alias has the hash it read.
TypeOK ==
    /\ alias \in [Keys -> Hashes \cup {NoHash}]
    /\ guarded \in [Keys -> BOOLEAN]
    /\ blobs \subseteq Hashes
    /\ mtime \in [Hashes -> Nat]
    /\ now \in Nat
    /\ pc \in [Clients -> ClientSteps]
    /\ op \in [Clients -> Operations \cup {"none"}]
    /\ key \in [Clients -> Keys \cup {NoKey}]
    /\ hash \in [Clients -> Hashes \cup {NoHash}]
    /\ wrote \in [Clients -> Nat]
    /\ fresh \in [Clients -> BOOLEAN]
    /\ todo \in [Clients -> SUBSET Keys]
    /\ status \in [Clients -> Statuses]
    /\ gpc \in [Collectors -> {"idle", "mark", "sweep", "remove"}]
    /\ cutoff \in [Collectors -> Int]
    /\ seen \in [Collectors -> SUBSET Keys]
    /\ marked \in [Collectors -> SUBSET Hashes]
    /\ unswept \in [Collectors -> SUBSET Hashes]
    /\ victim \in [Collectors -> Hashes \cup {NoHash}]
    /\ \A c \in Clients :
          /\ pc[c] \in UploadSteps \cup {"lookup", "open", "find", "unlink"} => key[c] \in Keys
          /\ pc[c] \in UploadSteps \cup {"open", "unlink"} => hash[c] \in Hashes

\* The collector "deletes any blob no alias references" (README, Backup, restore,
\* GC; store.go:252) and no other: an object whose upload wrote its blob, or found
\* it young enough, or ran beside no collector, keeps its blob, whatever uploads,
\* deletes, crashes and collections follow.
GuardedAliasHasBlob == \A k \in Keys : alias[k] # NoHash /\ guarded[k] => alias[k] \in blobs

\* The same without the history variable: no alias ever names a missing blob.
NoDanglingAlias == \A k \in Keys : alias[k] # NoHash => alias[k] \in blobs

\* An upload that is about to publish its alias still has the blob it installed,
\* or found young: the grace period covers the gap between blob and alias, even
\* when a slower upload of the same content has put an older file in its place.
FreshUploadKeepsBlob == \A c \in Clients : pc[c] = "publish" /\ fresh[c] => hash[c] \in blobs

\* "Files newer than gracePeriod are skipped" (store.go:253): a blob file that is
\* removed is at least Grace old at that moment, though its age was read earlier.
RemovesOnlyAged == [][\A h \in blobs \ blobs' : mtime[h] + Grace <= now]_vars

\* It "deletes any blob no alias references" (store.go:252): what the walk of the
\* blobs has passed and left in its place was marked, or is younger than the cutoff,
\* whatever uploads have put behind the walk.  A run that comes to its end leaves
\* nothing else, beside any number of other collectors.
SweepIsThorough ==
    \A g \in Collectors : gpc[g] \in {"sweep", "remove"} =>
        \A h \in blobs \ unswept[g] :
            Keeps(g, h) \/ (gpc[g] = "remove" /\ h = victim[g])

\* handleGet has read the alias when the collector takes the blob: the 404 that
\* follows (server.go:329-333) is for an object that was overwritten or removed
\* meanwhile, or whose blob the grace period did not cover.
ReadsServeWhatStays ==
    [][\A c \in Clients :
          pc[c] = "open" /\ pc'[c] = "reply" /\ status'[c] = "notfound" =>
              alias[key[c]] # hash[c] \/ ~guarded[key[c]]]_vars

---------------------------------------------------------------------------
(* The inductive invariant behind these properties, for a single collector. *)

\* A finalizing upload is within its time.
UploadInTime ==
    \A c \in Clients : pc[c] \in FinalSteps => wrote[c] <= now /\ now <= wrote[c] + MaxFinalize

\* No blob file is dated in the future.
BlobDated == \A h \in blobs : mtime[h] <= now

\* A collector's cutoff is a grace period ago or more.
CutoffPast == \A g \in Collectors : gpc[g] # "idle" => cutoff[g] + Grace <= now

\* A fresh upload's blob is there, and too young for any collector that starts
\* before the upload must have published.
FreshIsYoung ==
    \A c \in Clients : pc[c] = "publish" /\ fresh[c] =>
        hash[c] \in blobs /\ mtime[hash[c]] + Grace > wrote[c] + MaxFinalize

\* A blob that appeared after an upload missed it is about as young as the upload.
RacedBlobIsYoung ==
    \A c \in Clients : pc[c] = "rename" /\ hash[c] \in blobs =>
        mtime[hash[c]] + MaxFinalize >= wrote[c]

\* A running collector has marked the object's blob, or will pass its alias, or
\* finds the blob too young.
GuardedIsKept ==
    \A k \in Keys : alias[k] # NoHash /\ guarded[k] =>
        \A g \in Collectors :
            \/ gpc[g] = "idle"
            \/ gpc[g] = "mark" /\ k \notin seen[g]
            \/ Keeps(g, alias[k])

\* What a collector is about to remove is an old blob it has not marked.
VictimIsGarbage ==
    \A g \in Collectors : gpc[g] = "remove" => victim[g] \in blobs /\ ~Keeps(g, victim[g])

IInv ==
    /\ UploadInTime /\ BlobDated /\ CutoffPast
    /\ FreshIsYoung /\ RacedBlobIsYoung
    /\ GuardedAliasHasBlob /\ GuardedIsKept /\ VictimIsGarbage
=============================================================================
