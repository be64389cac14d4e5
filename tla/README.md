# picocdn in TLA+

picocdn is a small content store over HTTP: one Go server, a directory of
content-addressed blobs, one JSON file per object that names its blob, one JSON
file per namespace with the tokens that may use it, and a command line tool whose
commands work on the same files while the server runs. There is no database. What
the program guarantees rests on the order of its file system calls, on two
read-write locks, and on a grace period.

This directory holds TLA+ models of those parts, TLC configurations that check
them on small instances, and TLAPS proofs of what matters most for every instance.

    tlc -workers 2 -config MCBlobStoreGC.cfg MCBlobStore.tla     # one run
    tlapm BlobStoreProofs.tla                                    # one module's proofs

`PROJECT.json` lists the runs, the mutated definitions each property must be able
to tell from the real ones, the source lines behind every definition, the
findings, the hazards and the theorems.

## 1. The system

| component | state | operations | source |
|---|---|---|---|
| object store | `blobs/sha256/**`, `aliases/<ns>/**.json`, `tmp/uploads/*` | PutObject, GetObject, DeleteObject, DeleteNamespaceAliases, WalkObjects, HasAlias, GC | `internal/store/store.go` |
| authorization store | the map of namespaces under one RWMutex, `namespaces/<ns>.json` | load, create/delete namespace, rotate owner, create/revoke token, set index, set public read; authorize | `internal/auth/auth.go` |
| HTTP object plane | none of its own | GET/HEAD, PUT, DELETE, list; the permission gate | `internal/server/server.go` |
| HTTP admin plane | none of its own | the mutations of the authorization store, removal of a namespace | `internal/server/server.go` |
| request routing | none | host and path to namespace and object; index files | `internal/server/server.go` |
| root configuration | `~/.config/picocdn/config.json` | init, root create/revoke, config set-source-dir, install | `cmd/picocdn/{root,config,service}.go` |
| backup, restore | a tar archive | copy of a live data directory; restoration in place | `cmd/picocdn/main.go` |
| gc command | none | one run of Store.GC in a process of its own | `cmd/picocdn/main.go` |
| service, update | installed binary, systemd unit | calls of external programs | `cmd/picocdn/{service,update}.go`, `install.sh` |

How they interact:

* A request goes through the gate, which asks the authorization store several
  questions, each under a read lock of its own, and then calls the object store or
  a mutation. Nothing is asked again once the gate has granted.
* The server and `picocdn gc`, `backup`, `restore` share the data directory and no
  lock. A blob and its alias are written one after the other; `gc` walks the
  aliases and then the blobs. Only the modification time of a blob keeps the two
  apart.
* A mutation of the authorization store writes a temporary file, renames it, syncs
  the directory and then replaces the entry in memory, all under the write lock.
  Each call may fail; a crash may come between any two.
* Removing a namespace takes it from the authorization store and then removes its
  aliases from the object store, with nothing around the two steps.
* The commands on `config.json` read the whole file, decide, and write the whole
  file. The server reads it once, when it starts.

Hard behaviours: collector against upload (grace period, deduplication against an
old blob, modification times that a slow upload sets back); a read between alias
and blob; a namespace removal alias by alias beside uploads; failures after a
rename has taken effect; a power loss that brings an older directory entry back; an
authorization decision put together from several looks; a namespace created again
under the same name; commands that overwrite each other; walks over directories that
change; a restoration in place, cut short, beside a server that uses the files.

What makes each component correct:

* object store: an object's blob is not collected from under it; nothing younger
  than the grace period is removed; uploads, reads and deletes behave as one map.
* authorization store: every crash leaves files that load; acknowledged removals
  and issued tokens survive; a restart shows what the server showed; settings that were
  acknowledged are served.
* HTTP planes: an answer of the gate was right at some moment; nothing of a removed
  namespace is left for the next one without a reason.
* root configuration: printed tokens stay, revoked tokens stay away, one is left; a
  command that overlaps with others takes from them only what it has overlooked.
* gc command: orphans go in the end.
* listing: a listing that is complete misses nothing that stayed.
* backup, restore: an archived object has its blob in the archive; a restoration that
  reports success has put everything in its place; control files are whole always.
* files: no power loss leaves an alias without its blob, whole.

`PROJECT.json` has the hazards line by line.

## 2. The modules

| module | models | checked by | proved in |
|---|---|---|---|
| `BlobStore` | object store, its HTTP handlers, the gc command | `MCBlobStore` | `BlobStoreProofs` |
| `ObjectMap` | abstract: a linearizable map from object paths to contents | through `BlobStoreMap` | |
| `BlobStoreMap` | refinement mapping from `BlobStore` to `ObjectMap` | `MCBlobStore` | `BlobStoreMapProofs` |
| `AuthStore` | authorization store with its files | `MCAuthStore` | `AuthStoreProofs` |
| `AuthStoreAcks` | `AuthStore` with the calls that are acknowledged without a write | itself | |
| `TokenTable` | abstract: a table of namespaces with atomic, durable mutations | through `AuthStoreTable` | |
| `AuthStoreTable` | refinement mapping from `AuthStore` to `TokenTable` | `MCAuthStore` | `AuthStoreTableProofs` |
| `NamespaceLife` | gate, admin plane and both stores for one namespace | `MCNamespaceLife` | `NamespaceLifeProofs` |
| `RootConfig` | the root configuration and its commands | `MCRootConfig` | `RootConfigProofs` |
| `Reclamation` | `BlobStore` under fairness: the gc command run again and again | `MCReclamation` | |
| `LiveWalks` | `BlobStore` with a listing or a backup walking it | `MCLiveWalks` | `LiveWalksProofs` |
| `DataDir` | the files on the disk: uploads, deletes, gc, restore, power loss | `MCDataDir` | `DataDirProofs` |

### BlobStore

`alias` is the directory of alias files, `blobs` and `mtime` the blob files. A
client is a request in flight; `pc` names its next system call. An upload is
`PutStart` (temporary file), `PutCopied` (last byte: the modification time is
fixed here, rename does not change it), `PutStatHit` or `PutStatMiss` (os.Stat of
the blob), `PutRename`, `PutPublish` (writeAlias). A read is `GetStart`,
`GetLookup` (alias), `GetOpen` (blob); a delete `DeleteStart`, `DeleteFind`,
`DeleteUnlink`; a namespace removal `DropStart`, one `DropUnlink` per alias,
`DropDone`. `Fail` is an error at any of these points, `Crash` the end of the
server process. The collector is a process: `GCStart` (cutoff), `GCVisit` (one
alias of the walk, in any order), `GCSweep`, then for each blob `GCSkip`,
`GCInfo` (reads the age) and `GCRemove` (removes by name).

Contents are their hashes; a path is a pair of a namespace and a name. A walk
visits each path once, and it may or may not see what changes behind it; the
model lets it see the file system as it is when it passes.

`Tick` moves the clock unless an upload that is complete would take longer than
`MaxFinalize` from its last byte to its alias. This is an assumption on the
deployment: the code has no such limit, it relies on `--grace` being long. The
assumption the proofs need is `Grace > 2 * MaxFinalize`. One finalization is not
enough: an upload A finds the blob missing, a faster upload B of the same content
renames its own file there and publishes, then A renames its older file over it.
The blob of B's object is then up to one finalization older than B's upload.

### ObjectMap and BlobStoreMap

`ObjectMap` is the promise to clients: each operation takes effect at one instant
between call and answer; an error answer promises nothing; a stop of the server
forgets the requests. The mapping takes the alias files as the map. A read settles
when it has read the alias, although it opens the blob later: the blob is named by
its content. `Lose` is what a collector may add: a read that has settled answers "not
found" after all, because the blob went before it was opened. `Collected` says whether
there are collectors. With it the refinement holds for any number of them; which reads
cannot lose is `ReadsServeWhatStays` of `BlobStore`.

### AuthStore

`mem` is the table, `disk` the namespace files as the kernel shows them, `durable`
for each namespace the set of files a power loss may leave: those shown since the
last successful sync of the directory. The mutation that holds the lock is `jpc`,
`jname`, `jnew`, `jtoken`. Its steps are the mutation itself (checks and the new
entry), `Write` or `WriteFails` (everything up to the rename), `Commit` or
`SyncFails`. `Kill` leaves `disk`, `PowerLoss` an element of `durable`. `Start`
loads all files and needs all of them to validate, as NewStore does. Readers need no
action: they wait for the lock and see `mem` when `jpc` is `idle`.

The `namespaces` directory itself is made when the server starts (auth.go:223), and
nothing syncs the one above. `rooted` says that its entry is on the disk: it may be at
the start, and it is after `Settle`, the write-back of the operating system. Before that
a loss of power is `LoseDirectory`: all files go, and `lost` records the tokens that had
been issued. They are the one exception in `IssuedSurvives`.

Permission sets are reduced to owner and sub-token; `index` stands for the pair
index_file and index_disabled. `MaxUnsettled` bounds the failed mutations whose
outcome is open: it guards `Write`.

`TokenTable` is the promise to the server: one table, changed by one mutation at a
time. A mutation that succeeds is durable and is the one thing a restart will show of
its namespace. One that fails (`Fail`) is not in the table; a restart may show it done
or undone until a later success settles it. A token a mutation adds is neither in the
table nor in anything a restart may show. A table that is new may be forgotten as a
whole (`Forget`) until it is settled (`Settle`). The mapping takes the map in memory as
the table, or the files while the server is down, the rename of the file as the attempt,
and `rooted` as settled.

### AuthStoreAcks

`SetIndex` and `SetPublicRead` return success at once when the table has the value
already (auth.go:644, auth.go:667). They change nothing, so `AuthStore` has no step for
them; here they are `SetSameIndex` and `SetSamePublicRead`, beside all steps of
`AuthStore`, and `acked` holds the settings a call has acknowledged since the last
mutation of the namespace began. `AckedSettingsStay` asks that the server serves them
whenever it runs, after any kill, power loss and start.

### NamespaceLife

One namespace name. `live`, `owner`, `grants`, `public`, `era` are the table, `alias`
the objects. A request goes through `ReadPublic`, `RequireRoot`, `Exists`, `Authorize`,
`Probe` as the handlers ask their questions, then does one of the actions of the
handlers. A mutation is one step here: AuthStore shows what is inside it. `Purge`
removes the aliases after `Remove`, one by one; `PurgeFails` is the branch that
logs "alias cleanup failed" and answers 204.

`file` is the namespace file as the kernel shows it and `after` the set of those a power
loss may leave, as `TokenTable` has them. A mutation that succeeds (`Stores`) makes its
outcome the one thing left; one whose directory sync fails (`FailUnsettled`) leaves the
table alone, is answered with an error, and may be found done after a `Kill` or a
`PowerLoss`. A removal of that kind does not go on to the aliases. `Unsettling` names
the mutations that may fail so. A sync for the file of another namespace settles this
one's file as well; leaving that out allows more.

History: `era` tells the creations of the namespace apart, as the file's `created_at`
does, and `births` counts them; `alias` records the era in which an upload was authorized and whether it was published later than that era;
`possible` collects, for a request at the gate, the decisions that were right at
some moment since it arrived (`Decision` is the gate in one look); `leaked` the
eras that ended without all their aliases being removed: a removal was cut short, or
only a restart found the namespace gone.

A GET of the namespace or of a path that ends with a slash is first turned into a read
of the index object (`TryServeIndex`) or into a listing (`ListRoot`), or answered with
404 (`NoIndex`); only then the gate asks, about the operation it has become. The name
of the index file is a setting of AuthStore that may change at any time, so it is any
path here, or none.

Root tokens do not change while the server runs, so AuthorizeRoot needs no step of
its own. HasNamespace and AuthorizeRoot are one step for that reason.

### RootConfig

`file`, `durable` and `rooted` as in AuthStore: saveConfig makes the directory of the
file and syncs that directory only (config.go:43, config.go:77-82). Whether it is
there, and on the disk, at the start is left open. A command is `Begin` (read and
decide: one read of the file), `Save` (the rename), `Finish` (the directory sync, then
the answer), or `Abort` at any point: an error or a kill. Commands that refuse write
nothing. `Makes` is what a command makes of a configuration, all of it: the tokens and
the source directory, which is written back by commands that are not about it.

Nothing locks the file, so commands may overlap as they like: one reads, others rename,
and it renames what it made of the older file. The properties hold through all of that
but for what an overlap does take, and they name it: at a rename `Overlooked` are the
tokens that came or went since the command has read the file, and `undone` collects
them; `blanked` records that a command which read a file without tokens wrote one
without tokens over some. `lost` are the tokens printed when `LoseDirectory` took the
directory.

### Reclamation

The steps of `BlobStore` and nothing else, with `GCEnd` told apart into `GCFinish`
(the run has passed every blob) and `GCInterrupted` (it ended before). Weak fairness is
on `CollectorWork`, everything a collector does but being interrupted: a run that has
begun goes on, and the operator, or cron, starts another one. Clients owe nothing:
an upload may stop anywhere for ever. `OrphansAreReclaimed` has the premise that runs
are not interrupted for ever. Without it the property fails: a delete can hit every
walk between a directory and a file it named, and the run ends there with an error
(store.go:269).

### LiveWalks

Extends `BlobStore` with one walk at a time. `dirs` are directories it has not read,
`files` what the directory just read has named and the walk has not visited. `Visit`
reads the file with its content of that moment, `Vanished` ends the walk, `Skip` passes
over a dot name (a listing only), `WalkFails` is any other error. `job` tells a listing
(WalkObjects from handleList) from a backup (tarAddTree), which walks the blobs first
(`BackupBlob`, each one present or absent as it is passed) and then the aliases. `wpc`
is "done" or "cut" at the end; a listing answers the same in both cases, the model
keeps them apart. `stayed` (objects there since the walk began) and `touched` (those
written or removed since) are history, kept up by `StoreStep`, which is any step of
`BlobStore`.

### DataDir

`file` is what the kernel shows under each name: nothing, a whole content, or `Torn`.
`durable` is, as in AuthStore, what a power loss may leave. `raw` are the files whose
data restore has written and nobody has synced, `rooted` the files whose directory is
itself on the disk: `syncDir` of a directory that was just made (`AfterSync`) makes the
entry safe in a directory that may be lost. `Flush` is the operating system writing
back in its own time. An upload is `PutHit` or `PutMiss`, `PutInstall` (rename of the
blob), `PutSync`, `PutPublish` (rename of the alias), `PutAck` (sync, answer);
`PutFails` is an error or a kill at any of them. A restoration opens its entries in the
order of the archive: `RestoreOpen` truncates a blob or alias in place, `RestoreCopy`
writes it; `RestoreControl` and `RestoreControlSync` are restoreFileAtomic;
`RestoreCopyLost` is a copy into a file that the server has meanwhile replaced or
unlinked (`Overtaken`). `RestoreCut` is an error, a truncated archive or a kill.
`exposed` is history: the hashes somebody relied on, or took, while they were not safe.

The age of blobs is not in this module, so gc takes no blob of an upload under way here
and does not run during a restoration: ages are the business of `BlobStore`.

## 3. The runs

All properties but one are safety properties, for which symmetry over interchangeable
names, tokens, hashes and requests is sound. `reclamation` checks liveness, without
symmetry, under weak fairness of the collector's own steps. Deadlock is checked in
every run.

| run | instance | shows |
|---|---|---|
| `blob_store_gc` | 1 namespace, 2 names, 1 hash, 2 clients, 1 collector, Grace 3, MaxFinalize 1, clock to 4 | `GuardedAliasHasBlob`, `FreshUploadKeepsBlob`, `RemovesOnlyAged`, `SweepIsThorough`, `ReadsServeWhatStays`, and the invariant `IInv` |
| `blob_store_map` | 2 namespaces of 2 names, 2 hashes, 2 clients, no collector, clock at 0 | `NoDanglingAlias`; the store implements `ObjectMap` |
| `blob_store_dedup` | as the first with 1 name | violation: `NoDanglingAlias` |
| `auth_store` | 2 namespaces, 2 tokens, 2 index settings, at most 4 files a power loss may leave; 430,000 states | `Loadable`, `RevokedStaysRevoked`, `IssuedSurvives`, `RestartIsTransparent`, `IInv`; the store implements `TokenTable` |
| `auth_store_unwritten` | 1 namespace, 2 tokens, 1 index setting | violation: `AckedSettingsStay` |
| `namespace_life` | 1 path, 2 tokens, 2 requests, removals may be left unsettled | `DecisionIsTimely`, `NothingLeftBehind`, `IInv` |
| `namespace_removed` | the same, nothing left unsettled | violation: `RemovedIsGone` |
| `root_config` | 2 commands, overlapping, 2 tokens, a source directory or none; 2,180,000 states | `PrintedStays`, `RevokedStays`, `AlwaysARoot`, `NoUpdateIsLost`, `IInv` |
| `root_config_init` | 2 commands, 2 tokens | violation: `InitCreatesTheFirst` |
| `reclamation` | 1 object, 1 hash, 2 clients, 1 collector, Grace 1, MaxFinalize 0, clock to 2 | `OrphansAreReclaimed`; the store implements `ObjectMap` beside a collector |
| `live_walks` | 1 namespace, an object and a dot object, 2 hashes, 2 clients, no collector | `NothingStayedIsMissed`, `ArchiveIsClosed`, `WalkInv` |
| `data_dir` | 1 control file, 1 hash, 1 object, 2 requests, an archive of all three | `ControlIsWhole`, `TornIsRepaired`, `RestoredMeansComplete`, `AliasOutlivesNoBlob`, `IInv` |

Why the bounds are enough to see the interesting cases: a race between an upload
and the collector is between two requests that share one content (deduplication)
and one collector; two names let an object disappear behind the walk and reappear
in front of it, and the other way round. Grace 3 is the least that satisfies
`Grace > 2 * MaxFinalize` with a finalization that takes time at all, and a clock
to 4 lets a blob grow old once. Two namespaces and two tokens let a token be revoked
in one namespace while another's file is being replaced, and two index settings let a
mutation fail and be repeated. Four files for two namespaces (`MaxUnsettled`) leave room
for two mutations that failed half-way, of one namespace or of both, before one
succeeds; the third fails before its rename. Two tokens bound
`NamespaceLife` to two lives of the namespace, or one with a rotation or a
sub-token; a removal that failed and is found done, or undone, at the next start fits
between the two. A creation that fails returns its token to nobody and so may fail any
number of times: with "create" in `Unsettling` the eras have no bound, and the run has
"remove", the one mutation with a second half that a failure keeps from happening; the
proofs are for every `Unsettling`. In `root_config` two commands and two tokens let one
command read, the other create, print and revoke, and the first rename after that. Tokens are never reused (they are random), so their number bounds the
number of mutations that issue one. `BlobStore` needs no bound but the clock. In
`reclamation` the clock stops at 2, when any blob of the first instant is old; what
happens after that is one long present in which every blob is old, the case the
property is about. `live_walks` needs two files in a directory, so that one changes
while the walk is at the other, and two requests, so that an object is overwritten or
deleted and written again during one walk. `data_dir` has a file of each kind, and two
requests that share a blob and an object. Where a bound could hide something, the proofs have none.

The invariants called `IInv` and `WalkInv` and the parts they name are the inductive
invariants of the proofs, checked by TLC first.

## 4. What disagrees with the documentation

* `blob_store_dedup`: the grace period does not protect an upload that reuses an
  old orphan. PutObject finds the blob (store.go:374) and does not touch its
  modification time; a collector whose walk has passed the path removes it, and the
  new object names nothing. The documentation presents the grace period as what
  makes `gc` safe beside a server. `GuardedAliasHasBlob` says exactly which objects
  are safe: those whose upload brought the blob, or found it younger than the grace
  period less the finalization, or met no collector at work.
* `auth_store_unwritten`: the comment of Store (auth.go:185-188) has every mutation
  written to the file and the table in one. After a failed directory sync the file is
  ahead of the table; setting the value that the table still has is then acknowledged
  without a write (auth.go:667, likewise auth.go:644), and after a kill the next server
  serves the other one. The two calls that write nothing are what it takes: without
  them TLC finds no violation of `AckedSettingsStay` in this instance.
* `namespace_removed`: DELETE of a namespace answers 204 when the removal of its
  aliases failed, and a second DELETE answers 404 without cleaning up.
* `root_config_init`: the README of picocdn says of `init` "fails if one already exists"
  (README.md:90) and "first root only; fails if non-empty" (README.md:108). Two commands
  at a time, and `init` succeeds over a root token that exists.

Observations that contradict no statement of the repository, and are therefore not
checked as properties:

* A read can be refused with 401 although every single moment granted it: the
  public flag is looked at before the token, and a mutation may swap the two
  grounds in between. `DecisionIsTimely` makes this one exception, in the safe
  direction.
* A removal of a namespace that is still unlinking aliases takes those of a
  namespace created again under the name, uploads acknowledged in between included.
* A DELETE of a namespace whose directory sync fails (auth.go:511) answers 500 and keeps
  the namespace in memory, but its file is gone. Unless it is repeated before the next
  start, the namespace is missing then and its aliases are all there; a DELETE answers
  404 and does not remove them.
* A power loss soon after the first `init` may take the configuration directory with the
  token that was printed, and one soon after the first start of a server its namespaces:
  both directories are made without a sync of the one above (config.go:43,
  service.go:57, auth.go:223). `PrintedStays`, `AlwaysARoot`, `IssuedSurvives` and
  `ImplementsTable` name this exception; nothing else takes a token.
* A root command that overlaps with another may bring back a token the other has
  reported revoked, or take one it has printed. `PrintedStays` and `RevokedStays` say that
  it is the tokens between its read and its rename, and no others.
* An upload that was granted before the removal of its namespace may publish its alias
  after it. `NothingLeftBehind` names these uploads as an exception.
* An object whose name begins with a dot is never listed (store.go:215).
* A read whose object is overwritten or deleted after its alias was read may find the
  blob collected and answer 404, although the object existed at every moment. No grace
  period covers it: the blob was an orphan, and old, at once.
* A request that was granted acts on whatever namespace bears the name when it
  acts.
* With two collectors a file younger than the grace period can be removed: the age is
  read by one call and the removal is by name (store.go:303-310), and in between the
  other collector may remove the old file and an upload bring a new one.
* A listing that ended at a vanished alias is answered with 200 and closed JSON, like a
  complete one (server.go:293-296). `NothingStayedIsMissed` is about the walks that
  were not cut short, which the caller cannot tell from the others.
* A backup ends with an error at the first file that vanished; on a busy server the
  temporary file of any upload is enough. What it has written by then gets a valid end
  from the deferred Close calls, and errors of those calls are dropped.
* An archived alias whose blob is not in the archive is possible for objects that were
  written during the backup, because the blobs are walked first. `ArchiveIsClosed` says
  that it is possible for no others, but those that had lost their blob already.
* A restoration writes aliases and blobs in place, although the README (line 339) has
  aliases written by "atomic temp+rename". One that is cut short leaves a truncated
  blob under its hash, which the next upload of that content takes for the blob.
  `TornIsRepaired` says that a repeated restoration mends it, and that nothing else
  makes one.
* After a power loss an alias may name a blob that is missing or torn in four
  situations, which `exposed` collects: the upload found the blob there and did not ask
  whether it is on the disk (store.go:374); its directory was just made, and the parent
  of that is not synced (store.go:370); gc took it while the removal of an alias was
  not on the disk yet (store.go:184 drops that error); restore wrote it
  (main.go:358). `AliasOutlivesNoBlob` says that there is no fifth.
* A restoration beside `picocdn gc` that takes longer than the grace period loses blobs
  that no alias names yet.
* GET of a namespace may answer 404 although there was an index or a listing at every
  moment: the index object goes between HasAlias and the read.

## 5. What is proved

Every theorem is for all values of the constants that satisfy the named
assumptions of its module, so for any number of clients, objects, tokens, commands
and steps.

* `BlobStoreProofs`. `Typing`, and `SweepsAreThorough`, both for any number of
  collectors: what appears behind a sweep was written within `MaxFinalize`
  (`UploadInTime`), and cutoffs lie a grace period back (`CutoffPast`).
  Under `SingleCollector` (at most one collector) the
  invariant `IInv`, and from it `GuardedObjectsKeepTheirBlobs`,
  `FreshUploadsKeepTheirBlobs`, `OnlyAgedBlobsAreRemoved`,
  `ReadsOfStayingObjectsSucceed`. The properties are not
  inductive: the argument needs that a finalizing upload is within its time
  (`UploadInTime`), that a blob that appeared after an upload missed it is about as
  young as the upload (`RacedBlobIsYoung`), that cutoffs lie a grace period back
  (`CutoffPast`), and that a collector has marked a guarded object's blob, or will
  pass its alias, or finds the blob too young (`GuardedIsKept`). A `GraceAssumption`
  of two finalizations is used where an upload is overtaken by another. Without `SingleCollector`
  `OnlyAgedBlobsAreRemoved` does not hold (section 4).
* `BlobStoreMapProofs`. `StoreImplementsMap`, for any number of collectors: the initial
  state maps to the initial state and each action to the action of the map it takes
  effect in, or to a stutter; a collector's steps are stutters, and a read that finds its
  blob gone is `Lose`. `MapInductive` supplies that each request holds what its step
  needs and, while no collector runs, that blobs stay. Under `NoCollector`
  `NoAliasDangles` follows from it.
* `AuthStoreProofs`. `Typing`, `Inductive`, `RestartAlwaysLoads`,
  `RevocationIsFinal`, `IssuedTokensSurvive`, `RestartsAreTransparent`. The
  invariant speaks of all entries a namespace has, may become or may be found to
  be after a crash (`Entries`): each validates, lists only tokens that were
  generated and not revoked, and shares no token with another namespace. Each
  mutation is first shown to hand a proper entry to persistLocked.
* `AuthStoreTableProofs`. `StoreImplementsTable`: each step of `AuthStore` is a step of
  `TokenTable` or a stutter, for every `MaxUnsettled`. Besides the invariant above it
  takes that a mutation about to be written is one the table allows (`WriteIsLegal`),
  shown mutation by mutation. `NoneIsNoRecord` says that the value for "no namespace" is
  none of the records.
* `NamespaceLifeProofs`. `Typing`, `RemovalAccountsForObjects`, `Inductive`,
  `GateDecidesTimely`, for every `Unsettling`: any mutation may fail with its outcome
  left to the next start. The gate's answer is the decision of the table it looked at
  last; that its earlier findings still hold then rests on tokens never regaining
  a right, which rests on tokens not being issued twice, and on nobody presenting a
  token before it is issued (`TokensAreKnown`). Typing needs that every table a restart
  may show is well formed, so that what `Outcomes` puts there is shown to be, mutation
  by mutation.
* `RootConfigProofs`. `Typing`, `Inductive`, `PrintedTokensStay`,
  `RevokedTokensStayRevoked`, `ThereIsAlwaysARoot`, `NoCommandUndoesAnother`, for any
  number of commands, overlapping as they like. The invariant says that the file and all
  versions of it a power loss may leave fit the promises made (`printed`, `revoked`), and
  the file also those about to be made (`Promised`, `Gone`), as far as no command has
  overlooked them (`Fits`); that what a command is about to write is what it makes of the
  file it read (`AsRead`); and that a token not yet written is known to its own command
  only (`Fresh`), so that no other command can have removed it before it is printed.
* `LiveWalksProofs`. `StoreTyping`, `WalkTyping`. `StayedObjectsAreReported`, for any
  number of collectors: an object that stayed is found, or named by the directory and
  still to be visited, or in a directory still to be read (`StayedIsAhead`). Under
  `SingleCollector`, `WalkInductive` and `ArchivesAreClosed`: the blob of a guarded
  object nobody touched is archived or still ahead (`UntouchedIsKept`). The walk leaves
  the store alone, so the invariant of `BlobStoreProofs` holds beside it, and the
  argument about the grace period is made once.
* `DataDirProofs`. `Typing`, `Inductive`, `ControlFilesStayWhole`,
  `RestoreMendsWhatItTears`, `RestoredIsComplete`, `AliasesOutliveNoBlob`, for every
  archive. The invariant adds that a request about to publish has a safe blob or one
  that is known not to be (`PublishedIsSafe`), that only restore tears what the disk
  may show (`TornOnDisk`), that what it has written stays unless the server changes it
  (`WrittenIsThere`), and that the file it has open is the one under the name unless it
  was overtaken (`OpenIsTorn`).

Only model-checked: `OrphansAreReclaimed` and the four violations. What
`OrphansAreReclaimed` needs of a single run, that it leaves no orphan it should have
taken, is `SweepsAreThorough`. Liveness under
fairness, ENABLED and induction over data are out of the prover's reach and stay with
TLC.

## 6. What is not modelled, and what could follow

Every component that keeps state has its module. What the properties leave out, so that
they do not catch a hazard that `PROJECT.json` lists without a property:

* `NothingStayedIsMissed` is about walks that were not cut short, and in a listing about
  names that do not begin with a dot.
* `NothingLeftBehind` leaves out uploads stamped later than their era.
* `AliasOutlivesNoBlob` leaves out the four situations of section 4.
* `OrphansAreReclaimed` has the premise that runs are not interrupted for ever. Steady
  deletes may do just that.
* `RestoredMeansComplete` ends at the answer: a power loss after it counts as a
  restoration that was cut.
* `NamespaceLife` takes the directory of the namespace file as on the disk for good; its
  loss is in `AuthStore`.

Not modelled:

* ServeHTTP, the mux, namespaceFromHost, cleanObjectPath, safeAliasPath, restoreDest,
  the validation of names: functions of their input, without state and without a
  second reader to race with. Every outcome of theirs is an input of an action. Their
  definitions are about characters, and a model of them would restate them.
* The graceful shutdown, flags, limits of the HTTP library.
* systemd units, downloads and updates: calls of external programs one after the other,
  whose only state is the installed binary.
* Request log, client address, JSON encoding, content types, Cache-Control: output
  without an effect on state.
* `tmp/uploads` files that a crash leaves: nothing reads them and nothing promises to
  remove them. `backup --include-tmp` is one more tree.
* The archive as a file: its truncation is `RestoreCut`.
* Object paths as file names: that `/a` and `/a.json/b` need a file and a directory of
  one name, and that directories stay when their last alias goes, is outside the models,
  where a path is a model value. An upload that fails for that reason is `Fail`.

What could follow: `NamespaceLife` takes a mutation of the authorization store as one
step, on the strength of the write lock and of `TokenTable`; an `AuthStore` with one
component for each request would compose the two. `DataDir` and `BlobStore` share the
steps of an upload; one module with both clocks and disks would bring gc and restore
together, at the price of a state space TLC cannot cover.
