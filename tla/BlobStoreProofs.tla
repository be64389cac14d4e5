--------------------------- MODULE BlobStoreProofs ---------------------------
(***************************************************************************)
(* Proofs about BlobStore, for every number of namespaces, names, contents *)
(* and clients, and every Grace > 2 * MaxFinalize.                         *)
(***************************************************************************)
EXTENDS BlobStore, TLAPS

\* The constants as the provers need them.
LEMMA ConstantTypes ==
    /\ NoHash \notin Hashes /\ NoKey \notin Keys
    /\ Operations \subseteq {"put", "get", "delete", "drop"}
    /\ Grace \in Nat /\ MaxFinalize \in Nat /\ Grace > 2 * MaxFinalize
BY NoHashAssumption, NoKeyAssumption, OperationsAssumption, TimeAssumption, GraceAssumption

---------------------------------------------------------------------------
(* Type correctness                                                        *)

\* The state of BlobStore stays well formed in every behaviour of the store,
\* with any number of collectors.
LEMMA TypingInit == Init => TypeOK
BY ConstantTypes DEF Init, TypeOK, ClientSteps, UploadSteps, Statuses

LEMMA TypingClient ==
    ASSUME TypeOK, NEW c \in Clients, ClientNext(c)
    PROVE  TypeOK'
<1> USE ConstantTypes DEF TypeOK, ClientSteps, UploadSteps, Statuses, diskVars, gcVars
<1>1. CASE Reply(c)
      BY <1>1 DEF Reply
<1>2. CASE Fail(c)
      BY <1>2 DEF Fail, Answer
<1>3. ASSUME NEW k \in Keys, NEW h \in Hashes, PutStart(c, k, h)
      PROVE  TypeOK'
      BY <1>3 DEF PutStart, Invoke
<1>4. CASE PutCopied(c)
      BY <1>4 DEF PutCopied
<1>5. CASE PutStatHit(c)
      BY <1>5 DEF PutStatHit
<1>6. CASE PutStatMiss(c)
      BY <1>6 DEF PutStatMiss
<1>7. CASE PutRename(c)
      BY <1>7 DEF PutRename
<1>8. CASE PutPublish(c)
      BY <1>8 DEF PutPublish, Answer, Safe
<1>9. ASSUME NEW k \in Keys, GetStart(c, k) \/ DeleteStart(c, k)
      PROVE  TypeOK'
      BY <1>9, SMTT(20) DEF GetStart, DeleteStart, Invoke
<1>10. CASE GetLookup(c)
      BY <1>10 DEF GetLookup
<1>11. CASE GetMissing(c)
      BY <1>11 DEF GetMissing, Answer
<1>12. CASE GetOpen(c)
  <2>1. PICK s \in {"ok", "notfound"}, h \in Hashes \cup {NoHash} :
           Answer(c, s, h) /\ UNCHANGED diskVars
        BY <1>12 DEF GetOpen
  <2>2. QED
        BY <2>1 DEF Answer
<1>13. CASE DeleteFind(c)
      BY <1>13 DEF DeleteFind
<1>14. CASE DeleteMissing(c)
      BY <1>14 DEF DeleteMissing, Answer
<1>15. CASE DeleteUnlink(c)
      BY <1>15 DEF DeleteUnlink, Answer
<1>16. ASSUME NEW n \in Namespaces, DropStart(c, n)
      PROVE  TypeOK'
  <2>1. {n} \X Names \in SUBSET Keys
        BY DEF Keys
  <2>2. QED
        BY <1>16, <2>1 DEF DropStart, Invoke
<1>17. ASSUME NEW k \in Keys, DropUnlink(c, k)
      PROVE  TypeOK'
      BY <1>17 DEF DropUnlink
<1>18. CASE DropDone(c)
      BY <1>18 DEF DropDone, Answer
<1>19. QED
      BY <1>1, <1>2, <1>3, <1>4, <1>5, <1>6, <1>7, <1>8, <1>9, <1>10, <1>11, <1>12,
         <1>13, <1>14, <1>15, <1>16, <1>17, <1>18 DEF ClientNext

LEMMA TypingCollector ==
    ASSUME TypeOK, NEW g \in Collectors, CollectorNext(g)
    PROVE  TypeOK'
<1> USE ConstantTypes DEF TypeOK, ClientSteps, UploadSteps, Statuses, diskVars, clientVars
<1>1. CASE GCStart(g)
      BY <1>1 DEF GCStart
<1>2. ASSUME NEW k \in Keys, GCVisit(g, k)
      PROVE  TypeOK'
      BY <1>2 DEF GCVisit
<1>3. CASE GCSweep(g)
      BY <1>3 DEF GCSweep
<1>4. ASSUME NEW h \in Hashes, GCSkip(g, h) \/ GCInfo(g, h)
      PROVE  TypeOK'
      BY <1>4, SMTT(20) DEF GCSkip, GCInfo
<1>5. CASE GCRemove(g)
      BY <1>5 DEF GCRemove
<1>6. CASE GCEnd(g)
      BY <1>6 DEF GCEnd
<1>7. QED
      BY <1>1, <1>2, <1>3, <1>4, <1>5, <1>6 DEF CollectorNext

LEMMA TypingStep == TypeOK /\ [Next]_vars => TypeOK'
<1> SUFFICES ASSUME TypeOK, [Next]_vars
             PROVE  TypeOK'
    OBVIOUS
<1>1. ASSUME NEW c \in Clients, ClientNext(c)
      PROVE  TypeOK'
      BY <1>1, TypingClient
<1>2. ASSUME NEW g \in Collectors, CollectorNext(g)
      PROVE  TypeOK'
      BY <1>2, TypingCollector
<1>3. CASE Crash
      BY <1>3, ConstantTypes
      DEF Crash, TypeOK, ClientSteps, UploadSteps, Statuses, diskVars, gcVars
<1>4. CASE Tick
      BY <1>4 DEF Tick, TypeOK, diskVars, clientVars, gcVars
<1>5. CASE UNCHANGED vars
      BY <1>5 DEF vars, TypeOK, diskVars, clientVars, gcVars
<1>6. QED
      BY <1>1, <1>2, <1>3, <1>4, <1>5 DEF Next

\* The store's state is well formed in every behaviour: no request acts on a
\* missing object or content (the guards of store.go's error returns).
THEOREM Typing == Spec => []TypeOK
BY TypingInit, TypingStep, PTL DEF Spec

---------------------------------------------------------------------------
(* What a run of the collector achieves, beside any number of others: the  *)
(* blobs it leaves behind are marked or young.  This takes no more of the  *)
(* inductive invariant than the clock.                                     *)

\* Uploads are within their time, and cutoffs a grace period ago.
InTime == UploadInTime /\ CutoffPast

\* What a request may do to a collector's sweep: put in a blob whose temporary file
\* was written MaxFinalize ago at most.
LEMMA ClientInTime ==
    ASSUME TypeOK, InTime, NEW c \in Clients, ClientNext(c)
    PROVE  /\ UNCHANGED <<now, gcVars>>
           /\ UploadInTime'
           /\ \A h \in blobs' :
                 \/ h \in blobs /\ mtime'[h] = mtime[h]
                 \/ h \in Hashes /\ mtime'[h] \in Nat /\ now <= mtime'[h] + MaxFinalize
<1> DEFINE Goal == /\ UNCHANGED <<now, gcVars>>
                   /\ UploadInTime'
                   /\ \A h \in blobs' :
                         \/ h \in blobs /\ mtime'[h] = mtime[h]
                         \/ /\ h \in Hashes /\ mtime'[h] \in Nat
                            /\ now <= mtime'[h] + MaxFinalize
<1> SUFFICES Goal
    OBVIOUS
<1> USE ConstantTypes DEF TypeOK, InTime, UploadInTime, FinalSteps, UploadSteps, diskVars, gcVars
<1>1. CASE Reply(c)
      BY <1>1 DEF Reply
<1>2. CASE Fail(c) \/ GetMissing(c) \/ GetOpen(c) \/ DeleteMissing(c) \/ DropDone(c)
      BY <1>2, SMTT(20) DEF Fail, GetMissing, GetOpen, DeleteMissing, DropDone, Answer
<1>3. ASSUME NEW k \in Keys, NEW h \in Hashes, PutStart(c, k, h)
      PROVE  Goal
      BY <1>3 DEF PutStart, Invoke
<1>4. CASE PutCopied(c)
      BY <1>4 DEF PutCopied
<1>5. CASE PutStatHit(c) \/ PutStatMiss(c)
      BY <1>5 DEF PutStatHit, PutStatMiss
<1>6. CASE PutRename(c)
      BY <1>6, SMTT(20) DEF PutRename
<1>7. CASE PutPublish(c) \/ DeleteUnlink(c)
      BY <1>7, SMTT(20) DEF PutPublish, DeleteUnlink, Answer
<1>8. ASSUME NEW k \in Keys, GetStart(c, k) \/ DeleteStart(c, k)
      PROVE  Goal
      BY <1>8 DEF GetStart, DeleteStart, Invoke
<1>9. CASE GetLookup(c) \/ DeleteFind(c)
      BY <1>9 DEF GetLookup, DeleteFind
<1>10. ASSUME NEW n \in Namespaces, DropStart(c, n)
       PROVE  Goal
       BY <1>10 DEF DropStart, Invoke
<1>11. ASSUME NEW k \in Keys, DropUnlink(c, k)
       PROVE  Goal
       BY <1>11 DEF DropUnlink
<1>12. QED
       BY <1>1, <1>2, <1>3, <1>4, <1>5, <1>6, <1>7, <1>8, <1>9, <1>10, <1>11 DEF ClientNext

LEMMA SweepClient ==
    ASSUME TypeOK, InTime, SweepIsThorough, NEW c \in Clients, ClientNext(c)
    PROVE  InTime' /\ SweepIsThorough'
<1>1. /\ UNCHANGED <<now, gcVars>> /\ UploadInTime'
      /\ \A h \in blobs' :
            \/ h \in blobs /\ mtime'[h] = mtime[h]
            \/ h \in Hashes /\ mtime'[h] \in Nat /\ now <= mtime'[h] + MaxFinalize
      BY ClientInTime
<1>2. InTime'
      BY <1>1 DEF InTime, CutoffPast, gcVars
\* A blob that comes in behind the walk is too young to be taken.
<1>3. ASSUME NEW g \in Collectors, gpc[g] \in {"sweep", "remove"},
             NEW h \in blobs', now <= mtime'[h] + MaxFinalize, mtime'[h] \in Nat
      PROVE  Keeps(g, h)'
  <2>1. cutoff[g] + Grace <= now /\ cutoff[g] \in Int /\ now \in Nat
        BY <1>3 DEF InTime, CutoffPast, TypeOK
  <2>2. mtime'[h] > cutoff[g]
        BY <1>3, <2>1, ConstantTypes
  <2>3. QED
        BY <1>1, <2>2 DEF Keeps, gcVars
<1>4. ASSUME NEW g \in Collectors, gpc[g] \in {"sweep", "remove"},
             NEW h \in blobs \ unswept[g], gpc[g] = "remove" => h # victim[g],
             mtime'[h] = mtime[h]
      PROVE  Keeps(g, h)'
      BY <1>1, <1>4 DEF SweepIsThorough, Keeps, gcVars
<1>5. SweepIsThorough'
      BY <1>1, <1>3, <1>4 DEF SweepIsThorough, gcVars
<1>6. QED
      BY <1>2, <1>5

LEMMA SweepCollector ==
    ASSUME TypeOK, InTime, SweepIsThorough, NEW g \in Collectors, CollectorNext(g)
    PROVE  InTime' /\ SweepIsThorough'
<1> USE ConstantTypes DEF TypeOK, InTime, CutoffPast, SweepIsThorough, Keeps, diskVars, clientVars
<1>1. UploadInTime'
  <2>1. UNCHANGED <<now, pc, wrote>>
        BY DEF CollectorNext, GCStart, GCVisit, GCSweep, GCSkip, GCInfo, GCRemove, GCEnd
  <2>2. QED
        BY <2>1 DEF UploadInTime
<1>2. CASE GCStart(g)
      BY <1>1, <1>2 DEF GCStart
<1>3. ASSUME NEW k \in Keys, GCVisit(g, k)
      PROVE  InTime' /\ SweepIsThorough'
      BY <1>1, <1>3 DEF GCVisit
<1>4. CASE GCSweep(g)
      BY <1>1, <1>4 DEF GCSweep
<1>5. ASSUME NEW h \in Hashes, GCSkip(g, h)
      PROVE  InTime' /\ SweepIsThorough'
      BY <1>1, <1>5 DEF GCSkip
<1>6. ASSUME NEW h \in Hashes, GCInfo(g, h)
      PROVE  InTime' /\ SweepIsThorough'
      BY <1>1, <1>6 DEF GCInfo
<1>7. CASE GCRemove(g)
      BY <1>1, <1>7 DEF GCRemove
<1>8. CASE GCEnd(g)
      BY <1>1, <1>8 DEF GCEnd
<1>9. QED
      BY <1>2, <1>3, <1>4, <1>5, <1>6, <1>7, <1>8 DEF CollectorNext

LEMMA SweepStep == TypeOK /\ InTime /\ SweepIsThorough /\ [Next]_vars => InTime' /\ SweepIsThorough'
<1> SUFFICES ASSUME TypeOK, InTime, SweepIsThorough, [Next]_vars
             PROVE  InTime' /\ SweepIsThorough'
    OBVIOUS
<1> USE ConstantTypes DEF InTime, UploadInTime, CutoffPast, SweepIsThorough, Keeps, FinalSteps,
                          diskVars, clientVars, gcVars
<1>1. CASE Crash
      BY <1>1 DEF Crash
<1>2. CASE Tick
      BY <1>2 DEF Tick, TypeOK
<1>3. CASE UNCHANGED vars
      BY <1>3 DEF vars
<1>4. QED
      BY <1>1, <1>2, <1>3, SweepClient, SweepCollector DEF Next

\* GC "deletes any blob no alias references" (store.go:252): with any number of
\* collectors, uploads and crashes, a blob file that a walk has passed and left was
\* marked or is younger than the cutoff.  What an upload renames into place behind
\* the walk is as young as MaxFinalize, which the grace period exceeds.
THEOREM SweepsAreThorough == Spec => []SweepIsThorough
<1>1. Init => InTime /\ SweepIsThorough
      BY ConstantTypes DEF Init, InTime, UploadInTime, CutoffPast, SweepIsThorough, FinalSteps
<1>2. QED
      BY <1>1, SweepStep, Typing, PTL DEF Spec

---------------------------------------------------------------------------
(* The inductive invariant.  From here on at most one collector runs.  Of  *)
(* two, one can remove a young blob: it has read the age of the file that  *)
(* the other removed, an upload has put a new one there, and the removal   *)
(* goes by name (store.go:303-310).                                        *)

SingleCollector == \A a, b \in Collectors : a = b

LEMMA IInvInit == Init => IInv
BY ConstantTypes DEF Init, IInv, UploadInTime, BlobDated, CutoffPast, FreshIsYoung,
   RacedBlobIsYoung, GuardedAliasHasBlob, GuardedIsKept, VictimIsGarbage, FinalSteps

\* A request's step that publishes no alias, touches no blob and moves no upload
\* from one of its final steps to another disturbs nothing.
Quiet ==
    /\ UNCHANGED <<blobs, mtime, now, gcVars>>
    /\ \A k \in Keys : alias'[k] # NoHash /\ guarded'[k] => alias[k] = alias'[k] /\ guarded[k]
    /\ \A c \in Clients : pc'[c] \in FinalSteps =>
          /\ pc'[c] = pc[c] /\ hash'[c] = hash[c]
          /\ wrote'[c] = wrote[c] /\ fresh'[c] = fresh[c]

LEMMA QuietStep ==
    ASSUME TypeOK, IInv, Quiet
    PROVE  IInv'
<1> USE DEF Quiet, IInv, gcVars
<1>1. UploadInTime'
      BY DEF UploadInTime
<1>2. BlobDated' /\ CutoffPast' /\ VictimIsGarbage'
      BY DEF BlobDated, CutoffPast, VictimIsGarbage, Keeps
<1>3. FreshIsYoung' /\ RacedBlobIsYoung'
      BY DEF FreshIsYoung, RacedBlobIsYoung, FinalSteps
<1>4. GuardedAliasHasBlob'
      BY DEF GuardedAliasHasBlob
<1>5. GuardedIsKept'
      BY DEF GuardedIsKept, Keeps
<1>6. QED
      BY <1>1, <1>2, <1>3, <1>4, <1>5

\* Answering a request is quiet when it publishes no alias.
LEMMA QuietAnswer ==
    ASSUME TypeOK, NEW c \in Clients, NEW s, NEW h, Answer(c, s, h), UNCHANGED <<blobs, mtime>>,
           \A k \in Keys :
              alias'[k] # NoHash /\ guarded'[k] => alias[k] = alias'[k] /\ guarded[k]
    PROVE  Quiet
BY DEF Quiet, Answer, TypeOK, FinalSteps, ClientSteps, UploadSteps

\* An upload's last byte: it enters its final steps with time to spare.
LEMMA PutCopiedStep ==
    ASSUME TypeOK, IInv, NEW c \in Clients, PutCopied(c)
    PROVE  IInv'
<1> USE ConstantTypes DEF PutCopied, IInv, diskVars, gcVars, TypeOK
<1>1. UploadInTime'
      BY DEF UploadInTime, FinalSteps
<1>2. BlobDated' /\ CutoffPast' /\ VictimIsGarbage' /\ GuardedAliasHasBlob'
      BY DEF BlobDated, CutoffPast, VictimIsGarbage, GuardedAliasHasBlob, Keeps
<1>3. FreshIsYoung' /\ RacedBlobIsYoung'
      BY DEF FreshIsYoung, RacedBlobIsYoung
<1>4. GuardedIsKept'
      BY DEF GuardedIsKept, Keeps
<1>5. QED
      BY <1>1, <1>2, <1>3, <1>4

LEMMA PutStatStep ==
    ASSUME TypeOK, IInv, NEW c \in Clients, PutStatHit(c) \/ PutStatMiss(c)
    PROVE  IInv'
<1> USE ConstantTypes DEF PutStatHit, PutStatMiss, IInv, diskVars, gcVars, TypeOK
<1>1. UploadInTime'
      BY DEF UploadInTime, FinalSteps
<1>2. BlobDated' /\ CutoffPast' /\ VictimIsGarbage' /\ GuardedAliasHasBlob'
      BY DEF BlobDated, CutoffPast, VictimIsGarbage, GuardedAliasHasBlob, Keeps
<1>3. FreshIsYoung' /\ RacedBlobIsYoung'
      BY ZenonT(60) DEF FreshIsYoung, RacedBlobIsYoung
<1>4. GuardedIsKept'
      BY DEF GuardedIsKept, Keeps
<1>5. QED
      BY <1>1, <1>2, <1>3, <1>4

\* Installing a blob, possibly over a younger file that a faster upload put
\* there: every alias and upload that relies on the blob is recent enough.
LEMMA PutRenameStep ==
    ASSUME TypeOK, IInv, NEW c \in Clients, PutRename(c)
    PROVE  IInv'
<1> USE ConstantTypes DEF PutRename, IInv, gcVars, TypeOK
<1>1. UploadInTime'
      BY DEF UploadInTime, FinalSteps
<1>2. /\ hash[c] \in Hashes /\ mtime'[hash[c]] = wrote[c] /\ wrote[c] \in Nat
      /\ wrote[c] <= now /\ now <= wrote[c] + MaxFinalize
      BY DEF UploadInTime, FinalSteps, UploadSteps
<1>3. BlobDated' /\ CutoffPast' /\ GuardedAliasHasBlob'
      BY <1>2 DEF BlobDated, CutoffPast, GuardedAliasHasBlob
<1>4. FreshIsYoung'
  <2>1. SUFFICES ASSUME NEW d \in Clients, pc'[d] = "publish", fresh'[d]
                 PROVE  /\ hash[d] \in blobs'
                        /\ mtime'[hash[d]] + Grace > wrote[d] + MaxFinalize
        BY DEF FreshIsYoung
  <2>2. CASE d = c
        BY <1>2, <2>2
  <2>3. CASE d # c
    <3>1. pc[d] = "publish" /\ fresh[d] /\ hash[d] \in Hashes /\ wrote[d] \in Nat
          BY <2>1, <2>3 DEF UploadSteps
    <3>2. hash[d] \in blobs /\ mtime[hash[d]] + Grace > wrote[d] + MaxFinalize
          BY <3>1 DEF FreshIsYoung
    <3>3. wrote[d] <= now
          BY <3>1 DEF UploadInTime, FinalSteps
    <3>4. wrote[c] + Grace > wrote[d] + MaxFinalize
          BY <1>2, <3>1, <3>3
    <3>5. CASE hash[d] = hash[c]
          BY <1>2, <3>4, <3>5
    <3>6. CASE hash[d] # hash[c]
          BY <3>1, <3>2, <3>6
    <3>7. QED
          BY <3>5, <3>6
  <2>4. QED
        BY <2>2, <2>3
<1>5. RacedBlobIsYoung'
  <2>1. SUFFICES ASSUME NEW d \in Clients, pc'[d] = "rename", hash[d] \in blobs'
                 PROVE  mtime'[hash[d]] + MaxFinalize >= wrote[d]
        BY DEF RacedBlobIsYoung
  <2>2. d # c /\ pc[d] = "rename" /\ hash[d] \in Hashes /\ wrote[d] \in Nat
        BY <2>1 DEF UploadSteps
  <2>3. wrote[d] <= now
        BY <2>2 DEF UploadInTime, FinalSteps
  <2>4. CASE hash[d] = hash[c]
        BY <1>2, <2>2, <2>3, <2>4
  <2>5. CASE hash[d] # hash[c]
        BY <2>1, <2>2, <2>5 DEF RacedBlobIsYoung
  <2>6. QED
        BY <2>4, <2>5
<1>6. \A g \in Collectors : gpc[g] # "idle" => cutoff[g] < wrote[c]
      BY <1>2 DEF CutoffPast
<1>7. GuardedIsKept'
      BY <1>2, <1>6 DEF GuardedIsKept, Keeps
<1>8. VictimIsGarbage'
  <2>1. ASSUME NEW g \in Collectors, gpc[g] = "remove", victim[g] = hash[c]
        PROVE  FALSE
    <3>1. hash[c] \in blobs /\ mtime[hash[c]] <= cutoff[g]
          BY <2>1, <1>2 DEF VictimIsGarbage, Keeps
    <3>2. mtime[hash[c]] + MaxFinalize >= wrote[c]
          BY <3>1 DEF RacedBlobIsYoung
    <3>3. cutoff[g] + Grace <= now
          BY <2>1 DEF CutoffPast
    <3>4. mtime[hash[c]] \in Nat /\ cutoff[g] \in Int
          BY <1>2, <2>1
    <3>5. QED
          BY <1>2, <3>1, <3>2, <3>3, <3>4
  <2>2. QED
        BY <2>1, <1>2 DEF VictimIsGarbage, Keeps
<1>9. QED
      BY <1>1, <1>3, <1>4, <1>5, <1>7, <1>8

\* Publishing the alias: whatever makes it guarded keeps its blob.
LEMMA PutPublishStep ==
    ASSUME TypeOK, IInv, NEW c \in Clients, PutPublish(c)
    PROVE  IInv'
<1> USE ConstantTypes DEF PutPublish, Answer, IInv, gcVars, TypeOK
<1>1. UploadInTime'
      BY DEF UploadInTime, FinalSteps
<1>2. BlobDated' /\ CutoffPast' /\ VictimIsGarbage'
      BY DEF BlobDated, CutoffPast, VictimIsGarbage, Keeps
<1>3. FreshIsYoung' /\ RacedBlobIsYoung'
      BY DEF FreshIsYoung, RacedBlobIsYoung
<1>4. key[c] \in Keys /\ hash[c] \in Hashes
      BY DEF UploadSteps
<1>5. \A k \in Keys : alias'[k] # NoHash /\ guarded'[k] =>
         \/ alias[k] = alias'[k] /\ guarded[k]
         \/ k = key[c] /\ alias'[k] = hash[c] /\ (fresh[c] \/ Safe(hash[c]))
      BY <1>4
<1>6. fresh[c] => /\ hash[c] \in blobs
                  /\ \A g \in Collectors : gpc[g] # "idle" => mtime[hash[c]] > cutoff[g]
  <2>1. ASSUME fresh[c]
        PROVE  hash[c] \in blobs /\ mtime[hash[c]] + Grace > wrote[c] + MaxFinalize
        BY <2>1 DEF FreshIsYoung
  <2>2. now <= wrote[c] + MaxFinalize
        BY DEF UploadInTime, FinalSteps
  <2>3. QED
        BY <1>4, <2>1, <2>2 DEF CutoffPast
<1>7. GuardedAliasHasBlob'
      BY <1>5, <1>6 DEF GuardedAliasHasBlob, Safe
<1>8. GuardedIsKept'
      BY <1>5, <1>6 DEF GuardedIsKept, Keeps, Safe
<1>9. QED
      BY <1>1, <1>2, <1>3, <1>7, <1>8

LEMMA IInvClient ==
    ASSUME TypeOK, IInv, NEW c \in Clients, ClientNext(c)
    PROVE  IInv'
<1> USE DEF diskVars, gcVars
<1>1. CASE Reply(c)
      BY <1>1, QuietStep DEF Reply, Quiet, TypeOK, FinalSteps
<1>2. CASE Fail(c) \/ GetMissing(c) \/ DeleteMissing(c) \/ DropDone(c)
      BY <1>2, QuietAnswer, QuietStep DEF Fail, GetMissing, DeleteMissing, DropDone
<1>3. ASSUME NEW k \in Keys, NEW h \in Hashes, PutStart(c, k, h)
      PROVE  IInv'
      BY <1>3, QuietStep DEF PutStart, Invoke, Quiet, TypeOK, FinalSteps
<1>4. CASE PutCopied(c)
      BY <1>4, PutCopiedStep
<1>5. CASE PutStatHit(c) \/ PutStatMiss(c)
      BY <1>5, PutStatStep
<1>6. CASE PutRename(c)
      BY <1>6, PutRenameStep
<1>7. CASE PutPublish(c)
      BY <1>7, PutPublishStep
<1>8. ASSUME NEW k \in Keys, GetStart(c, k) \/ DeleteStart(c, k)
      PROVE  IInv'
      BY <1>8, QuietStep DEF GetStart, DeleteStart, Invoke, Quiet, TypeOK, FinalSteps
<1>9. CASE GetLookup(c) \/ DeleteFind(c)
      BY <1>9, QuietStep DEF GetLookup, DeleteFind, Quiet, TypeOK, FinalSteps
<1>10. CASE GetOpen(c)
      BY <1>10, QuietAnswer, QuietStep DEF GetOpen
<1>11. CASE DeleteUnlink(c)
  <2>1. \A k \in Keys :
           alias'[k] # NoHash /\ guarded'[k] => alias[k] = alias'[k] /\ guarded[k]
        BY <1>11 DEF DeleteUnlink, TypeOK
  <2>2. QED
        BY <1>11, <2>1, QuietAnswer, QuietStep DEF DeleteUnlink
<1>12. ASSUME NEW n \in Namespaces, DropStart(c, n)
      PROVE  IInv'
      BY <1>12, QuietStep DEF DropStart, Invoke, Quiet, TypeOK, FinalSteps
<1>13. ASSUME NEW k \in Keys, DropUnlink(c, k)
      PROVE  IInv'
      BY <1>13, QuietStep DEF DropUnlink, Quiet, TypeOK, FinalSteps
<1>14. QED
      BY <1>1, <1>2, <1>3, <1>4, <1>5, <1>6, <1>7, <1>8, <1>9, <1>10, <1>11, <1>12, <1>13
      DEF ClientNext

\* A collector that marks, skips or stops changes no blob and no alias.
LEMMA CollectorMarks ==
    ASSUME TypeOK, IInv, NEW g \in Collectors,
           \/ GCStart(g) \/ GCSweep(g) \/ GCEnd(g)
           \/ \E k \in Keys : GCVisit(g, k)
           \/ \E h \in Hashes : GCSkip(g, h) \/ GCInfo(g, h)
    PROVE  IInv'
<1> USE ConstantTypes DEF GCStart, GCSweep, GCEnd, GCVisit, GCSkip, GCInfo,
                          IInv, TypeOK, diskVars, clientVars
<1>1. UploadInTime' /\ BlobDated' /\ FreshIsYoung' /\ RacedBlobIsYoung' /\ GuardedAliasHasBlob'
      BY DEF UploadInTime, BlobDated, FreshIsYoung, RacedBlobIsYoung, GuardedAliasHasBlob
<1>2. CutoffPast'
      BY DEF CutoffPast
<1>3. VictimIsGarbage'
      BY DEF VictimIsGarbage, Keeps
<1>4. GuardedIsKept'
  <2>1. SUFFICES ASSUME NEW k \in Keys, alias[k] # NoHash, guarded[k], NEW f \in Collectors,
                        gpc'[f] # "idle"
                 PROVE  (gpc'[f] = "mark" /\ k \notin seen'[f]) \/ Keeps(f, alias[k])'
        BY DEF GuardedIsKept
  <2>2. CASE f # g
        BY <2>1, <2>2 DEF GuardedIsKept, Keeps
  <2>3. CASE f = g
    <3>1. CASE GCStart(g)
          BY <2>3, <3>1
    <3>2. CASE GCSweep(g)
          BY <2>1, <2>3, <3>2 DEF GuardedIsKept, Keeps
    <3>3. CASE GCEnd(g)
          BY <2>1, <2>3, <3>3
    <3>4. ASSUME NEW j \in Keys, GCVisit(g, j)
          PROVE  (gpc'[f] = "mark" /\ k \notin seen'[f]) \/ Keeps(f, alias[k])'
          BY <2>1, <2>3, <3>4 DEF GuardedIsKept, Keeps
    <3>5. ASSUME NEW h \in Hashes, GCSkip(g, h) \/ GCInfo(g, h)
          PROVE  (gpc'[f] = "mark" /\ k \notin seen'[f]) \/ Keeps(f, alias[k])'
          BY <2>1, <2>3, <3>5 DEF GuardedIsKept, Keeps
    <3>6. QED
          BY <3>1, <3>2, <3>3, <3>4, <3>5
  <2>4. QED
        BY <2>2, <2>3
<1>5. QED
      BY <1>1, <1>2, <1>3, <1>4

\* What the collector removes is old and unmarked, so nobody relies on it.
LEMMA CollectorRemoves ==
    ASSUME TypeOK, IInv, SingleCollector, NEW g \in Collectors, GCRemove(g)
    PROVE  IInv'
<1> USE ConstantTypes DEF GCRemove, IInv, TypeOK, clientVars
<1>1. /\ victim[g] \in blobs /\ victim[g] \in Hashes
      /\ victim[g] \notin marked[g] /\ mtime[victim[g]] <= cutoff[g]
      /\ cutoff[g] + Grace <= now
      BY DEF VictimIsGarbage, CutoffPast, Keeps
<1>2. UploadInTime' /\ BlobDated' /\ CutoffPast' /\ RacedBlobIsYoung'
      BY DEF UploadInTime, BlobDated, CutoffPast, RacedBlobIsYoung
<1>3. FreshIsYoung'
  <2>1. SUFFICES ASSUME NEW c \in Clients, pc[c] = "publish", fresh[c], hash[c] = victim[g]
                 PROVE  FALSE
        BY <1>1 DEF FreshIsYoung
  <2>2. mtime[victim[g]] + Grace > wrote[c] + MaxFinalize
        BY <2>1 DEF FreshIsYoung
  <2>3. now <= wrote[c] + MaxFinalize
        BY <2>1 DEF UploadInTime, FinalSteps
  <2>4. mtime[victim[g]] \in Nat /\ cutoff[g] \in Int /\ wrote[c] \in Nat
        BY <1>1, <2>1
  <2>5. QED
        BY <1>1, <2>2, <2>3, <2>4
<1>4. \A k \in Keys : alias[k] # NoHash /\ guarded[k] => alias[k] # victim[g]
      BY <1>1 DEF GuardedIsKept, Keeps
<1>5. GuardedAliasHasBlob'
      BY <1>4 DEF GuardedAliasHasBlob
<1>6. GuardedIsKept'
      BY <1>1, <1>4 DEF GuardedIsKept, Keeps
<1>7. VictimIsGarbage'
      BY DEF VictimIsGarbage, SingleCollector
<1>8. QED
      BY <1>2, <1>3, <1>5, <1>6, <1>7

LEMMA TickStep ==
    ASSUME TypeOK, IInv, Tick
    PROVE  IInv'
<1> USE ConstantTypes DEF Tick, IInv, TypeOK, diskVars, clientVars, gcVars
<1>1. UploadInTime' /\ BlobDated' /\ CutoffPast'
      BY DEF UploadInTime, BlobDated, CutoffPast, FinalSteps
<1>2. FreshIsYoung' /\ RacedBlobIsYoung' /\ GuardedAliasHasBlob'
      BY DEF FreshIsYoung, RacedBlobIsYoung, GuardedAliasHasBlob
<1>3. GuardedIsKept' /\ VictimIsGarbage'
      BY DEF GuardedIsKept, VictimIsGarbage, Keeps
<1>4. QED
      BY <1>1, <1>2, <1>3

LEMMA IInvStep ==
    ASSUME SingleCollector
    PROVE  TypeOK /\ IInv /\ [Next]_vars => IInv'
<1> SUFFICES ASSUME TypeOK, IInv, [Next]_vars
             PROVE  IInv'
    OBVIOUS
<1>1. ASSUME NEW c \in Clients, ClientNext(c)
      PROVE  IInv'
      BY <1>1, IInvClient
<1>2. ASSUME NEW g \in Collectors, CollectorNext(g)
      PROVE  IInv'
      BY <1>2, CollectorMarks, CollectorRemoves DEF CollectorNext
<1>3. CASE Crash
      BY <1>3, QuietStep DEF Crash, Quiet, FinalSteps, diskVars, gcVars
<1>4. CASE Tick
      BY <1>4, TickStep
<1>5. CASE UNCHANGED vars
      BY <1>5, QuietStep DEF vars, Quiet, diskVars, clientVars, gcVars
<1>6. QED
      BY <1>1, <1>2, <1>3, <1>4, <1>5 DEF Next

\* The invariant holds in every behaviour with a single collector.
THEOREM Inductive ==
    ASSUME SingleCollector
    PROVE  Spec => []IInv
<1>1. TypeOK /\ IInv /\ [Next]_vars => IInv'
      BY IInvStep
<1>2. QED
      BY <1>1, IInvInit, Typing, PTL DEF Spec

---------------------------------------------------------------------------
(* What the store guarantees beside one collector.                         *)

\* GC (store.go:252) never deletes a blob from under an object whose upload wrote
\* it, found it young enough, or published beside no collector that could take it.
THEOREM GuardedObjectsKeepTheirBlobs ==
    ASSUME SingleCollector
    PROVE  Spec => []GuardedAliasHasBlob
<1>1. IInv => GuardedAliasHasBlob
      BY DEF IInv
<1>2. QED
      BY <1>1, Inductive, PTL

\* The grace period covers an upload between blob and alias (store.go:376-406),
\* even when a slower upload of the same content back-dates the blob file.
THEOREM FreshUploadsKeepTheirBlobs ==
    ASSUME SingleCollector
    PROVE  Spec => []FreshUploadKeepsBlob
<1>1. IInv => FreshUploadKeepsBlob
      BY DEF IInv, FreshIsYoung, FreshUploadKeepsBlob
<1>2. QED
      BY <1>1, Inductive, PTL

\* A blob is a grace period old when os.Remove takes it (store.go:307-310), not
\* only when its modification time was read.
THEOREM OnlyAgedBlobsAreRemoved ==
    ASSUME SingleCollector
    PROVE  Spec => RemovesOnlyAged
<1>1. TypeOK /\ IInv /\ [Next]_vars => [\A h \in blobs \ blobs' : mtime[h] + Grace <= now]_vars
  <2>1. SUFFICES ASSUME TypeOK, IInv, [Next]_vars, NEW h \in blobs \ blobs'
                 PROVE  mtime[h] + Grace <= now
        OBVIOUS
  <2>2. PICK g \in Collectors : GCRemove(g)
    <3>1. h \in blobs /\ h \notin blobs'
          BY <2>1
    <3>2. ~(\E c \in Clients : ClientNext(c))
          BY <3>1 DEF ClientNext, Reply, Fail, Answer, Invoke, PutStart, PutCopied, PutStatHit,
             PutStatMiss, PutRename, PutPublish, GetStart, GetLookup, GetMissing, GetOpen,
             DeleteStart, DeleteFind, DeleteMissing, DeleteUnlink, DropStart, DropUnlink,
             DropDone, diskVars
    <3>3. \A g \in Collectors : CollectorNext(g) => GCRemove(g)
          BY <3>1 DEF CollectorNext, GCStart, GCVisit, GCSweep, GCSkip, GCInfo, GCEnd, diskVars
    <3>4. ~(Crash \/ Tick \/ UNCHANGED vars)
          BY <3>1 DEF Crash, Tick, vars, diskVars
    <3>5. QED
          BY <2>1, <3>2, <3>3, <3>4 DEF Next
  <2>3. h = victim[g] /\ gpc[g] = "remove" /\ h \in Hashes
        BY <2>1, <2>2 DEF GCRemove, TypeOK
  <2>4. mtime[h] <= cutoff[g] /\ cutoff[g] + Grace <= now
        BY <2>1, <2>3 DEF IInv, VictimIsGarbage, CutoffPast, Keeps, TypeOK
  <2>5. mtime[h] \in Nat /\ cutoff[g] \in Int /\ now \in Nat
        BY <2>1, <2>2, <2>3 DEF TypeOK
  <2>6. QED
        BY <2>4, <2>5, ConstantTypes
<1>2. QED
      BY <1>1, Typing, Inductive, PTL DEF Spec, RemovesOnlyAged

\* The answer to an open read comes from GetOpen alone.
LEMMA OpenReadAnswered ==
    ASSUME TypeOK, [Next]_vars, NEW c \in Clients,
           pc[c] = "open", pc'[c] = "reply", status'[c] = "notfound"
    PROVE  hash[c] \notin blobs
<1>1. PICK d \in Clients : ClientNext(d)
  <2>1. pc' # pc /\ pc'[c] # "idle"
        OBVIOUS
  <2>2. ASSUME NEW g \in Collectors, CollectorNext(g)
        PROVE  FALSE
        BY <2>1, <2>2 DEF CollectorNext, GCStart, GCVisit, GCSweep, GCSkip, GCInfo, GCRemove,
           GCEnd, clientVars
  <2>3. QED
        BY <2>1, <2>2 DEF Next, Crash, Tick, vars, clientVars
<1>2. c = d
      BY <1>1, SMTT(20) DEF ClientNext, Reply, Fail, Answer, Invoke, PutStart, PutCopied, PutStatHit,
         PutStatMiss, PutRename, PutPublish, GetStart, GetLookup, GetMissing, GetOpen,
         DeleteStart, DeleteFind, DeleteMissing, DeleteUnlink, DropStart, DropUnlink, DropDone,
         TypeOK
<1>3. GetOpen(c) \/ Fail(c)
      BY <1>1, <1>2, SMTT(20) DEF ClientNext, Reply, Invoke, PutStart, PutCopied, PutStatHit,
         PutStatMiss, PutRename, PutPublish, GetStart, GetLookup, GetMissing, DeleteStart,
         DeleteFind, DeleteMissing, DeleteUnlink, DropStart, DropUnlink, DropDone
<1>4. QED
      BY <1>3 DEF GetOpen, Fail, Answer, TypeOK

\* A GET that has read its alias and finds the blob gone (server.go:329-333) is about
\* an object that was overwritten or removed meanwhile, or that the grace period did
\* not cover: no other object turns into a 404 while the collector runs.
THEOREM ReadsOfStayingObjectsSucceed ==
    ASSUME SingleCollector
    PROVE  Spec => ReadsServeWhatStays
<1>1. TypeOK /\ IInv /\ [Next]_vars =>
         [\A c \in Clients :
             pc[c] = "open" /\ pc'[c] = "reply" /\ status'[c] = "notfound" =>
                 alias[key[c]] # hash[c] \/ ~guarded[key[c]]]_vars
  <2>1. SUFFICES ASSUME TypeOK, IInv, [Next]_vars, NEW c \in Clients,
                        pc[c] = "open", pc'[c] = "reply", status'[c] = "notfound"
                 PROVE  alias[key[c]] # hash[c] \/ ~guarded[key[c]]
        OBVIOUS
  <2>2. hash[c] \notin blobs
        BY <2>1, OpenReadAnswered
  <2>3. key[c] \in Keys /\ hash[c] \in Hashes
        BY <2>1 DEF TypeOK
  <2>4. QED
        BY <2>1, <2>2, <2>3, ConstantTypes DEF IInv, GuardedAliasHasBlob
<1>2. QED
      BY <1>1, Typing, Inductive, PTL DEF Spec, ReadsServeWhatStays
=============================================================================
