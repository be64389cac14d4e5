--------------------------- MODULE LiveWalksProofs ---------------------------
(***************************************************************************)
(* Proofs about LiveWalks, for every store and every number of clients.    *)
(* The walk changes nothing in the store, so what BlobStoreProofs shows of *)
(* the store holds beside it; the archive needs the guarded objects' blobs *)
(* from there, and with them that at most one collector runs.              *)
(***************************************************************************)
EXTENDS LiveWalks, BlobStoreProofs

\* A step of the walk leaves the store alone.
LEMMA WalkLeavesStore == Walk => UNCHANGED vars
BY DEF Walk, BackupStart, BackupAliases, WalkFails, WalkDone, WalkEnd, ListStart, ReadDir,
       BackupBlob, Skip, Visit, Vanished, Begin, Close

LEMMA StoreBesideWalk == [WalkNext]_allVars => [Next]_vars
BY WalkLeavesStore DEF WalkNext, StoreStep, allVars

\* The store is well formed beside a walk.
THEOREM StoreTyping == WalkSpec => []TypeOK
<1>1. WalkInit => TypeOK
      BY TypingInit DEF WalkInit
<1>2. TypeOK /\ [WalkNext]_allVars => TypeOK'
      BY StoreBesideWalk, TypingStep
<1>3. QED
      BY <1>1, <1>2, PTL DEF WalkSpec

\* With at most one collector, what the store's objects rest on holds beside a walk.
LEMMA StoreInductive == SingleCollector /\ WalkSpec => []IInv
<1> SUFFICES ASSUME SingleCollector
             PROVE  WalkSpec => []IInv
    OBVIOUS
<1>1. WalkInit => IInv
      BY IInvInit DEF WalkInit
<1>2. TypeOK /\ IInv /\ [WalkNext]_allVars => IInv'
      BY StoreBesideWalk, IInvStep
<1>3. QED
      BY <1>1, <1>2, StoreTyping, PTL DEF WalkSpec

---------------------------------------------------------------------------
(* Type correctness.  A walk that begins has nothing left of an earlier    *)
(* one: WalkIsConsistent goes along.                                       *)

LEMMA WalkTypingInit == WalkInit => WalkTypeOK /\ WalkIsConsistent
BY DEF WalkInit, WalkTypeOK, WalkIsConsistent

LEMMA WalkTypingStep ==
    TypeOK /\ WalkTypeOK /\ WalkIsConsistent /\ [WalkNext]_allVars
        => WalkTypeOK' /\ WalkIsConsistent'
<1> SUFFICES ASSUME TypeOK, WalkTypeOK, WalkIsConsistent, [WalkNext]_allVars
             PROVE  WalkTypeOK' /\ WalkIsConsistent'
    OBVIOUS
<1> USE DEF WalkTypeOK, WalkIsConsistent
<1>1. Objects \subseteq Keys
      BY DEF Objects
<1>2. ASSUME NEW n \in Namespaces, ListStart(n)
      PROVE  WalkTypeOK' /\ WalkIsConsistent'
      BY <1>1, <1>2 DEF ListStart, Begin
<1>3. CASE BackupStart
      BY <1>1, <1>3 DEF BackupStart, Begin
<1>4. ASSUME NEW h \in Hashes, BackupBlob(h)
      PROVE  WalkTypeOK' /\ WalkIsConsistent'
      BY <1>4 DEF BackupBlob
<1>5. ASSUME NEW n \in Namespaces, ReadDir(n)
      PROVE  WalkTypeOK' /\ WalkIsConsistent'
      BY <1>1, <1>5 DEF ReadDir
<1>6. ASSUME NEW k \in Keys, Skip(k) \/ Vanished(k)
      PROVE  WalkTypeOK' /\ WalkIsConsistent'
      BY <1>6 DEF Skip, Vanished, Close
<1>7. ASSUME NEW k \in Keys, Visit(k)
      PROVE  WalkTypeOK' /\ WalkIsConsistent'
  <2>1. alias[k] \in Hashes
        BY <1>7 DEF Visit, TypeOK
  <2>2. found' \subseteq Keys \X Hashes
        BY <1>7, <2>1 DEF Visit
  <2>3. QED
        BY <1>7, <2>2 DEF Visit
<1>8. CASE BackupAliases
      BY <1>8 DEF BackupAliases
<1>9. CASE WalkFails \/ WalkDone \/ WalkEnd
      BY <1>9 DEF WalkFails, WalkDone, WalkEnd, Close
<1>10. CASE StoreStep
  <2>1. stayed' \subseteq Keys /\ touched' \subseteq Keys
        BY <1>10 DEF StoreStep
  <2>2. QED
        BY <1>10, <2>1 DEF StoreStep
<1>11. CASE UNCHANGED allVars
      BY <1>11 DEF allVars, walkVars
<1>12. QED
      BY <1>2, <1>3, <1>4, <1>5, <1>6, <1>7, <1>8, <1>9, <1>10, <1>11 DEF WalkNext, Walk

\* A walk only has files and directories of its scope before it, and an archive or
\* a listing names no object without a hash, whatever the store does beside it.
THEOREM WalkTyping == WalkSpec => [](WalkTypeOK /\ WalkIsConsistent)
BY WalkTypingInit, WalkTypingStep, StoreTyping, PTL DEF WalkSpec

---------------------------------------------------------------------------
(* What a walk reports                                                     *)

\* An object that stays is not passed over by any step of the walk.
LEMMA StayedStep ==
    ASSUME TypeOK, WalkTypeOK, WalkIsConsistent, StayedIsAhead, [WalkNext]_allVars
    PROVE  StayedIsAhead'
<1> USE DEF WalkTypeOK, WalkIsConsistent, StayedIsAhead, Reportable
<1>1. CASE Walk
  <2> Objects' = Objects
      BY <1>1, WalkLeavesStore DEF Objects, vars, diskVars
  <2>1. ASSUME NEW n \in Namespaces, ListStart(n)
        PROVE  StayedIsAhead'
        BY <2>1 DEF ListStart, Begin
  <2>2. CASE BackupStart
        BY <2>2 DEF BackupStart, Begin
  <2>3. ASSUME NEW h \in Hashes, BackupBlob(h)
        PROVE  StayedIsAhead'
        BY <2>3 DEF BackupBlob
  <2>4. CASE BackupAliases
        BY <2>4 DEF BackupAliases
  <2>5. ASSUME NEW n \in Namespaces, ReadDir(n)
        PROVE  StayedIsAhead'
        BY <2>5 DEF ReadDir
  <2>6. ASSUME NEW k \in Keys, Skip(k)
        PROVE  StayedIsAhead'
        BY <2>6 DEF Skip
  <2>7. ASSUME NEW k \in Keys, Visit(k)
        PROVE  StayedIsAhead'
    <3>1. alias[k] \in Hashes
          BY <2>7 DEF Visit, TypeOK
    <3>2. QED
          BY <2>7, <3>1 DEF Visit
  <2>8. ASSUME NEW k \in Keys, Vanished(k)
        PROVE  StayedIsAhead'
        BY <2>8 DEF Vanished, Close
  <2>9. CASE WalkFails \/ WalkDone \/ WalkEnd
        BY <2>9 DEF WalkFails, WalkDone, WalkEnd, Close
  <2>10. QED
        BY <1>1, <2>1, <2>2, <2>3, <2>4, <2>5, <2>6, <2>7, <2>8, <2>9 DEF Walk
<1>2. CASE StoreStep
  <2>1. stayed' \subseteq stayed /\ (wpc # "idle" => stayed' \subseteq Objects')
        BY <1>2 DEF StoreStep, Objects
  <2>2. QED
        BY <1>2, <2>1 DEF StoreStep
<1>3. CASE UNCHANGED allVars
      BY <1>3 DEF allVars, walkVars, vars, diskVars, Objects
<1>4. QED
      BY <1>1, <1>2, <1>3 DEF WalkNext

\* At the end nothing is ahead of the walk any more.
LEMMA AheadOfNothing == WalkIsConsistent /\ StayedIsAhead => NothingStayedIsMissed
BY DEF WalkIsConsistent, StayedIsAhead, NothingStayedIsMissed

\* A listing or a backup that comes to its end without an error has reported every
\* object that was there all the time: whatever requests, crashes and collections
\* go on beside it, with any number of collectors (WalkObjects, store.go:200-235,
\* and tarAddTree, main.go:247-294, stop at a file that is gone, and skip none).
THEOREM StayedObjectsAreReported == WalkSpec => []NothingStayedIsMissed
<1>1. WalkInit => StayedIsAhead
      BY DEF WalkInit, StayedIsAhead
<1>2. TypeOK /\ WalkTypeOK /\ WalkIsConsistent /\ StayedIsAhead /\ [WalkNext]_allVars
          => StayedIsAhead'
      BY StayedStep
<1>3. QED
      BY <1>1, <1>2, AheadOfNothing, StoreTyping, WalkTyping, PTL DEF WalkSpec

---------------------------------------------------------------------------
(* What an archive holds                                                   *)

\* The blobs pass before the aliases, and stay as long as nobody touches the object.
LEMMA KeptStep ==
    ASSUME TypeOK, GuardedAliasHasBlob, WalkTypeOK, WalkIsConsistent, UntouchedIsKept,
           [WalkNext]_allVars
    PROVE  UntouchedIsKept'
<1> USE DEF WalkTypeOK, WalkIsConsistent, UntouchedIsKept
<1>1. CASE Walk
  <2> UNCHANGED <<Objects, alias, guarded>>
      BY <1>1, WalkLeavesStore DEF Objects, vars, diskVars
  <2>a. \A k \in Objects : k \in Keys /\ alias[k] \in Hashes
        BY DEF Objects, TypeOK
  <2>1. ASSUME NEW n \in Namespaces, ListStart(n)
        PROVE  UntouchedIsKept'
        BY <2>1 DEF ListStart, Begin
  <2>2. CASE BackupStart
        BY <2>2, <2>a DEF BackupStart, Begin
  <2>3. ASSUME NEW h \in Hashes, BackupBlob(h)
        PROVE  UntouchedIsKept'
    <3>1. \A k \in Objects : guarded[k] => alias[k] \in blobs
          BY <2>a DEF GuardedAliasHasBlob, Objects
    <3>2. QED
          BY <2>3, <3>1 DEF BackupBlob
  <2>4. CASE BackupAliases
        BY <2>4 DEF BackupAliases
  <2>5. ASSUME NEW n \in Namespaces, ReadDir(n)
        PROVE  UntouchedIsKept'
        BY <2>5 DEF ReadDir
  <2>6. ASSUME NEW k \in Keys, Skip(k) \/ Visit(k)
        PROVE  UntouchedIsKept'
        BY <2>6 DEF Skip, Visit
  <2>7. ASSUME NEW k \in Keys, Vanished(k)
        PROVE  UntouchedIsKept'
        BY <2>7 DEF Vanished, Close
  <2>8. CASE WalkFails \/ WalkDone \/ WalkEnd
        BY <2>8 DEF WalkFails, WalkDone, WalkEnd, Close
  <2>9. QED
        BY <1>1, <2>1, <2>2, <2>3, <2>4, <2>5, <2>6, <2>7, <2>8 DEF Walk
<1>2. CASE StoreStep
  <2>1. CASE wpc = "idle"
        BY <1>2, <2>1 DEF StoreStep
  <2>2. CASE wpc # "idle"
    <3>1. ASSUME NEW k \in Objects' \ touched', guarded'[k]
          PROVE  k \in Objects \ touched /\ guarded[k] /\ alias'[k] = alias[k]
          BY <1>2, <2>2, <3>1 DEF StoreStep, Objects
    <3>2. QED
          BY <1>2, <3>1 DEF StoreStep
  <2>3. QED
        BY <2>1, <2>2
<1>3. CASE UNCHANGED allVars
      BY <1>3 DEF allVars, walkVars, vars, diskVars, Objects
<1>4. QED
      BY <1>1, <1>2, <1>3 DEF WalkNext

\* An alias is archived with its blob, unless it was touched meanwhile.
LEMMA ClosedStep ==
    ASSUME TypeOK, WalkTypeOK, WalkIsConsistent, UntouchedIsKept, ArchiveIsClosed,
           [WalkNext]_allVars
    PROVE  ArchiveIsClosed'
<1> USE DEF WalkTypeOK, WalkIsConsistent, ArchiveIsClosed
<1>1. CASE Walk
  <2> UNCHANGED <<alias, guarded>>
      BY <1>1, WalkLeavesStore DEF vars, diskVars
  <2>1. ASSUME NEW k \in Keys, Visit(k)
        PROVE  ArchiveIsClosed'
    <3>1. job = "backup" => alias[k] \in kept \/ k \in touched \/ ~guarded[k]
          BY <2>1 DEF Visit, UntouchedIsKept, Objects
    <3>2. QED
          BY <2>1, <3>1 DEF Visit
  <2>2. ASSUME NEW n \in Namespaces, ListStart(n) \/ ReadDir(n)
        PROVE  ArchiveIsClosed'
        BY <2>2 DEF ListStart, ReadDir, Begin
  <2>3. ASSUME NEW h \in Hashes, BackupBlob(h)
        PROVE  ArchiveIsClosed'
        BY <2>3 DEF BackupBlob
  <2>4. ASSUME NEW k \in Keys, Skip(k) \/ Vanished(k)
        PROVE  ArchiveIsClosed'
        BY <2>4 DEF Skip, Vanished, Close
  <2>5. CASE BackupStart \/ BackupAliases
        BY <2>5 DEF BackupStart, BackupAliases, Begin
  <2>6. CASE WalkFails \/ WalkDone \/ WalkEnd
        BY <2>6 DEF WalkFails, WalkDone, WalkEnd, Close
  <2>7. QED
        BY <1>1, <2>1, <2>2, <2>3, <2>4, <2>5, <2>6 DEF Walk
<1>2. CASE StoreStep
  <2>1. ASSUME NEW p \in found, p[1] \notin touched', guarded'[p[1]]
        PROVE  p[1] \notin touched /\ guarded[p[1]]
    <3>1. wpc # "idle" /\ p[1] \in Keys
          OBVIOUS
    <3>2. QED
          BY <1>2, <2>1, <3>1 DEF StoreStep
  <2>2. QED
        BY <1>2, <2>1 DEF StoreStep
<1>3. CASE UNCHANGED allVars
      BY <1>3 DEF allVars, walkVars, vars, diskVars
<1>4. QED
      BY <1>1, <1>2, <1>3 DEF WalkNext

\* The whole invariant of the run, for a store with at most one collector.
THEOREM WalkInductive == SingleCollector /\ WalkSpec => []WalkInv
<1> SUFFICES ASSUME SingleCollector
             PROVE  WalkSpec => []WalkInv
    OBVIOUS
<1>1. WalkInit => StayedIsAhead /\ UntouchedIsKept /\ ArchiveIsClosed
      BY DEF WalkInit, StayedIsAhead, UntouchedIsKept, ArchiveIsClosed
<1>2. TypeOK /\ IInv /\ WalkTypeOK /\ WalkIsConsistent
      /\ StayedIsAhead /\ UntouchedIsKept /\ ArchiveIsClosed /\ [WalkNext]_allVars
          => (StayedIsAhead /\ UntouchedIsKept /\ ArchiveIsClosed)'
      BY StayedStep, KeptStep, ClosedStep DEF IInv
<1>3. WalkIsConsistent /\ StayedIsAhead /\ UntouchedIsKept /\ ArchiveIsClosed => WalkInv
      BY AheadOfNothing DEF WalkInv
<1>4. QED
      BY <1>1, <1>2, <1>3, StoreTyping, StoreInductive, WalkTyping, PTL DEF WalkSpec

\* The archive a backup of a running server makes is closed but for the objects that
\* were written or removed while it ran: an alias nobody touched has its blob in the
\* archive, although the blobs were archived before the aliases and without a lock.
THEOREM ArchivesAreClosed == SingleCollector /\ WalkSpec => []ArchiveIsClosed
<1>1. WalkInv => ArchiveIsClosed
      BY DEF WalkInv
<1>2. QED
      BY <1>1, WalkInductive, PTL
=============================================================================
