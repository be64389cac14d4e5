---------------------------- MODULE DataDirProofs ----------------------------
(***************************************************************************)
(* Proofs about DataDir, for every archive, any number of files and        *)
(* requests, and any number of kills, power losses and restorations.       *)
(***************************************************************************)
EXTENDS DataDir, TLAPS

\* The files as the provers need them.
LEMMA FileTypes ==
    /\ Controls \subseteq Files /\ Hashes \subseteq Files /\ Keys \subseteq Files
    /\ None \notin Files /\ Torn \notin Files /\ None # Torn
    /\ \A f \in Files : Whole(f) \subseteq Files
    /\ \A f \in Hashes \cup Controls : Whole(f) = {f}
    /\ \A k \in Keys : Whole(k) = Hashes
    /\ Archived \subseteq Files
    /\ \A f \in Archived : Archive[f] \in Whole(f)
BY FilesAssumption, ArchiveAssumption DEF Files, Whole, Archived

---------------------------------------------------------------------------
(* Type correctness                                                        *)

\* The part of TypeOK about the files.
FilesTyped ==
    /\ file \in [Files -> Files \cup {None, Torn}]
    /\ durable \in [Files -> SUBSET (Files \cup {None, Torn})]
    /\ \A f \in Files : durable[f] \subseteq Whole(f) \cup {None, Torn} /\ file[f] \in durable[f]

LEMMA TypingInit == Init => TypeOK
BY FileTypes DEF Init, TypeOK

\* One file gets a content, and what a power loss may leave of it grows by that.
LEMMA TypedWrite ==
    ASSUME TypeOK, NEW f \in Files, NEW v \in Whole(f) \cup {None, Torn},
           file' = [file EXCEPT ![f] = v],
           durable' = [durable EXCEPT ![f] = @ \cup {v}]
    PROVE  FilesTyped'
BY FileTypes DEF TypeOK, FilesTyped

\* The files stay, and less may be left of one of them.
LEMMA TypedSync ==
    ASSUME TypeOK, NEW f \in Files, NEW s,
           s \in {durable[f], {file[f]}, {file[f], None}},
           UNCHANGED file, durable' = [durable EXCEPT ![f] = s]
    PROVE  FilesTyped'
BY FileTypes DEF TypeOK, FilesTyped

LEMMA TypingServer ==
    ASSUME TypeOK, NEW c \in Clients,
           PutInstall(c) \/ PutSync(c) \/ PutPublish(c) \/ PutAck(c) \/ PutFails(c)
    PROVE  TypeOK'
<1> USE FileTypes
<1>1. CASE PutInstall(c)
  <2>1. hash[c] \in Hashes /\ hash[c] \in Whole(hash[c])
        BY <1>1 DEF PutInstall, TypeOK
  <2>2. FilesTyped'
        BY <1>1, <2>1, TypedWrite DEF PutInstall, Replace
  <2>3. QED
        BY <1>1, <2>1, <2>2 DEF PutInstall, Replace, Overtaken, TypeOK, FilesTyped
<1>2. CASE PutSync(c)
  <2>1. hash[c] \in Hashes
        BY <1>2 DEF PutSync, TypeOK
  <2>2. FilesTyped'
        BY <1>2, <2>1, TypedSync DEF PutSync, AfterSync
  <2>3. QED
        BY <1>2, <2>1, <2>2 DEF PutSync, TypeOK, FilesTyped, restoreVars
<1>3. CASE PutPublish(c)
  <2>1. key[c] \in Keys /\ hash[c] \in Whole(key[c])
        BY <1>3 DEF PutPublish, TypeOK
  <2>2. FilesTyped'
        BY <1>3, <2>1, TypedWrite DEF PutPublish, Replace
  <2>3. QED
        BY <1>3, <2>1, <2>2 DEF PutPublish, Replace, Overtaken, TypeOK, FilesTyped
<1>4. CASE PutAck(c)
  <2>1. key[c] \in Keys
        BY <1>4 DEF PutAck, TypeOK
  <2>2. FilesTyped'
        BY <1>4, <2>1, TypedSync DEF PutAck, AfterSync
  <2>3. QED
        BY <1>4, <2>1, <2>2 DEF PutAck, Leave, TypeOK, FilesTyped, restoreVars
<1>5. CASE PutFails(c)
      BY <1>5 DEF PutFails, Leave, TypeOK, fileVars, restoreVars
<1>6. QED
      BY <1>1, <1>2, <1>3, <1>4, <1>5

LEMMA TypingRestore ==
    ASSUME TypeOK, Restore
    PROVE  TypeOK'
<1> USE FileTypes
<1>1. CASE RestoreStart
      BY <1>1 DEF RestoreStart, TypeOK, fileVars, clientVars
<1>2. ASSUME NEW f \in Files, RestoreOpen(f)
      PROVE  TypeOK'
  <2>1. FilesTyped'
        BY <1>2, TypedWrite DEF RestoreOpen
  <2>2. QED
        BY <1>2, <2>1 DEF RestoreOpen, NextEntry, TypeOK, FilesTyped, clientVars
<1>3. CASE RestoreCopy
  <2>1. open \in Archived /\ Archive[open] \in Whole(open)
        BY <1>3 DEF RestoreCopy, TypeOK
  <2>2. FilesTyped'
        BY <1>3, <2>1, TypedWrite DEF RestoreCopy
  <2>3. exposed' \subseteq Hashes
        BY <1>3, <2>1 DEF RestoreCopy, TypeOK
  <2>4. QED
        BY <1>3, <2>1, <2>2, <2>3 DEF RestoreCopy, Written, TypeOK, FilesTyped, clientVars
<1>4. CASE RestoreCopyLost
      BY <1>4 DEF RestoreCopyLost, Written, TypeOK, fileVars, clientVars
<1>5. ASSUME NEW f \in Files, RestoreControl(f)
      PROVE  TypeOK'
  <2>1. f \in Archived
        BY <1>5 DEF RestoreControl, NextEntry, TypeOK
  <2>2. FilesTyped'
        BY <1>5, <2>1, TypedWrite DEF RestoreControl, Replace
  <2>3. QED
        BY <1>5, <2>2 DEF RestoreControl, Replace, NextEntry, TypeOK, FilesTyped, clientVars
<1>6. CASE RestoreControlSync
  <2>1. open \in Files
        BY <1>6 DEF RestoreControlSync, TypeOK
  <2>2. FilesTyped'
        BY <1>6, <2>1, TypedSync DEF RestoreControlSync, AfterSync
  <2>3. QED
        BY <1>6, <2>2 DEF RestoreControlSync, Written, TypeOK, FilesTyped, clientVars
<1>7. CASE RestoreDone \/ RestoreCut
      BY <1>7 DEF RestoreDone, RestoreCut, RestoreEnd, TypeOK, fileVars, clientVars
<1>8. QED
      BY <1>1, <1>2, <1>3, <1>4, <1>5, <1>6, <1>7 DEF Restore

LEMMA TypingStep == TypeOK /\ [Next]_vars => TypeOK'
<1> SUFFICES ASSUME TypeOK, [Next]_vars
             PROVE  TypeOK'
    OBVIOUS
<1> USE FileTypes
<1>1. ASSUME NEW c \in Clients, NEW k \in Keys, NEW h \in Hashes,
             PutHit(c, k, h) \/ PutMiss(c, k, h)
      PROVE  TypeOK'
      BY <1>1 DEF PutHit, PutMiss, Put, TypeOK, fileVars, restoreVars
<1>2. ASSUME NEW c \in Clients,
             PutInstall(c) \/ PutSync(c) \/ PutPublish(c) \/ PutAck(c) \/ PutFails(c)
      PROVE  TypeOK'
      BY <1>2, TypingServer
<1>3. ASSUME NEW k \in Keys, Delete(k)
      PROVE  TypeOK'
  <2>1. PICK s \in {{None}, durable[k] \cup {None}} : durable' = [durable EXCEPT ![k] = s]
        BY <1>3 DEF Delete
  <2>2. FilesTyped'
        BY <1>3, <2>1 DEF Delete, TypeOK, FilesTyped
  <2>3. QED
        BY <1>3, <2>2 DEF Delete, Overtaken, TypeOK, FilesTyped, clientVars
<1>4. CASE Restore
      BY <1>4, TypingRestore
<1>5. ASSUME NEW h \in Hashes, Collect(h)
      PROVE  TypeOK'
  <2>1. FilesTyped'
        BY <1>5, TypedWrite DEF Collect, Replace
  <2>2. QED
        BY <1>5, <2>1 DEF Collect, Replace, Overtaken, TypeOK, FilesTyped, clientVars
<1>6. ASSUME NEW f \in Files, Flush(f)
      PROVE  TypeOK'
  <2>1. FilesTyped'
        BY <1>6, TypedSync DEF Flush
  <2>2. QED
        BY <1>6, <2>1 DEF Flush, TypeOK, FilesTyped, clientVars, restoreVars
<1>7. CASE PowerLoss
  <2>1. PICK after \in [Files -> Files \cup {None, Torn}] :
           /\ \A f \in Files : after[f] \in durable[f]
           /\ file' = after
           /\ durable' = [f \in Files |-> {after[f]}]
           /\ rooted' = rooted \cup {f \in Files : after[f] # None}
           /\ exposed' = {h \in exposed : after[h] # h}
        BY <1>7 DEF PowerLoss
  <2>2. durable' \in [Files -> SUBSET (Files \cup {None, Torn})]
        BY <2>1
  <2>3. \A g \in Files : durable'[g] \subseteq Whole(g) \cup {None, Torn}
                         /\ file'[g] \in durable'[g]
        BY <2>1 DEF TypeOK
  <2>4. QED
        BY <1>7, <2>1, <2>2, <2>3 DEF PowerLoss, TypeOK
<1>8. CASE UNCHANGED vars
      BY <1>8 DEF vars, fileVars, clientVars, restoreVars, TypeOK
<1>9. QED
      BY <1>1, <1>2, <1>3, <1>4, <1>5, <1>6, <1>7, <1>8 DEF Next, Server

\* The files and the processes are well formed; what is there is always among what
\* a power loss may leave.
THEOREM Typing == Spec => []TypeOK
BY TypingInit, TypingStep, PTL DEF Spec
---------------------------------------------------------------------------
(* What restore tears, and what it has put in place                        *)

\* The part of the invariant about restore.
RestoreInv == TornOnDisk /\ TornIsRepaired /\ WrittenIsThere /\ OpenIsTorn /\ RestoredMeansComplete

\* A file gets a whole content or goes, by the server or gc.
LEMMA ReplaceKeeps ==
    ASSUME TypeOK, RestoreInv, NEW f \in Hashes \cup Keys, NEW v \in Whole(f) \cup {None},
           file' = [file EXCEPT ![f] = v],
           durable' \in [Files -> SUBSET (Files \cup {None, Torn})],
           \A g \in Files : durable'[g] \subseteq durable[g] \cup {v, None},
           Overtaken(f)
    PROVE  RestoreInv'
<1> USE FileTypes DEF RestoreInv
<1>1. f \in Files \ Controls /\ v # Torn
      BY FilesAssumption
<1>2. \A g \in Files : file'[g] = IF g = f THEN v ELSE file[g]
      BY <1>1 DEF TypeOK
<1>3. /\ rpc' = "idle" <=> rpc = "idle"
      /\ rpc' = "copy" => rpc = "copy"
      /\ rpc' = "sync" <=> rpc = "sync"
      /\ rpc' = "lost" => rpc = "lost" \/ open = f
      /\ mine' = mine \cup {f} /\ todo' = todo /\ open' = open /\ outcome' = outcome
      BY DEF Overtaken
<1>4. TornOnDisk'
      BY <1>1, <1>3 DEF TornOnDisk
<1>5. TornIsRepaired'
      BY <1>1, <1>2, <1>3 DEF TornIsRepaired
<1>6. WrittenIsThere'
      BY <1>2, <1>3 DEF WrittenIsThere
<1>7. OpenIsTorn'
      BY <1>1, <1>2, <1>3 DEF OpenIsTorn, TypeOK
<1>8. RestoredMeansComplete'
      BY <1>1, <1>2, <1>3 DEF RestoredMeansComplete
<1>9. QED
      BY <1>4, <1>5, <1>6, <1>7, <1>8

\* No file changes, and no new content may be left of one.
LEMMA SyncKeeps ==
    ASSUME TypeOK, RestoreInv, UNCHANGED <<file, restoreVars, mine>>,
           \A g \in Files : durable'[g] \subseteq durable[g] \cup {None}
    PROVE  RestoreInv'
<1> USE DEF RestoreInv, restoreVars
<1>1. TornOnDisk'
      BY FileTypes DEF TornOnDisk
<1>2. TornIsRepaired' /\ WrittenIsThere' /\ OpenIsTorn' /\ RestoredMeansComplete'
      BY DEF TornIsRepaired, WrittenIsThere, OpenIsTorn, RestoredMeansComplete
<1>3. QED
      BY <1>1, <1>2

LEMMA RestoreInvServer ==
    ASSUME TypeOK, RestoreInv, NEW c \in Clients,
           PutInstall(c) \/ PutSync(c) \/ PutPublish(c) \/ PutAck(c) \/ PutFails(c)
    PROVE  RestoreInv'
<1> USE FileTypes
<1>1. CASE PutInstall(c)
  <2>1. hash[c] \in Hashes
        BY <1>1 DEF PutInstall, TypeOK
  <2>2. durable' \in [Files -> SUBSET (Files \cup {None, Torn})]
        /\ \A g \in Files : durable'[g] \subseteq durable[g] \cup {hash[c], None}
        BY <1>1, <2>1 DEF PutInstall, Replace, TypeOK
  <2>3. QED
        BY <1>1, <2>1, <2>2, ReplaceKeeps DEF PutInstall, Replace
<1>2. CASE PutPublish(c)
  <2>1. key[c] \in Keys /\ hash[c] \in Hashes /\ hash[c] \in Whole(key[c])
        BY <1>2 DEF PutPublish, TypeOK
  <2>2. durable' \in [Files -> SUBSET (Files \cup {None, Torn})]
        /\ \A g \in Files : durable'[g] \subseteq durable[g] \cup {hash[c], None}
        BY <1>2, <2>1 DEF PutPublish, Replace, TypeOK
  <2>3. QED
        BY <1>2, <2>1, <2>2, ReplaceKeeps DEF PutPublish, Replace
<1>3. CASE PutSync(c)
  <2>1. \A g \in Files : durable'[g] \subseteq durable[g] \cup {None}
        BY <1>3 DEF PutSync, AfterSync, TypeOK
  <2>2. QED
        BY <1>3, <2>1, SyncKeeps DEF PutSync
<1>4. CASE PutAck(c)
  <2>1. \A g \in Files : durable'[g] \subseteq durable[g] \cup {None}
        BY <1>4 DEF PutAck, AfterSync, TypeOK
  <2>2. QED
        BY <1>4, <2>1, SyncKeeps DEF PutAck
<1>5. CASE PutFails(c)
      BY <1>5, SyncKeeps DEF PutFails, fileVars
<1>6. QED
      BY <1>1, <1>2, <1>3, <1>4, <1>5

LEMMA RestoreInvRestore ==
    ASSUME TypeOK, RestoreInv, Restore
    PROVE  RestoreInv'
<1> USE DEF RestoreInv
<1>1. CASE RestoreStart
      BY <1>1, FileTypes
      DEF RestoreStart, fileVars,
          TornOnDisk, TornIsRepaired, WrittenIsThere, OpenIsTorn, RestoredMeansComplete
<1>2. ASSUME NEW f \in Files, RestoreOpen(f)
      PROVE  RestoreInv'
  <2>1. f \in Archived \ Controls /\ f \in todo
        BY <1>2, FileTypes DEF RestoreOpen, NextEntry, TypeOK
  <2>2. \A g \in Files : /\ file'[g] = IF g = f THEN Torn ELSE file[g]
                         /\ g # f => durable'[g] = durable[g]
        BY <1>2 DEF RestoreOpen, TypeOK
  <2>3. QED
        BY <1>2, <2>1, <2>2, FileTypes
        DEF RestoreOpen,
            TornOnDisk, TornIsRepaired, WrittenIsThere, OpenIsTorn, RestoredMeansComplete
<1>3. CASE RestoreCopy
  <2>1. open \in Archived /\ Archive[open] # Torn
        BY <1>3, FileTypes DEF RestoreCopy, TypeOK
  <2>2. \A g \in Files : /\ file'[g] = IF g = open THEN Archive[g] ELSE file[g]
                         /\ Torn \in durable'[g] => Torn \in durable[g]
        BY <1>3, <2>1, FileTypes DEF RestoreCopy, TypeOK
  <2>3. /\ rpc = "copy" /\ rpc' = "next" /\ todo' = todo \ {open}
        /\ UNCHANGED <<outcome, mine>>
        BY <1>3 DEF RestoreCopy, Written
  <2>4. TornOnDisk'
        BY <2>2, <2>3 DEF TornOnDisk
  <2>5. TornIsRepaired'
        BY <2>1, <2>2, <2>3 DEF TornIsRepaired
  <2>6. WrittenIsThere'
        BY <2>2, <2>3 DEF WrittenIsThere, Archived
  <2>7. QED
        BY <2>3, <2>4, <2>5, <2>6 DEF OpenIsTorn, RestoredMeansComplete
<1>4. CASE RestoreCopyLost
      BY <1>4, FileTypes
      DEF RestoreCopyLost, Written, fileVars,
          TornOnDisk, TornIsRepaired, WrittenIsThere, OpenIsTorn, RestoredMeansComplete
<1>5. ASSUME NEW f \in Files, RestoreControl(f)
      PROVE  RestoreInv'
  <2>1. f \in Archived /\ f \in todo /\ Archive[f] # Torn
        BY <1>5, FileTypes DEF RestoreControl, NextEntry, TypeOK
  <2>2. \A g \in Files : /\ file'[g] = IF g = f THEN Archive[g] ELSE file[g]
                         /\ Torn \in durable'[g] => Torn \in durable[g]
        BY <1>5, <2>1, FileTypes DEF RestoreControl, Replace, TypeOK
  <2>3. /\ f \in Controls /\ rpc = "next" /\ rpc' = "sync" /\ open' = f
        /\ UNCHANGED <<todo, outcome, mine>>
        BY <1>5 DEF RestoreControl
  <2>4. TornOnDisk'
        BY <2>2, <2>3 DEF TornOnDisk
  <2>5. TornIsRepaired'
        BY <2>1, <2>2, <2>3 DEF TornIsRepaired
  <2>6. WrittenIsThere'
        BY <2>1, <2>2, <2>3 DEF WrittenIsThere, Archived
  <2>7. OpenIsTorn'
        BY <2>1, <2>2, <2>3, FileTypes DEF OpenIsTorn
  <2>8. QED
        BY <2>3, <2>4, <2>5, <2>6, <2>7 DEF RestoredMeansComplete
<1>6. CASE RestoreControlSync
  <2>1. \A g \in Files : durable'[g] \subseteq durable[g] \cup {None}
        BY <1>6, FileTypes DEF RestoreControlSync, AfterSync, TypeOK
  <2>2. QED
        BY <1>6, <2>1, FileTypes
        DEF RestoreControlSync, Written,
            TornOnDisk, TornIsRepaired, WrittenIsThere, OpenIsTorn, RestoredMeansComplete
<1>7. CASE RestoreDone \/ RestoreCut
      BY <1>7, FileTypes
      DEF RestoreDone, RestoreCut, RestoreEnd, fileVars,
          TornOnDisk, TornIsRepaired, WrittenIsThere, OpenIsTorn, RestoredMeansComplete
<1>8. QED
      BY <1>1, <1>2, <1>3, <1>4, <1>5, <1>6, <1>7 DEF Restore

LEMMA RestoreInvStep ==
    ASSUME TypeOK, RestoreInv, [Next]_vars
    PROVE  RestoreInv'
<1> USE FileTypes
<1>1. ASSUME NEW c \in Clients, NEW k \in Keys, NEW h \in Hashes,
             PutHit(c, k, h) \/ PutMiss(c, k, h)
      PROVE  RestoreInv'
      BY <1>1, SyncKeeps DEF PutHit, PutMiss, fileVars
<1>2. ASSUME NEW c \in Clients,
             PutInstall(c) \/ PutSync(c) \/ PutPublish(c) \/ PutAck(c) \/ PutFails(c)
      PROVE  RestoreInv'
      BY <1>2, RestoreInvServer
<1>3. ASSUME NEW k \in Keys, Delete(k)
      PROVE  RestoreInv'
  <2>1. durable' \in [Files -> SUBSET (Files \cup {None, Torn})]
        /\ \A g \in Files : durable'[g] \subseteq durable[g] \cup {None}
        BY <1>3 DEF Delete, TypeOK
  <2>2. QED
        BY <1>3, <2>1, ReplaceKeeps DEF Delete
<1>4. CASE Restore
      BY <1>4, RestoreInvRestore
<1>5. ASSUME NEW h \in Hashes, Collect(h)
      PROVE  RestoreInv'
  <2>1. durable' \in [Files -> SUBSET (Files \cup {None, Torn})]
        /\ \A g \in Files : durable'[g] \subseteq durable[g] \cup {None}
        BY <1>5 DEF Collect, Replace, TypeOK
  <2>2. QED
        BY <1>5, <2>1, ReplaceKeeps DEF Collect, Replace
<1>6. ASSUME NEW f \in Files, Flush(f)
      PROVE  RestoreInv'
  <2>1. \A g \in Files : durable'[g] \subseteq durable[g]
        BY <1>6 DEF Flush, TypeOK
  <2>2. QED
        BY <1>6, <2>1, SyncKeeps DEF Flush
<1>7. CASE PowerLoss
  <2>1. \A f \in Files : file'[f] \in durable[f] /\ durable'[f] = {file'[f]}
        BY <1>7 DEF PowerLoss
  <2>2. /\ rpc' = "idle" /\ outcome' # "restored"
        /\ outcome' = "none" => rpc = "idle" /\ outcome = "none"
        /\ outcome' \in {"none", "cut"}
        BY <1>7 DEF PowerLoss
  <2>3. TornOnDisk' /\ TornIsRepaired'
        BY <2>1, <2>2 DEF RestoreInv, TornOnDisk, TornIsRepaired
  <2>4. QED
        BY <2>2, <2>3 DEF RestoreInv, WrittenIsThere, OpenIsTorn, RestoredMeansComplete
<1>8. CASE UNCHANGED vars
      BY <1>8, SyncKeeps DEF vars, fileVars
<1>9. QED
      BY <1>1, <1>2, <1>3, <1>4, <1>5, <1>6, <1>7, <1>8 DEF Next, Server

---------------------------------------------------------------------------
(* Aliases and their blobs                                                 *)

SafeInv == AliasOutlivesNoBlob /\ PublishedIsSafe

\* The blob of h is there after every power loss, or h is known to be exposed.
Safe(h) == Settled(h) \/ h \in exposed
SafeAfter(h) == durable'[h] = {h} \/ h \in exposed'

\* What was safe stays so, and aliases and uploads only come to what is safe.
LEMMA SafeKeeps ==
    ASSUME TypeOK, TypeOK', SafeInv,
           \A h \in Hashes : Safe(h) => SafeAfter(h),
           \A k \in Keys : \A h \in durable'[k] \cap Hashes : h \in durable[k] \/ SafeAfter(h),
           \A c \in Clients : pc'[c] = "publish" =>
               (pc[c] = "publish" /\ hash'[c] = hash[c]) \/ SafeAfter(hash'[c])
    PROVE  SafeInv'
<1> USE DEF SafeInv, Safe, SafeAfter, Settled
<1>1. AliasOutlivesNoBlob'
      BY DEF AliasOutlivesNoBlob, Settled
<1>2. ASSUME NEW c \in Clients, pc'[c] = "publish"
      PROVE  SafeAfter(hash'[c])
  <2>1. hash'[c] \in Hashes
        BY <1>2 DEF TypeOK
  <2>2. QED
        BY <1>2, <2>1 DEF PublishedIsSafe, Settled
<1>3. QED
      BY <1>1, <1>2 DEF PublishedIsSafe, Settled

\* A step on one file leaves the others what they are.
LEMMA OneFile ==
    ASSUME TypeOK, NEW f \in Files, NEW s, durable' = [durable EXCEPT ![f] = s]
    PROVE  durable'[f] = s /\ \A g \in Files : g # f => durable'[g] = durable[g]
BY DEF TypeOK

LEMMA SafeServer ==
    ASSUME TypeOK, TypeOK', SafeInv, NEW c \in Clients,
           PutInstall(c) \/ PutSync(c) \/ PutPublish(c) \/ PutAck(c) \/ PutFails(c)
    PROVE  SafeInv'
<1> USE FileTypes DEF Safe, SafeAfter, Settled
<1>1. CASE PutInstall(c)
  <2>1. hash[c] \in Hashes /\ \A k \in Keys : k # hash[c]
        BY <1>1, FilesAssumption DEF PutInstall, TypeOK
  <2>2. durable'[hash[c]] = durable[hash[c]] \cup {hash[c]}
        /\ \A f \in Files : f # hash[c] => durable'[f] = durable[f]
        BY <1>1, <2>1, OneFile, ZenonT(60) DEF PutInstall, Replace
  <2>3. UNCHANGED <<exposed, hash>> /\ \A d \in Clients : pc'[d] = "publish" => pc[d] = "publish"
        BY <1>1 DEF PutInstall, TypeOK
  <2>4. QED
        BY <2>1, <2>2, <2>3, SafeKeeps
<1>2. CASE PutSync(c)
  <2>1. hash[c] \in Hashes /\ \A k \in Keys : k # hash[c]
        BY <1>2, FilesAssumption DEF PutSync, TypeOK
  <2>2. durable'[hash[c]] = AfterSync(hash[c])
        /\ \A f \in Files : f # hash[c] => durable'[f] = durable[f]
        BY <1>2, <2>1, OneFile DEF PutSync
  <2>3. \A h \in Hashes : Safe(h) => SafeAfter(h)
        BY <1>2, <2>1, <2>2 DEF PutSync
  <2>4. UNCHANGED hash /\ SafeAfter(hash[c])
        BY <1>2, <2>1, <2>2 DEF PutSync
  <2>5. \A d \in Clients : pc'[d] = "publish" => d = c \/ pc[d] = "publish"
        BY <1>2 DEF PutSync, TypeOK
  <2>6. QED
        BY <2>1, <2>2, <2>3, <2>4, <2>5, SafeKeeps
<1>3. CASE PutPublish(c)
  <2>1. key[c] \in Keys /\ hash[c] \in Hashes /\ Safe(hash[c])
        BY <1>3 DEF PutPublish, TypeOK, SafeInv, PublishedIsSafe
  <2>2. durable'[key[c]] = durable[key[c]] \cup {hash[c]}
        /\ \A f \in Files : f # key[c] => durable'[f] = durable[f]
        BY <1>3, <2>1, OneFile, ZenonT(60) DEF PutPublish, Replace
  <2>3. UNCHANGED <<exposed, hash>> /\ \A d \in Clients : pc'[d] = "publish" => pc[d] = "publish"
        BY <1>3 DEF PutPublish, TypeOK
  <2>4. \A h \in Hashes : h # key[c] /\ (Safe(h) => SafeAfter(h))
        BY <2>1, <2>2, <2>3, FilesAssumption
  <2>5. \A k \in Keys : \A h \in durable'[k] \cap Hashes : h \in durable[k] \/ SafeAfter(h)
        BY <2>1, <2>2, <2>4
  <2>6. QED
        BY <2>3, <2>4, <2>5, SafeKeeps
<1>4. CASE PutAck(c)
  <2>1. key[c] \in Keys
        BY <1>4 DEF PutAck, TypeOK
  <2>2. durable'[key[c]] = AfterSync(key[c])
        /\ \A f \in Files : f # key[c] => durable'[f] = durable[f]
        BY <1>4, <2>1, OneFile DEF PutAck
  <2>3. AfterSync(key[c]) \subseteq durable[key[c]] \cup {None}
        BY <2>1 DEF AfterSync, TypeOK
  <2>4. UNCHANGED exposed
        /\ \A d \in Clients : pc'[d] = "publish" => pc[d] = "publish" /\ hash'[d] = hash[d]
        BY <1>4 DEF PutAck, Leave, TypeOK
  <2>5. \A h \in Hashes : Safe(h) => SafeAfter(h)
        BY <2>1, <2>2, <2>4, FilesAssumption
  <2>6. \A k \in Keys : \A h \in durable'[k] \cap Hashes : h \in durable[k]
        BY <2>1, <2>2, <2>3
  <2>7. QED
        BY <2>4, <2>5, <2>6, SafeKeeps
<1>5. CASE PutFails(c)
  <2>1. UNCHANGED <<durable, exposed>>
        /\ \A d \in Clients : pc'[d] = "publish" => pc[d] = "publish" /\ hash'[d] = hash[d]
        BY <1>5 DEF PutFails, Leave, TypeOK, fileVars
  <2>2. QED
        BY <2>1, SafeKeeps
<1>6. QED
      BY <1>1, <1>2, <1>3, <1>4, <1>5

LEMMA SafeRestore ==
    ASSUME TypeOK, TypeOK', RestoreInv, SafeInv, Restore
    PROVE  SafeInv'
<1> USE FileTypes DEF Safe, SafeAfter, Settled
<1>a. UNCHANGED <<pc, hash>>
      BY DEF Restore, RestoreStart, RestoreOpen, RestoreCopy, RestoreCopyLost, RestoreControl,
             RestoreControlSync, RestoreDone, RestoreCut, RestoreEnd, Written, clientVars
<1>1. CASE RestoreStart \/ RestoreCopyLost \/ RestoreDone \/ RestoreCut
  <2>1. UNCHANGED <<durable, exposed>>
        BY <1>1 DEF RestoreStart, RestoreCopyLost, RestoreDone, RestoreCut, RestoreEnd, fileVars
  <2>2. QED
        BY <1>a, <2>1, SafeKeeps
<1>2. ASSUME NEW f \in Files, RestoreOpen(f)
      PROVE  SafeInv'
  <2>1. /\ durable'[f] = durable[f] \cup {Torn}
        /\ \A g \in Files : g # f => durable'[g] = durable[g]
        BY <1>2, OneFile DEF RestoreOpen
  <2>2. exposed' = exposed \cup ({f} \cap Hashes)
        BY <1>2 DEF RestoreOpen
  <2>3. \A h \in Hashes : Safe(h) => SafeAfter(h)
        BY <2>1, <2>2
  <2>4. \A k \in Keys : \A h \in durable'[k] \cap Hashes : h \in durable[k]
        BY <2>1
  <2>5. QED
        BY <1>a, <2>3, <2>4, SafeKeeps
<1>3. CASE RestoreCopy
  <2>1. open \in Files /\ Archive[open] \in Whole(open)
        BY <1>3 DEF RestoreCopy, TypeOK
  <2>2. durable'[open] = durable[open] \cup {Archive[open]}
        /\ \A g \in Files : g # open => durable'[g] = durable[g]
        BY <1>3, <2>1, OneFile DEF RestoreCopy
  <2>3. \A h \in Hashes : Settled(h) => durable'[h] = {h}
        BY <2>1, <2>2
  <2>4. exposed \subseteq exposed'
        /\ (open \in Keys => Settled(Archive[open]) \/ Archive[open] \in exposed')
        BY <1>3 DEF RestoreCopy
  <2>5. open \in Keys => SafeAfter(Archive[open])
        BY <2>1, <2>3, <2>4
  <2>6. \A h \in Hashes : Safe(h) => SafeAfter(h)
        BY <2>3, <2>4
  <2>7. \A k \in Keys : \A h \in durable'[k] \cap Hashes : h \in durable[k] \/ SafeAfter(h)
        BY <2>2, <2>5
  <2>8. QED
        BY <1>a, <2>6, <2>7, SafeKeeps
<1>4. ASSUME NEW f \in Files, RestoreControl(f)
      PROVE  SafeInv'
  <2>1. /\ f \notin Hashes \cup Keys
        /\ \A g \in Files : g # f => durable'[g] = durable[g]
        /\ UNCHANGED exposed
        BY <1>4, FilesAssumption DEF RestoreControl, Replace, TypeOK
  <2>2. \A g \in Hashes \cup Keys : durable'[g] = durable[g]
        BY <2>1
  <2>3. QED
        BY <1>a, <2>1, <2>2, SafeKeeps
<1>5. CASE RestoreControlSync
  <2>1. open \in Files /\ open \in Controls
        BY <1>5 DEF RestoreControlSync, RestoreInv, OpenIsTorn
  <2>2. /\ \A g \in Files : g # open => durable'[g] = durable[g]
        /\ UNCHANGED exposed
        BY <1>5, <2>1, OneFile DEF RestoreControlSync
  <2>3. \A g \in Hashes \cup Keys : durable'[g] = durable[g]
        BY <2>1, <2>2, FilesAssumption
  <2>4. QED
        BY <1>a, <2>2, <2>3, SafeKeeps
<1>6. QED
      BY <1>1, <1>2, <1>3, <1>4, <1>5 DEF Restore

LEMMA SafeStep ==
    ASSUME TypeOK, TypeOK', RestoreInv, SafeInv, [Next]_vars
    PROVE  SafeInv'
<1> USE FileTypes DEF Safe, SafeAfter, Settled
<1>1. ASSUME NEW c \in Clients, NEW k \in Keys, NEW h \in Hashes,
             PutHit(c, k, h) \/ PutMiss(c, k, h)
      PROVE  SafeInv'
  <2>1. UNCHANGED durable /\ exposed \subseteq exposed'
        BY <1>1 DEF PutHit, PutMiss, fileVars
  <2>2. \A d \in Clients : pc'[d] = "publish" =>
            (pc[d] = "publish" /\ hash'[d] = hash[d]) \/ SafeAfter(hash'[d])
        BY <1>1 DEF PutHit, PutMiss, Put, TypeOK
  <2>3. QED
        BY <2>1, <2>2, SafeKeeps
<1>2. ASSUME NEW c \in Clients,
             PutInstall(c) \/ PutSync(c) \/ PutPublish(c) \/ PutAck(c) \/ PutFails(c)
      PROVE  SafeInv'
      BY <1>2, SafeServer
<1>3. ASSUME NEW k \in Keys, Delete(k)
      PROVE  SafeInv'
  <2>1. /\ durable'[k] \subseteq durable[k] \cup {None}
        /\ \A g \in Files : g # k => durable'[g] = durable[g]
        BY <1>3, OneFile DEF Delete
  <2>2. UNCHANGED <<exposed, pc, hash>>
        BY <1>3 DEF Delete, clientVars
  <2>3. \A h \in Hashes : Safe(h) => SafeAfter(h)
        BY <2>1, <2>2, FilesAssumption
  <2>4. QED
        BY <2>1, <2>2, <2>3, SafeKeeps
<1>4. CASE Restore
      BY <1>4, SafeRestore
<1>5. ASSUME NEW h \in Hashes, Collect(h)
      PROVE  SafeInv'
  <2>1. /\ durable'[h] = durable[h] \cup {None}
        /\ \A g \in Files : g # h => durable'[g] = durable[g]
        BY <1>5, OneFile DEF Collect, Replace
  <2>2. \A k \in Keys : durable'[k] = durable[k]
        BY <2>1, FilesAssumption
  <2>3. exposed \subseteq exposed' /\ UNCHANGED <<pc, hash>>
        /\ \A k \in Keys : h \in durable[k] => h \in exposed'
        BY <1>5 DEF Collect, clientVars
  <2>4. AliasOutlivesNoBlob'
        BY <2>1, <2>2, <2>3 DEF SafeInv, AliasOutlivesNoBlob
  <2>5. PublishedIsSafe'
    <3>1. \A c \in Clients : pc[c] = "publish" => hash[c] \in Hashes /\ hash[c] # h
          BY <1>5 DEF Collect, TypeOK
    <3>2. QED
          BY <2>1, <2>3, <3>1 DEF SafeInv, PublishedIsSafe
  <2>6. QED
        BY <2>4, <2>5 DEF SafeInv
<1>6. ASSUME NEW f \in Files, Flush(f)
      PROVE  SafeInv'
  <2>1. /\ durable'[f] = {file[f]} /\ file[f] \in durable[f]
        /\ \A g \in Files : g # f => durable'[g] = durable[g]
        BY <1>6, OneFile DEF Flush, TypeOK
  <2>2. /\ UNCHANGED <<pc, hash>>
        /\ exposed' = IF file[f] = f THEN exposed \ {f} ELSE exposed
        BY <1>6 DEF Flush, clientVars
  <2>3. \A h \in Hashes : Safe(h) => SafeAfter(h)
        BY <2>1, <2>2
  <2>4. QED
        BY <2>1, <2>2, <2>3, SafeKeeps
<1>7. CASE PowerLoss
  <2>1. PICK after \in [Files -> Files \cup {None, Torn}] :
           /\ \A f \in Files : after[f] \in durable[f]
           /\ durable' = [f \in Files |-> {after[f]}]
           /\ exposed' = {h \in exposed : after[h] # h}
        BY <1>7 DEF PowerLoss
  <2>2. \A h \in Hashes : Safe(h) => SafeAfter(h)
        BY <2>1
  <2>3. \A k \in Keys : \A h \in durable'[k] \cap Hashes : h \in durable[k]
        BY <2>1
  <2>4. \A c \in Clients : pc'[c] # "publish"
        BY <1>7 DEF PowerLoss
  <2>5. QED
        BY <2>2, <2>3, <2>4, SafeKeeps
<1>8. CASE UNCHANGED vars
  <2>1. UNCHANGED <<durable, exposed, pc, hash>>
        BY <1>8 DEF vars, fileVars, clientVars
  <2>2. QED
        BY <2>1, SafeKeeps
<1>9. QED
      BY <1>1, <1>2, <1>3, <1>4, <1>5, <1>6, <1>7, <1>8 DEF Next, Server

---------------------------------------------------------------------------
(* What the data directory guarantees                                      *)

LEMMA Invariants == Spec => [](TypeOK /\ RestoreInv /\ SafeInv)
<1>1. Init => TypeOK /\ RestoreInv /\ SafeInv
  <2>1. Init => RestoreInv
        BY FileTypes DEF Init, RestoreInv, TornOnDisk, TornIsRepaired, WrittenIsThere,
                         OpenIsTorn, RestoredMeansComplete
  <2>2. Init => SafeInv
        BY FileTypes DEF Init, SafeInv, AliasOutlivesNoBlob, PublishedIsSafe
  <2>3. QED
        BY <2>1, <2>2, TypingInit
<1>2. TypeOK /\ RestoreInv /\ SafeInv /\ [Next]_vars => (TypeOK /\ RestoreInv /\ SafeInv)'
  <2> SUFFICES ASSUME TypeOK, RestoreInv, SafeInv, [Next]_vars
               PROVE  TypeOK' /\ RestoreInv' /\ SafeInv'
      OBVIOUS
  <2>1. TypeOK'
        BY TypingStep
  <2>2. QED
        BY <2>1, RestoreInvStep, SafeStep
<1>3. QED
      BY <1>1, <1>2, PTL DEF Spec

\* The whole invariant of the run.
THEOREM Inductive == Spec => []IInv
<1>1. TypeOK /\ TornOnDisk => ControlIsWhole
      BY FileTypes DEF TypeOK, TornOnDisk, ControlIsWhole
<1>2. TypeOK /\ RestoreInv /\ SafeInv => IInv
      BY <1>1 DEF RestoreInv, SafeInv, IInv
<1>3. QED
      BY <1>2, Invariants, PTL

\* "a crash mid-restore never leaves a truncated control-plane file behind"
\* (main.go:393): neither a kill nor a power loss, in any restoration, first or not.
THEOREM ControlFilesStayWhole == Spec => []ControlIsWhole
<1>1. IInv => ControlIsWhole
      BY DEF IInv
<1>2. QED
      BY <1>1, Inductive, PTL

\* Truncated blobs and aliases come from restore alone; a restoration that is run
\* again has all of them before it, so the one that ends has mended them.
THEOREM RestoreMendsWhatItTears == Spec => []TornIsRepaired
<1>1. IInv => TornIsRepaired
      BY DEF IInv
<1>2. QED
      BY <1>1, Inductive, PTL

\* "restored" (main.go:374) means that everything of the archive is in place and
\* whole, but for what the server and gc changed since the restoration began.
THEOREM RestoredIsComplete == Spec => []RestoredMeansComplete
<1>1. IInv => RestoredMeansComplete
      BY DEF IInv
<1>2. QED
      BY <1>1, Inductive, PTL

\* PutObject (store.go:323-411) syncs the blob before it publishes the alias: no power
\* loss leaves an alias whose blob is gone or torn, but for the exposed hashes.
THEOREM AliasesOutliveNoBlob == Spec => []AliasOutlivesNoBlob
<1>1. IInv => AliasOutlivesNoBlob
      BY DEF IInv
<1>2. QED
      BY <1>1, Inductive, PTL
=============================================================================
