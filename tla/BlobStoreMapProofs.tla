------------------------- MODULE BlobStoreMapProofs -------------------------
(***************************************************************************)
(* BlobStore implements ObjectMap, for every number of namespaces, names,  *)
(* contents, clients and collectors.                                       *)
(***************************************************************************)
EXTENDS BlobStoreMap, BlobStoreProofs

NoCollector == Collectors = {}

---------------------------------------------------------------------------
(* The invariant                                                           *)

LEMMA MapInvInit == Init => MapInv
BY DEF Init, MapInv, RequestIsConsistent, BlobsStay, NoDanglingAlias, OpOf, UploadSteps

LEMMA MapInvClient ==
    ASSUME TypeOK, MapInv, NEW c \in Clients, ClientNext(c)
    PROVE  MapInv'
<1> USE ConstantTypes DEF TypeOK, MapInv, RequestIsConsistent, BlobsStay, NoDanglingAlias,
                          OpOf, UploadSteps, ClientSteps, diskVars, gcVars
<1>1. CASE Reply(c)
      BY <1>1 DEF Reply
<1>2. CASE Fail(c) \/ GetMissing(c) \/ DeleteMissing(c) \/ DropDone(c)
      BY <1>2, SMTT(20) DEF Fail, GetMissing, DeleteMissing, DropDone, Answer
<1>3. ASSUME NEW k \in Keys, NEW h \in Hashes, PutStart(c, k, h)
      PROVE  MapInv'
      BY <1>3 DEF PutStart, Invoke
<1>4. CASE PutCopied(c) \/ PutStatHit(c) \/ PutStatMiss(c)
      BY <1>4 DEF PutCopied, PutStatHit, PutStatMiss
<1>5. CASE PutRename(c)
      BY <1>5 DEF PutRename
<1>6. CASE PutPublish(c)
      BY <1>6 DEF PutPublish, Answer
<1>7. ASSUME NEW k \in Keys, GetStart(c, k) \/ DeleteStart(c, k)
      PROVE  MapInv'
      BY <1>7 DEF GetStart, DeleteStart, Invoke
<1>8. CASE GetLookup(c) \/ DeleteFind(c)
      BY <1>8, SMTT(20) DEF GetLookup, DeleteFind
<1>9. CASE GetOpen(c)
      BY <1>9, SMTT(20) DEF GetOpen, Answer
<1>10. CASE DeleteUnlink(c)
      BY <1>10 DEF DeleteUnlink, Answer
<1>11. ASSUME NEW n \in Namespaces, DropStart(c, n)
      PROVE  MapInv'
      BY <1>11 DEF DropStart, Invoke
<1>12. ASSUME NEW k \in Keys, DropUnlink(c, k)
      PROVE  MapInv'
      BY <1>12 DEF DropUnlink
<1>13. QED
      BY <1>1, <1>2, <1>3, <1>4, <1>5, <1>6, <1>7, <1>8, <1>9, <1>10, <1>11, <1>12
      DEF ClientNext

LEMMA MapInvStep == TypeOK /\ MapInv /\ [Next]_vars => MapInv'
<1> SUFFICES ASSUME TypeOK, MapInv, [Next]_vars
             PROVE  MapInv'
    OBVIOUS
<1> USE DEF MapInv, RequestIsConsistent, BlobsStay, NoDanglingAlias, OpOf, UploadSteps,
            diskVars, gcVars, clientVars
\* A collector holds no request, and where there is one nothing is said of the blobs.
<1>1. ASSUME NEW g \in Collectors, CollectorNext(g)
      PROVE  MapInv'
  <2>1. UNCHANGED clientVars
        BY <1>1 DEF CollectorNext, GCStart, GCVisit, GCSweep, GCSkip, GCInfo, GCRemove, GCEnd
  <2>2. QED
        BY <2>1
<1>2. CASE Crash
      BY <1>2 DEF Crash
<1>3. CASE Tick
      BY <1>3 DEF Tick
<1>4. CASE UNCHANGED vars
      BY <1>4 DEF vars
<1>5. QED
      BY <1>1, <1>2, <1>3, <1>4, MapInvClient DEF Next

\* Each request of the object store holds what its next step needs; and while no
\* collector runs, a blob that an alias, an upload or a read names stays where it is.
THEOREM MapInductive == Spec => []MapInv
BY MapInvInit, MapInvStep, Typing, PTL DEF Spec

\* PutObject has the blob in place before writeAlias names it (store.go:374-406): while
\* no collector runs, every object has its blob, however uploads of one content race
\* and wherever the server is killed.
THEOREM NoAliasDangles ==
    ASSUME NoCollector
    PROVE  Spec => []NoDanglingAlias
<1>1. MapInv => NoDanglingAlias
      BY DEF MapInv, BlobsStay, NoCollector
<1>2. QED
      BY <1>1, MapInductive, PTL

---------------------------------------------------------------------------
(* The refinement                                                          *)

Calls == [c \in Clients |-> ClientCall(c)]

\* What the client's call is at each step.
CallView(c) ==
    /\ pc[c] = "idle" => ClientCall(c) = Map!NoCall
    /\ pc[c] \in UploadSteps => ClientCall(c) = Map!Pending("put", {key[c]}, hash[c])
    /\ pc[c] = "lookup" => ClientCall(c) = Map!Pending("get", {key[c]}, NoHash)
    /\ pc[c] = "open" => ClientCall(c) = Map!Settled("get", hash[c], "ok")
    /\ pc[c] \in {"find", "unlink"} => ClientCall(c) = Map!Pending("delete", {key[c]}, NoHash)
    /\ pc[c] = "purge" => ClientCall(c) = Map!Pending("drop", todo[c], NoHash)
    /\ pc[c] = "reply" => ClientCall(c) = Map!Settled(op[c], hash[c], status[c])

LEMMA CallAtStep ==
    ASSUME NEW c \in Clients
    PROVE  /\ RequestIsConsistent => CallView(c)
           /\ RequestIsConsistent' => CallView(c)'
BY DEF RequestIsConsistent, ClientCall, CallView, OpOf, UploadSteps,
       Map!NoCall, Map!Pending, Map!Settled

\* A request's step changes its own call only.
OthersKeep(c) ==
    \A d \in Clients \ {c} :
        /\ pc'[d] = pc[d] /\ op'[d] = op[d] /\ key'[d] = key[d]
        /\ hash'[d] = hash[d] /\ todo'[d] = todo[d] /\ status'[d] = status[d]

LEMMA OneCall ==
    ASSUME NEW c \in Clients, NEW r, ClientCall(c)' = r, OthersKeep(c)
    PROVE  Calls' = [Calls EXCEPT ![c] = r]
<1>1. \A d \in Clients \ {c} : ClientCall(d)' = ClientCall(d)
      BY DEF ClientCall, OthersKeep
<1>2. QED
      BY <1>1 DEF Calls

LEMMA SameCall ==
    ASSUME NEW c \in Clients, ClientCall(c)' = ClientCall(c), OthersKeep(c)
    PROVE  Calls' = Calls
<1>1. \A d \in Clients \ {c} : ClientCall(d)' = ClientCall(d)
      BY DEF ClientCall, OthersKeep
<1>2. QED
      BY <1>1 DEF Calls

\* A request that begins is issued to the map.
LEMMA Issued ==
    ASSUME NEW c \in Clients, NEW r, Calls[c] = Map!NoCall,
           Calls' = [Calls EXCEPT ![c] = r], UNCHANGED alias
    PROVE  Map!Issue(c, r)
BY DEF Map!Issue, Calls

LEMMA ClientRefines ==
    ASSUME TypeOK, MapInv, MapInv', NEW c \in Clients, ClientNext(c)
    PROVE  [Map!Next]_(Map!vars)
<1> DEFINE Goal == \/ Map!Invoke(c) \/ Map!Dropped(c) \/ Map!Fail(c)
                   \/ Map!Lose(c) \/ Map!Return(c)
                   \/ \E k \in Keys : \/ Map!Put(c, k) \/ Map!Get(c, k)
                                      \/ Map!Delete(c, k) \/ Map!DropOne(c, k)
                   \/ UNCHANGED <<alias, Calls>>
<1> SUFFICES Goal
    BY DEF Map!Next, Map!vars, Calls
<1> USE ConstantTypes DEF TypeOK, UploadSteps, ClientSteps, diskVars, gcVars
<1>1. CallView(c) /\ CallView(c)' /\ Calls[c] = ClientCall(c) /\ RequestIsConsistent
      BY CallAtStep DEF MapInv, Calls
<1>2. CASE Reply(c)
  <2>1. Calls' = [Calls EXCEPT ![c] = Map!NoCall]
        BY <1>1, <1>2, OneCall DEF OthersKeep, Reply, CallView
  <2>2. Map!Return(c)
        BY <1>1, <1>2, <2>1 DEF Reply, CallView, Map!Return, Map!Settled, Calls
  <2>3. QED
        BY <2>2
<1>3. CASE Fail(c)
  <2>1. Calls' = [Calls EXCEPT ![c] = Map!Settled(op[c], NoHash, "error")]
        BY <1>1, <1>3, OneCall DEF OthersKeep, Fail, Answer, CallView
  <2>2. \/ Calls[c].phase = "pending" /\ Calls[c].op = op[c]
        \/ Calls[c].phase = "settled" /\ Calls[c].op = "get" /\ op[c] = "get"
        BY <1>1, <1>3 DEF Fail, CallView, RequestIsConsistent, OpOf, Map!Pending, Map!Settled
  <2>3. Map!Fail(c)
        BY <1>3, <2>1, <2>2 DEF Fail, Map!Fail, Calls
  <2>4. QED
        BY <2>3
<1>4. ASSUME NEW k \in Keys, NEW h \in Hashes, PutStart(c, k, h)
      PROVE  Goal
  <2>1. Calls' = [Calls EXCEPT ![c] = Map!Pending("put", {k}, h)]
        BY <1>1, <1>4, OneCall DEF OthersKeep, PutStart, Invoke, CallView
  <2>2. Map!Invoke(c)
        BY <1>1, <1>4, <2>1, Issued DEF Map!Invoke, PutStart, Invoke, CallView
  <2>3. QED
        BY <2>2
<1>5. CASE PutCopied(c) \/ PutStatHit(c) \/ PutStatMiss(c) \/ PutRename(c)
  <2>1. ClientCall(c)' = ClientCall(c)
        BY <1>1, <1>5 DEF PutCopied, PutStatHit, PutStatMiss, PutRename, CallView
  <2>2. Calls' = Calls
        BY <1>5, <2>1, SameCall DEF OthersKeep, PutCopied, PutStatHit, PutStatMiss, PutRename
  <2>3. QED
        BY <1>5, <2>2 DEF PutCopied, PutStatHit, PutStatMiss, PutRename
<1>6. CASE PutPublish(c)
  <2>1. PICK s \in {"ok", "error"} : Answer(c, s, NoHash)
        BY <1>6 DEF PutPublish
  <2>2. op[c] = "put" /\ key[c] \in Keys
        BY <1>6 DEF PutPublish, MapInv, RequestIsConsistent, OpOf
  <2>3. Calls' = [Calls EXCEPT ![c] = Map!Settled("put", NoHash, s)]
        BY <1>1, <1>6, <2>1, <2>2, OneCall DEF OthersKeep, PutPublish, Answer, CallView
  <2>4. Calls[c] = Map!Pending("put", {key[c]}, hash[c])
        BY <1>1, <1>6 DEF PutPublish, CallView
  <2>5. Map!Waiting(c, "put", key[c]) /\ Calls[c].value = hash[c]
        BY <2>4 DEF Map!Waiting, Map!Pending, Calls
  <2>6. Map!Put(c, key[c])
        BY <1>6, <2>3, <2>5 DEF PutPublish, Map!Put, Calls
  <2>7. QED
        BY <2>2, <2>6
<1>7. ASSUME NEW k \in Keys, GetStart(c, k) \/ DeleteStart(c, k)
      PROVE  Goal
  <2>1. CASE GetStart(c, k)
    <3>1. ClientCall(c)' = Map!Pending("get", {k}, NoHash)
          BY <1>1, <2>1 DEF GetStart, Invoke, CallView
    <3>2. Calls' = [Calls EXCEPT ![c] = Map!Pending("get", {k}, NoHash)]
          BY <2>1, <3>1, OneCall DEF GetStart, Invoke, OthersKeep
    <3>3. Map!Invoke(c)
          BY <1>1, <2>1, <3>2, Issued DEF Map!Invoke, GetStart, Invoke, CallView
    <3>4. QED
          BY <3>3
  <2>2. CASE DeleteStart(c, k)
    <3>1. ClientCall(c)' = Map!Pending("delete", {k}, NoHash)
          BY <1>1, <2>2 DEF DeleteStart, Invoke, CallView
    <3>2. Calls' = [Calls EXCEPT ![c] = Map!Pending("delete", {k}, NoHash)]
          BY <2>2, <3>1, OneCall DEF DeleteStart, Invoke, OthersKeep
    <3>3. Map!Invoke(c)
          BY <1>1, <2>2, <3>2, Issued DEF Map!Invoke, DeleteStart, Invoke, CallView
    <3>4. QED
          BY <3>3
  <2>3. QED
        BY <1>7, <2>1, <2>2
<1>8. CASE GetLookup(c)
  <2>1. Calls' = [Calls EXCEPT ![c] = Map!Settled("get", alias[key[c]], "ok")]
        BY <1>1, <1>8, OneCall DEF OthersKeep, GetLookup, CallView
  <2>2. key[c] \in Keys
        BY <1>8 DEF GetLookup, MapInv, RequestIsConsistent
  <2>3. Map!Get(c, key[c])
        BY <1>1, <1>8, <2>1, <2>2
        DEF GetLookup, CallView, Map!Get, Map!Waiting, Map!Pending, Map!Found, Calls
  <2>4. QED
        BY <2>2, <2>3
<1>9. CASE GetMissing(c)
  <2>1. op[c] = "get" /\ key[c] \in Keys
        BY <1>9 DEF GetMissing, MapInv, RequestIsConsistent, OpOf
  <2>2. Calls' = [Calls EXCEPT ![c] = Map!Settled("get", NoHash, "notfound")]
        BY <1>1, <1>9, <2>1, OneCall DEF OthersKeep, GetMissing, Answer, CallView
  <2>3. Map!Get(c, key[c])
        BY <1>1, <1>9, <2>1, <2>2
        DEF GetMissing, CallView, Map!Get, Map!Waiting, Map!Pending, Map!Found, Calls
  <2>4. QED
        BY <2>1, <2>3
\* The blob an open read names is there, and the answer is the one it settled on; or
\* a collector has taken it.
<1>10. CASE GetOpen(c)
  <2>1. op[c] = "get" /\ Calls[c] = Map!Settled("get", hash[c], "ok")
        BY <1>1, <1>10 DEF GetOpen, CallView, MapInv, RequestIsConsistent, OpOf
  <2>2. CASE hash[c] \in blobs
    <3>1. Answer(c, "ok", hash[c])
          BY <1>10, <2>2 DEF GetOpen
    <3>2. ClientCall(c)' = ClientCall(c)
          BY <1>1, <1>10, <2>1, <3>1 DEF GetOpen, Answer, CallView
    <3>3. Calls' = Calls
          BY <3>1, <3>2, SameCall DEF OthersKeep, Answer
    <3>4. QED
          BY <1>10, <3>3 DEF GetOpen
  <2>3. CASE hash[c] \notin blobs
    <3>1. Collectors # {}
          BY <1>10, <2>3 DEF GetOpen, MapInv, BlobsStay
    <3>2. Answer(c, "notfound", NoHash) /\ UNCHANGED alias
          BY <1>10, <2>3 DEF GetOpen
    <3>3. Calls' = [Calls EXCEPT ![c] = Map!Settled("get", NoHash, "notfound")]
          BY <1>1, <2>1, <3>2, OneCall DEF OthersKeep, Answer, CallView
    <3>4. Calls[c] = Map!Settled("get", Calls[c].value, "ok")
          BY <2>1 DEF Map!Settled
    <3>5. Map!Lose(c)
          BY <3>1, <3>2, <3>3, <3>4 DEF Map!Lose, Calls
    <3>6. QED
          BY <3>5
  <2>4. QED
        BY <2>2, <2>3
<1>11. CASE DeleteFind(c)
  <2>1. ClientCall(c)' = ClientCall(c)
        BY <1>1, <1>11 DEF DeleteFind, CallView
  <2>2. Calls' = Calls
        BY <1>11, <2>1, SameCall DEF OthersKeep, DeleteFind
  <2>3. QED
        BY <1>11, <2>2 DEF DeleteFind
<1>12. CASE DeleteMissing(c)
  <2>1. op[c] = "delete" /\ key[c] \in Keys
        BY <1>12 DEF DeleteMissing, MapInv, RequestIsConsistent, OpOf
  <2>2. Calls' = [Calls EXCEPT ![c] = Map!Settled("delete", NoHash, "notfound")]
        BY <1>1, <1>12, <2>1, OneCall DEF OthersKeep, DeleteMissing, Answer, CallView
  <2>3. alias' = [alias EXCEPT ![key[c]] = NoHash]
        BY <1>12, <2>1 DEF DeleteMissing
  <2>4. Calls[c] = Map!Pending("delete", {key[c]}, NoHash)
        BY <1>1, <1>12 DEF DeleteMissing, CallView
  <2>5. Map!Waiting(c, "delete", key[c])
        BY <2>4 DEF Map!Waiting, Map!Pending, Calls
  <2>6. Map!Delete(c, key[c])
        BY <1>12, <2>2, <2>3, <2>5 DEF DeleteMissing, Map!Delete, Map!Found, Calls
  <2>7. QED
        BY <2>1, <2>6
<1>13. CASE DeleteUnlink(c)
  <2>1. op[c] = "delete" /\ key[c] \in Keys
        BY <1>13 DEF DeleteUnlink, MapInv, RequestIsConsistent, OpOf
  <2>2. Calls' = [Calls EXCEPT ![c] = Map!Settled("delete", NoHash, "ok")]
        BY <1>1, <1>13, <2>1, OneCall DEF OthersKeep, DeleteUnlink, Answer, CallView
  <2>3. Map!Delete(c, key[c])
        BY <1>1, <1>13, <2>1, <2>2
        DEF DeleteUnlink, CallView, Map!Delete, Map!Waiting, Map!Pending, Map!Found, Calls
  <2>4. QED
        BY <2>1, <2>3
<1>14. ASSUME NEW n \in Namespaces, DropStart(c, n)
       PROVE  Goal
  <2>1. Calls' = [Calls EXCEPT ![c] = Map!Pending("drop", {n} \X Names, NoHash)]
        BY <1>1, <1>14, OneCall DEF OthersKeep, DropStart, Invoke, CallView, MapInv, RequestIsConsistent
  <2>2. Map!Invoke(c)
        BY <1>1, <1>14, <2>1, Issued DEF Map!Invoke, DropStart, Invoke, CallView
  <2>3. QED
        BY <2>2
<1>15. ASSUME NEW k \in Keys, DropUnlink(c, k)
       PROVE  Goal
  <2>1. pc[c] = "purge" /\ pc'[c] = "purge" /\ k \in todo[c] /\ todo'[c] = todo[c] \ {k}
        BY <1>15 DEF DropUnlink
  <2>2. Calls[c] = Map!Pending("drop", todo[c], NoHash)
        BY <1>1, <2>1 DEF CallView
  <2>3. ClientCall(c)' = Map!Pending("drop", todo[c] \ {k}, NoHash)
        BY <1>1, <2>1 DEF CallView
  <2>4. Calls[c].scope = todo[c]
        BY <2>2 DEF Map!Pending
  <2>5. Calls' = [Calls EXCEPT ![c] = Map!Pending("drop", Calls[c].scope \ {k}, NoHash)]
        BY <1>15, <2>3, <2>4, OneCall DEF OthersKeep, DropUnlink
  <2>6. Map!DropOne(c, k)
        BY <1>15, <2>1, <2>2, <2>5
        DEF DropUnlink, Map!DropOne, Map!Waiting, Map!Pending, Calls
  <2>7. QED
        BY <2>6
<1>16. CASE DropDone(c)
  <2>1. op[c] = "drop"
        BY <1>16 DEF DropDone, MapInv, RequestIsConsistent, OpOf
  <2>2. Calls' = [Calls EXCEPT ![c] = Map!Settled("drop", NoHash, "ok")]
        BY <1>1, <1>16, <2>1, OneCall DEF OthersKeep, DropDone, Answer, CallView
  <2>3. Map!Dropped(c)
        BY <1>1, <1>16, <2>2 DEF DropDone, CallView, Map!Dropped, Calls
  <2>4. QED
        BY <2>3
<1>17. QED
       BY <1>2, <1>3, <1>4, <1>5, <1>6, <1>7, <1>8, <1>9, <1>10, <1>11, <1>12, <1>13,
          <1>14, <1>15, <1>16 DEF ClientNext

LEMMA InitRefines == Init => Map!Init
<1> SUFFICES ASSUME Init
             PROVE  Map!Init
    OBVIOUS
<1>1. \A c \in Clients : ClientCall(c) = Map!NoCall
      BY DEF Init, ClientCall, Map!NoCall
<1>2. QED
      BY <1>1 DEF Init, Map!Init

LEMMA StepRefines ==
    ASSUME TypeOK, MapInv, MapInv', [Next]_vars
    PROVE  [Map!Next]_(Map!vars)
<1>1. ASSUME NEW c \in Clients, ClientNext(c)
      PROVE  [Map!Next]_(Map!vars)
      BY <1>1, ClientRefines
<1>2. CASE Crash
  <2>1. \A c \in Clients : ClientCall(c)' = Map!NoCall
        BY <1>2 DEF Crash, ClientCall, Map!NoCall
  <2>2. Calls' = [c \in Clients |-> Map!NoCall]
        BY <2>1 DEF Calls
  <2>3. Map!Stop
        BY <1>2, <2>2 DEF Crash, Map!Stop, Calls, diskVars
  <2>4. QED
        BY <2>3 DEF Map!Next
\* The clock and the collectors are none of the map's business.
<1>3. CASE Tick \/ UNCHANGED vars \/ \E g \in Collectors : CollectorNext(g)
  <2>1. UNCHANGED <<alias, clientVars>>
        BY <1>3 DEF Tick, vars, diskVars, CollectorNext, GCStart, GCVisit, GCSweep, GCSkip,
           GCInfo, GCRemove, GCEnd
  <2>2. \A c \in Clients : ClientCall(c)' = ClientCall(c)
        BY <2>1 DEF ClientCall, clientVars
  <2>3. QED
        BY <2>1, <2>2 DEF Map!vars
<1>4. QED
      BY <1>1, <1>2, <1>3 DEF Next

\* Uploads, reads, deletes and namespace removals are linearizable operations of a
\* map from object paths to contents: what PutObject, GetObject and DeleteObject
\* return is what the map holds.  Collectors (store.go:252) may make a read miss the
\* content it has found, and without one not even that happens.
THEOREM StoreImplementsMap == Spec => ImplementsMap
<1>1. TypeOK /\ MapInv /\ MapInv' /\ [Next]_vars => [Map!Next]_(Map!vars)
      BY StepRefines
<1>2. QED
      BY <1>1, InitRefines, MapInductive, Typing, PTL DEF Spec, ImplementsMap, Map!Spec
=============================================================================
