---------------------------- MODULE Reclamation ----------------------------
(***************************************************************************)
(* What `picocdn gc` achieves in the end.  The operator runs it again and  *)
(* again (cmd/picocdn/main.go, runGC), and a run that nothing interrupts   *)
(* comes to its end.  Nothing is owed by the clients: uploads may stop at  *)
(* any step, for ever, and deletes and crashes may come at any time.       *)
(***************************************************************************)
EXTENDS BlobStore

\* The run has passed every blob: Store.GC returns without an error.
GCFinish(g) == gpc[g] = "sweep" /\ unswept[g] = {} /\ GCEnd(g)

\* It ends before: an alias that vanished while the walk was about to read it
\* (store.go:269), another error of the file system, a kill.
GCInterrupted(g) == ~(gpc[g] = "sweep" /\ unswept[g] = {}) /\ GCEnd(g)

CollectorWork(g) ==
    \/ GCStart(g) \/ GCSweep(g) \/ GCRemove(g) \/ GCFinish(g)
    \/ \E k \in Keys : GCVisit(g, k)
    \/ \E h \in Hashes : GCSkip(g, h) \/ GCInfo(g, h)

FairSpec == Spec /\ \A g \in Collectors : WF_vars(CollectorWork(g))

\* A blob no object names, old enough to be collected.
Orphan(h) ==
    /\ h \in blobs
    /\ mtime[h] + Grace <= now
    /\ \A k \in Keys : alias[k] # h

\* "blobs reclaimed by gc" (README, Admin plane; store.go:154): as long as the runs
\* are not interrupted for ever, no blob stays an orphan, whatever uploads of the
\* same content, deletes, failures and crashes there are meanwhile.  With deletes
\* that interrupt every run (store.go:269) it may.
OrphansAreReclaimed ==
    (\A g \in Collectors : <>[][~GCInterrupted(g)]_vars) => \A h \in Hashes : []<>~Orphan(h)
=============================================================================
