---------------------------- MODULE AuthStoreAcks ----------------------------
(***************************************************************************)
(* What the settings of a namespace are said to be.  AuthStore leaves out  *)
(* the calls of SetIndex and SetPublicRead that find the value in the      *)
(* table: they write nothing and return success (auth.go:644, auth.go:667) *)
(* and so change no state of the store.  What they do is answer.           *)
(***************************************************************************)
EXTENDS AuthStore

VARIABLE acked  \* history: the settings of each namespace acknowledged since the
                \* last mutation of it began

SettingsOf(e) == {<<"public", e.public>>, <<"index", e.index>>}

InitAcks == Init /\ acked = [n \in Names |-> {}]

Answer(n, s) ==
    /\ Unlocked
    /\ mem[n] # None
    /\ s \in SettingsOf(mem[n])
    /\ acked' = [acked EXCEPT ![n] = @ \cup {s}]
    /\ UNCHANGED vars

\* SetIndex with the index the table has.
SetSameIndex(n, i) == Answer(n, <<"index", i>>)

\* SetPublicRead with the flag the table has.
SetSamePublicRead(n, p) == Answer(n, <<"public", p>>)

\* A mutation that succeeds acknowledges the file it wrote, settings and all.
CommitAnswers ==
    /\ Commit
    /\ acked' = [acked EXCEPT ![jname] = IF jnew = None THEN {} ELSE SettingsOf(jnew)]

MutateAnew == Mutate /\ acked' = [acked EXCEPT ![jname'] = {}]

Unanswered ==
    /\ Write \/ WriteFails \/ SyncFails \/ Kill \/ Settle \/ PowerLoss
       \/ LoseDirectory \/ Start
    /\ UNCHANGED acked

NextAcks ==
    \/ \E n \in Names, i \in Indexes : SetSameIndex(n, i)
    \/ \E n \in Names, p \in BOOLEAN : SetSamePublicRead(n, p)
    \/ CommitAnswers \/ MutateAnew \/ Unanswered

SpecAcks == InitAcks /\ [][NextAcks]_<<vars, acked>>

\* "All mutations go through this object, which atomically writes to
\* <dir>/<ns>.json and updates the in-memory map" (auth.go:186): of a namespace it has,
\* the server serves the settings that a call has acknowledged and that no call has
\* tried to change since, before and after any kill, power loss and start.
AckedSettingsStay ==
    up => \A n \in Names : mem[n] # None => acked[n] \subseteq SettingsOf(mem[n])
=============================================================================
