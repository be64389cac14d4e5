-------------------------- MODULE AuthStoreProofs --------------------------
(***************************************************************************)
(* Proofs about AuthStore, for every number of namespaces, tokens and      *)
(* index settings, and every sequence of failures, kills and power losses. *)
(***************************************************************************)
EXTENDS AuthStore, TLAPS

LEMMA ConstantFacts ==
    /\ Default \in Indexes /\ None \notin Tokens /\ None \notin Names /\ None \notin Namespace
BY DefaultAssumption, NoneAssumption, NoEntryAssumption

---------------------------------------------------------------------------
(* The entries mutations build                                             *)

\* What every mutation of n hands to persistLocked: an entry that validates and
\* lists no token but those of the table and the one it generates.
Proper(n, e, t) ==
    /\ e \in Entry
    /\ Valid(e)
    /\ TokensOf(e) \subseteq TokensOf(mem[n]) \cup ({t} \ {None})
    /\ t = None \/ (t \in (Tokens \ used) \cap TokensOf(e))

Mutation(n, e, t) == Unlocked /\ Proper(n, e, t) /\ Begin(n, e, t)

LEMMA CreateIsProper ==
    ASSUME TypeOK, NEW n \in Names, NEW t \in Tokens, CreateNamespace(n, t)
    PROVE  \E e : Mutation(n, e, t)
<1> DEFINE k == [u \in Tokens |-> IF u = t THEN "owner" ELSE "absent"]
           e == [owner |-> t, kind |-> k, public |-> TRUE, index |-> Default]
<1>1. k \in [Tokens -> Kinds] /\ \A u \in Tokens : k[u] = IF u = t THEN "owner" ELSE "absent"
      BY DEF Kinds
<1>2. e \in Namespace /\ e.kind = k /\ e.owner = t
      BY <1>1, ConstantFacts DEF Namespace
<1> HIDE DEF k
<1>3. e # None
      BY <1>2, ConstantFacts
<1>4. TokensOf(e) = {t} /\ Valid(e)
      BY <1>1, <1>2, <1>3 DEF TokensOf, Valid
<1>5. Begin(n, e, t) /\ Unlocked /\ t \notin used
      BY DEF CreateNamespace, k
<1> HIDE DEF e
<1>6. Proper(n, e, t)
      BY <1>2, <1>4, <1>5, ConstantFacts DEF Proper, Entry
<1>7. QED
      BY <1>5, <1>6 DEF Mutation

LEMMA DeleteIsProper ==
    ASSUME NEW n \in Names, DeleteNamespace(n)
    PROVE  Mutation(n, None, None)
BY DEF DeleteNamespace, Mutation, Proper, Entry, Valid, TokensOf

\* A namespace of the table validates, and all its tokens have been generated.
TableIsSound ==
    \A n \in Names : mem[n] # None => Valid(mem[n]) /\ TokensOf(mem[n]) \subseteq used

\* An entry that differs from a namespace in the kinds of its tokens and in its
\* owner; the settings play no part in what follows.
LEMMA EntryFacts ==
    ASSUME NEW e \in Namespace
    PROVE  /\ e # None /\ e \in Entry
           /\ e.owner \in Tokens /\ e.kind \in [Tokens -> Kinds]
           /\ TokensOf(e) = {t \in Tokens : e.kind[t] # "absent"}
           /\ Valid(e) <=> {t \in Tokens : e.kind[t] = "owner"} = {e.owner}
BY ConstantFacts DEF Namespace, Entry, TokensOf, Valid

LEMMA RotateIsProper ==
    ASSUME TypeOK, TableIsSound, NEW n \in Names, NEW t \in Tokens, RotateOwner(n, t)
    PROVE  \E e : Mutation(n, e, t)
<1> DEFINE o == mem[n]
           k == RotatedKind(o, t)
           e == [o EXCEPT !.owner = t, !.kind = k]
<1>1. o \in Namespace /\ t \notin used /\ Unlocked /\ Begin(n, e, t)
      BY DEF RotateOwner, TypeOK, Entry
<1>2. /\ {u \in Tokens : o.kind[u] = "owner"} = {o.owner}
      /\ {u \in Tokens : o.kind[u] # "absent"} \subseteq used
      BY <1>1, EntryFacts DEF TableIsSound
<1> HIDE DEF o
<1>3. /\ k \in [Tokens -> Kinds]
      /\ \A u \in Tokens : k[u] = IF u = t THEN "owner"
                                  ELSE IF u = o.owner THEN "absent" ELSE o.kind[u]
      BY <1>1, EntryFacts DEF RotatedKind, Kinds
<1> HIDE DEF k
<1>4. e \in Namespace /\ e.kind = k /\ e.owner = t
      BY <1>1, <1>3 DEF Namespace
<1> HIDE DEF e
<1>5. {u \in Tokens : k[u] = "owner"} = {t}
      BY <1>2, <1>3
<1>6. {u \in Tokens : k[u] # "absent"} \subseteq {u \in Tokens : o.kind[u] # "absent"} \cup {t}
      BY <1>3
<1>7. TokensOf(e) \subseteq TokensOf(o) \cup {t} /\ t \in TokensOf(e) /\ Valid(e) /\ e \in Entry
      BY <1>1, <1>3, <1>4, <1>5, <1>6, EntryFacts
<1>8. QED
      BY <1>1, <1>7, ConstantFacts DEF Mutation, Proper, o

LEMMA CreateTokenIsProper ==
    ASSUME TypeOK, TableIsSound, NEW n \in Names, NEW t \in Tokens, CreateToken(n, t)
    PROVE  \E e : Mutation(n, e, t)
<1> DEFINE o == mem[n]
           e == [o EXCEPT !.kind[t] = "sub"]
<1>1. o \in Namespace /\ t \notin used /\ Unlocked /\ Begin(n, e, t)
      BY DEF CreateToken, TypeOK, Entry
<1>2. /\ {u \in Tokens : o.kind[u] = "owner"} = {o.owner}
      /\ {u \in Tokens : o.kind[u] # "absent"} \subseteq used
      BY <1>1, EntryFacts DEF TableIsSound
<1> HIDE DEF o
<1>3. /\ e \in Namespace /\ e.owner = o.owner
      /\ \A u \in Tokens : e.kind[u] = IF u = t THEN "sub" ELSE o.kind[u]
      BY <1>1, EntryFacts DEF Namespace, Kinds
<1> HIDE DEF e
<1>4. {u \in Tokens : e.kind[u] = "owner"} = {o.owner}
      BY <1>1, <1>2, <1>3
<1>5. /\ {u \in Tokens : e.kind[u] # "absent"}
            \subseteq {u \in Tokens : o.kind[u] # "absent"} \cup {t}
      /\ t \in {u \in Tokens : e.kind[u] # "absent"}
      BY <1>3
<1>6. TokensOf(e) \subseteq TokensOf(o) \cup {t} /\ t \in TokensOf(e) /\ Valid(e) /\ e \in Entry
      BY <1>1, <1>3, <1>4, <1>5, EntryFacts
<1>7. QED
      BY <1>1, <1>6, ConstantFacts DEF Mutation, Proper, o

LEMMA RevokeIsProper ==
    ASSUME TypeOK, TableIsSound, NEW n \in Names, NEW t \in Tokens, RevokeToken(n, t)
    PROVE  \E e : Mutation(n, e, None)
<1> DEFINE o == mem[n]
           e == [o EXCEPT !.kind[t] = "absent"]
<1>1. o \in Namespace /\ t # o.owner /\ Unlocked /\ Begin(n, e, None)
      BY DEF RevokeToken, Revocable, TypeOK, Entry
<1>2. {u \in Tokens : o.kind[u] = "owner"} = {o.owner}
      BY <1>1, EntryFacts DEF TableIsSound
<1> HIDE DEF o
<1>3. /\ e \in Namespace /\ e.owner = o.owner
      /\ \A u \in Tokens : e.kind[u] = IF u = t THEN "absent" ELSE o.kind[u]
      BY <1>1, EntryFacts DEF Namespace, Kinds
<1> HIDE DEF e
<1>4. {u \in Tokens : e.kind[u] = "owner"} = {o.owner}
      BY <1>1, <1>2, <1>3
<1>5. {u \in Tokens : e.kind[u] # "absent"} \subseteq {u \in Tokens : o.kind[u] # "absent"}
      BY <1>3
<1>6. TokensOf(e) \subseteq TokensOf(o) /\ Valid(e) /\ e \in Entry
      BY <1>1, <1>3, <1>4, <1>5, EntryFacts
<1>7. QED
      BY <1>1, <1>6, ConstantFacts DEF Mutation, Proper, o

LEMMA SettingsAreProper ==
    ASSUME TypeOK, TableIsSound, NEW n \in Names,
           \/ \E i \in Indexes : SetIndex(n, i)
           \/ \E p \in BOOLEAN : SetPublicRead(n, p)
    PROVE  \E e : Mutation(n, e, None)
<1> DEFINE o == mem[n]
<1>1. o \in Namespace /\ Unlocked
      BY DEF SetIndex, SetPublicRead, TypeOK, Entry
<1>2. Valid(o)
      BY <1>1, EntryFacts DEF TableIsSound
<1>3. PICK e : Begin(n, e, None) /\ e \in Namespace /\ e.owner = o.owner /\ e.kind = o.kind
  <2>1. ASSUME NEW i \in Indexes, SetIndex(n, i)
        PROVE  LET e == [o EXCEPT !.index = i]
               IN  Begin(n, e, None) /\ e \in Namespace /\ e.owner = o.owner /\ e.kind = o.kind
    <3>1. Begin(n, [o EXCEPT !.index = i], None)
          BY <2>1 DEF SetIndex
    <3> HIDE DEF o
    <3>2. QED
          BY <1>1, <3>1 DEF Namespace
  <2>2. ASSUME NEW p \in BOOLEAN, SetPublicRead(n, p)
        PROVE  LET e == [o EXCEPT !.public = p]
               IN  Begin(n, e, None) /\ e \in Namespace /\ e.owner = o.owner /\ e.kind = o.kind
    <3>1. Begin(n, [o EXCEPT !.public = p], None)
          BY <2>2 DEF SetPublicRead
    <3> HIDE DEF o
    <3>2. QED
          BY <1>1, <3>1 DEF Namespace
  <2>3. QED
        BY <2>1, <2>2
<1>4. TokensOf(e) = TokensOf(o) /\ Valid(e) /\ e \in Entry
  <2>1. o \in Namespace /\ e \in Namespace
        BY <1>1, <1>3
  <2> HIDE DEF o
  <2>2. TokensOf(e) = TokensOf(o)
    <3>1. TokensOf(e) = {t \in Tokens : e.kind[t] # "absent"}
          BY <2>1, EntryFacts
    <3>2. TokensOf(o) = {t \in Tokens : o.kind[t] # "absent"}
          BY <2>1, EntryFacts
    <3>3. QED
          BY <1>3, <3>1, <3>2
  <2>3. Valid(e) <=> Valid(o)
        BY <1>3, <2>1, EntryFacts
  <2>4. QED
        BY <1>2, <2>1, <2>2, <2>3, EntryFacts
<1>5. QED
      BY <1>1, <1>3, <1>4 DEF Mutation, Proper

\* Every step is a mutation's beginning, a step of persistLocked, or a stop or start.
LEMMA NextSteps ==
    ASSUME TypeOK, TableIsSound, Next
    PROVE  \/ \E n \in Names : \E e, t : Mutation(n, e, t)
           \/ Write \/ WriteFails \/ Commit \/ SyncFails
           \/ Kill \/ Settle \/ PowerLoss \/ LoseDirectory \/ Start
<1>1. ASSUME NEW n \in Names, NEW t \in Tokens, CreateNamespace(n, t)
      PROVE  \E e : Mutation(n, e, t)
      BY <1>1, CreateIsProper
<1>2. ASSUME NEW n \in Names, NEW t \in Tokens, RotateOwner(n, t)
      PROVE  \E e : Mutation(n, e, t)
      BY <1>2, RotateIsProper
<1>3. ASSUME NEW n \in Names, NEW t \in Tokens, CreateToken(n, t)
      PROVE  \E e : Mutation(n, e, t)
      BY <1>3, CreateTokenIsProper
<1>4. ASSUME NEW n \in Names, NEW t \in Tokens, RevokeToken(n, t)
      PROVE  \E e : Mutation(n, e, None)
      BY <1>4, RevokeIsProper
<1>5. ASSUME NEW n \in Names, DeleteNamespace(n)
      PROVE  Mutation(n, None, None)
      BY <1>5, DeleteIsProper
<1>6. ASSUME NEW n \in Names, NEW i \in Indexes, SetIndex(n, i)
      PROVE  \E e : Mutation(n, e, None)
      BY <1>6, SettingsAreProper
<1>7. ASSUME NEW n \in Names, NEW p \in BOOLEAN, SetPublicRead(n, p)
      PROVE  \E e : Mutation(n, e, None)
      BY <1>7, SettingsAreProper
<1>8. QED
      BY <1>1, <1>2, <1>3, <1>4, <1>5, <1>6, <1>7 DEF Next, Mutate

---------------------------------------------------------------------------
(* The inductive invariant                                                 *)

Inv == TypeOK /\ IInv

LEMMA InvInit == Init => Inv
<1> SUFFICES ASSUME Init
             PROVE  Inv
    OBVIOUS
<1>1. TypeOK
      BY ConstantFacts DEF Init, TypeOK, Entry
<1>2. \A n \in Names : Entries(n) = {None}
      BY ConstantFacts DEF Init, Entries
<1>3. TokensOf(None) = {} /\ Valid(None)
      BY DEF TokensOf, Valid
<1>4. JobIsConsistent /\ HistoryIsConsistent /\ RestartIsTransparent
      BY DEF Init, JobIsConsistent, HistoryIsConsistent, RestartIsTransparent
<1>5. EntriesAreSound /\ EntriesAreSeparate /\ IssuedIsEverywhere
      BY <1>2, <1>3 DEF Init, EntriesAreSound, EntriesAreSeparate, IssuedIsEverywhere
<1>6. QED
      BY <1>1, <1>4, <1>5 DEF Inv, IInv

\* A running server's table is one of the entries.
LEMMA InvTable ==
    ASSUME Inv, up
    PROVE  TableIsSound /\ \A n \in Names : mem[n] \in Entries(n)
BY DEF Inv, IInv, EntriesAreSound, TableIsSound, Entries

\* A step that turns no entry into one that was not there, generates no token and
\* records no removal keeps what is said of the entries.
LEMMA ShrinkingEntries ==
    ASSUME Inv, UNCHANGED <<used, issued, doomed, revoked, lost>>,
           \A n \in Names : Entries(n)' \subseteq Entries(n)
    PROVE  EntriesAreSound' /\ EntriesAreSeparate' /\ IssuedIsEverywhere'
<1> USE DEF Inv, IInv
<1>1. EntriesAreSound'
      BY DEF EntriesAreSound, Valid, TokensOf
<1>2. EntriesAreSeparate'
      BY DEF EntriesAreSeparate, TokensOf
<1>3. IssuedIsEverywhere'
      BY DEF IssuedIsEverywhere, TokensOf
<1>4. QED
      BY <1>1, <1>2, <1>3

LEMMA MutationStep ==
    ASSUME Inv, NEW n \in Names, NEW e, NEW t, Mutation(n, e, t)
    PROVE  Inv'
<1> USE DEF Inv, IInv
<1>1. /\ up /\ jpc = "idle" /\ jname = None
      /\ e \in Entry /\ Valid(e)
      /\ TokensOf(e) \subseteq TokensOf(mem[n]) \cup ({t} \ {None})
      /\ t = None \/ (t \in (Tokens \ used) \cap TokensOf(e))
      /\ jpc' = "write" /\ jname' = n /\ jnew' = e /\ jtoken' = t
      /\ used' = used \cup ({t} \ {None})
      /\ doomed' = doomed \cup (TokensOf(mem[n]) \ TokensOf(e))
      /\ UNCHANGED <<mem, disk, durable, rooted, up, issued, revoked, lost, certain>>
      BY DEF Mutation, Proper, Begin, Unlocked, JobIsConsistent, tableVars
<1>2. TokensOf(e) \subseteq Tokens /\ TokensOf(mem[n]) \subseteq Tokens
      BY DEF TokensOf
<1>3. TypeOK'
      BY <1>1, <1>2, ConstantFacts DEF TypeOK
<1>4. JobIsConsistent' /\ HistoryIsConsistent' /\ RestartIsTransparent'
      BY <1>1, ConstantFacts DEF JobIsConsistent, HistoryIsConsistent, RestartIsTransparent, TokensOf
<1>5. /\ \A m \in Names : m # n => Entries(m)' = Entries(m)
      /\ Entries(n)' = Entries(n) \cup {e}
      BY <1>1, ConstantFacts DEF Entries
<1>6. mem[n] \in Entries(n)
      BY <1>1, InvTable
<1>7. EntriesAreSound'
      BY <1>1, <1>5, <1>6 DEF EntriesAreSound, HistoryIsConsistent, Valid, TokensOf
<1>8. EntriesAreSeparate'
      BY <1>1, <1>5, <1>6 DEF EntriesAreSeparate, EntriesAreSound, TokensOf
<1>9. IssuedIsEverywhere'
      BY <1>1, <1>5, <1>6 DEF IssuedIsEverywhere, TokensOf
<1>10. QED
      BY <1>3, <1>4, <1>7, <1>8, <1>9

LEMMA WriteStep ==
    ASSUME Inv, Write
    PROVE  Inv'
<1> USE DEF Inv, IInv
<1>1. jname \in Names /\ jnew \in Entry
      BY DEF Write, TypeOK
<1>2. TypeOK'
      BY <1>1 DEF Write, TypeOK, historyVars
<1>3. JobIsConsistent' /\ HistoryIsConsistent' /\ RestartIsTransparent'
      BY <1>1 DEF Write, TypeOK, historyVars, JobIsConsistent, HistoryIsConsistent,
         RestartIsTransparent, TokensOf
<1>4. \A n \in Names : Entries(n)' \subseteq Entries(n)
      BY <1>1 DEF Write, TypeOK, Entries
<1>5. QED
      BY <1>2, <1>3, <1>4, ShrinkingEntries DEF Write, historyVars

LEMMA FailureStep ==
    ASSUME Inv, WriteFails \/ SyncFails
    PROVE  Inv'
<1> USE DEF Inv, IInv, WriteFails, SyncFails, Unlock, tableVars, historyVars
<1>1. TypeOK'
      BY ConstantFacts DEF TypeOK, Entry
<1>2. JobIsConsistent' /\ HistoryIsConsistent' /\ RestartIsTransparent'
      BY DEF TypeOK, JobIsConsistent, HistoryIsConsistent, RestartIsTransparent
<1>3. \A n \in Names : Entries(n)' \subseteq Entries(n)
      BY ConstantFacts DEF Entries
<1>4. QED
      BY <1>1, <1>2, <1>3, ShrinkingEntries

\* A success: the entry the mutation installed is the only one left.
LEMMA CommitStep ==
    ASSUME Inv, Commit
    PROVE  Inv'
<1> USE DEF Inv, IInv
<1>1. /\ up /\ jname \in Names /\ disk[jname] = jnew /\ jnew \in Entry
      /\ durable' = [n \in Names |-> {disk[n]}]
      /\ mem' = [mem EXCEPT ![jname] = jnew]
      /\ issued' = issued \cup ({jtoken} \ {None})
      /\ revoked' = revoked \cup (TokensOf(mem[jname]) \ TokensOf(jnew))
      /\ certain' = [certain EXCEPT ![jname] = TRUE]
      /\ jpc' = "idle" /\ jname' = None /\ jnew' = None /\ jtoken' = None
      /\ UNCHANGED <<disk, rooted, up, used, doomed, lost>>
      BY DEF Commit, Unlock, JobIsConsistent, TypeOK
<1>2. mem[jname] \in Entries(jname) /\ jnew \in Entries(jname) /\ TokensOf(mem[jname]) \subseteq used
      BY <1>1, InvTable DEF Entries, EntriesAreSound
<1>3. TypeOK'
      BY <1>1, <1>2, ConstantFacts DEF TypeOK, Entry, JobIsConsistent
<1>4. JobIsConsistent' /\ HistoryIsConsistent' /\ RestartIsTransparent'
      BY <1>1, <1>2 DEF TypeOK, JobIsConsistent, HistoryIsConsistent, RestartIsTransparent
<1>5. /\ \A n \in Names : Entries(n)' \subseteq Entries(n)
      /\ \A n \in Names : n = jname => Entries(n)' = {jnew}
  <2>1. \A n \in Names :
           /\ n # jname'
           /\ durable'[n] = {disk[n]}
           /\ n # jname => mem'[n] = mem[n]
           /\ n = jname => mem'[n] = jnew /\ disk[n] = jnew
        BY <1>1, ConstantFacts DEF TypeOK
  <2>2. \A n \in Names : Entries(n)' = {disk[n], mem'[n]}
        BY <1>1, <2>1 DEF Entries
  <2>3. QED
        BY <1>1, <2>1, <2>2 DEF Entries
<1>6. EntriesAreSeparate'
      BY <1>5 DEF EntriesAreSeparate, TokensOf
<1>7. EntriesAreSound'
  <2>1. SUFFICES ASSUME NEW n \in Names, NEW e \in Entries(n)'
                 PROVE  Valid(e) /\ TokensOf(e) \subseteq used /\ TokensOf(e) \cap revoked' = {}
        BY <1>1 DEF EntriesAreSound, Valid, TokensOf
  <2>2. e \in Entries(n)
        BY <1>5, <2>1
  <2>3. CASE n = jname
    <3>1. e = jnew
          BY <1>5, <2>1, <2>3
    <3>2. Valid(e) /\ TokensOf(e) \subseteq used \ revoked
          BY <2>2 DEF EntriesAreSound
    <3>3. revoked' = revoked \cup (TokensOf(mem[jname]) \ TokensOf(e))
          BY <1>1, <3>1
    <3>4. QED
          BY <3>2, <3>3
  <2>4. CASE n # jname
        BY <1>1, <1>2, <2>2, <2>4 DEF EntriesAreSound, EntriesAreSeparate
  <2>5. QED
        BY <2>3, <2>4
<1>8. IssuedIsEverywhere'
  <2>1. SUFFICES ASSUME NEW u \in issued' \ (doomed \cup lost)'
                 PROVE  \E n \in Names : \A e \in Entries(n)' : u \in TokensOf(e)
        BY DEF IssuedIsEverywhere, TokensOf
  <2>2. CASE u \in issued
    <3>1. u \notin doomed \cup lost
          BY <1>1, <2>1
    <3>2. PICK n \in Names : \A e \in Entries(n) : u \in TokensOf(e)
          BY <2>2, <3>1 DEF IssuedIsEverywhere
    <3>3. QED
          BY <1>5, <3>2
  <2>3. CASE u = jtoken /\ u # None
    <3>1. u \in TokensOf(jnew)
          BY <2>3 DEF JobIsConsistent
    <3>2. QED
          BY <1>1, <1>5, <3>1
  <2>4. QED
        BY <1>1, <2>1, <2>2, <2>3
<1>9. QED
      BY <1>3, <1>4, <1>6, <1>7, <1>8

LEMMA StopStep ==
    ASSUME Inv, Kill \/ PowerLoss
    PROVE  Inv'
<1> USE DEF Inv, IInv
<1>1. /\ up' = FALSE /\ mem' = [n \in Names |-> None]
      /\ certain' = IF jpc = "sync" THEN [certain EXCEPT ![jname] = FALSE] ELSE certain
      /\ jpc' = "idle" /\ jname' = None /\ jnew' = None /\ jtoken' = None
      /\ UNCHANGED <<rooted, used, issued, doomed, revoked, lost>>
      BY DEF Kill, PowerLoss, Stop, Unlock
<1>2. /\ \A n \in Names : disk'[n] \in durable'[n] /\ durable'[n] \subseteq durable[n]
      /\ disk' \in [Names -> Entry] /\ durable' \in [Names -> SUBSET Entry]
  <2>1. CASE Kill
        BY <2>1 DEF Kill, HistoryIsConsistent, TypeOK
  <2>2. CASE PowerLoss
        BY <2>2 DEF PowerLoss, TypeOK
  <2>3. QED
        BY <2>1, <2>2
<1>3. TypeOK'
      BY <1>1, <1>2, ConstantFacts DEF TypeOK, Entry
<1>4. JobIsConsistent' /\ HistoryIsConsistent'
      BY <1>1, <1>2 DEF JobIsConsistent, HistoryIsConsistent
<1>5. RestartIsTransparent'
      BY <1>1, <1>2 DEF RestartIsTransparent, TypeOK
<1>6. \A n \in Names : Entries(n)' \subseteq Entries(n)
      BY <1>1, <1>2, ConstantFacts DEF Entries
<1>7. QED
      BY <1>1, <1>3, <1>4, <1>5, <1>6, ShrinkingEntries

\* The directory is lost: no namespace is left, and no token that was issued is owed.
LEMMA LossStep ==
    ASSUME Inv, LoseDirectory
    PROVE  Inv'
<1> USE DEF Inv, IInv
<1>1. /\ up' = FALSE /\ mem' = [n \in Names |-> None]
      /\ disk' = [n \in Names |-> None] /\ durable' = [n \in Names |-> {None}]
      /\ certain' = IF jpc = "sync" THEN [certain EXCEPT ![jname] = FALSE] ELSE certain
      /\ jpc' = "idle" /\ jname' = None /\ jnew' = None /\ jtoken' = None
      /\ lost' = lost \cup issued
      /\ UNCHANGED <<rooted, used, issued, doomed, revoked>>
      BY DEF LoseDirectory, Stop, Unlock
<1>2. TypeOK'
      BY <1>1, ConstantFacts DEF TypeOK, Entry
<1>3. JobIsConsistent' /\ HistoryIsConsistent' /\ RestartIsTransparent'
      BY <1>1 DEF JobIsConsistent, HistoryIsConsistent, RestartIsTransparent
<1>4. \A n \in Names : Entries(n)' = {None}
      BY <1>1, ConstantFacts DEF Entries
<1>5. TokensOf(None) = {} /\ Valid(None)
      BY DEF TokensOf, Valid
<1>6. EntriesAreSound' /\ EntriesAreSeparate' /\ IssuedIsEverywhere'
      BY <1>1, <1>4, <1>5 DEF EntriesAreSound, EntriesAreSeparate, IssuedIsEverywhere,
         TokensOf, Valid
<1>7. QED
      BY <1>2, <1>3, <1>6

LEMMA SettleStep ==
    ASSUME Inv, Settle
    PROVE  Inv'
<1> USE DEF Inv, IInv, Settle, jobVars, historyVars
<1>1. TypeOK'
      BY DEF TypeOK
<1>2. JobIsConsistent' /\ HistoryIsConsistent' /\ RestartIsTransparent'
      BY DEF JobIsConsistent, HistoryIsConsistent, RestartIsTransparent, TokensOf
<1>3. \A n \in Names : Entries(n)' \subseteq Entries(n)
      BY DEF Entries
<1>4. QED
      BY <1>1, <1>2, <1>3, ShrinkingEntries

LEMMA StartStep ==
    ASSUME Inv, Start
    PROVE  Inv'
<1> USE DEF Inv, IInv, Start, jobVars, historyVars
<1>1. TypeOK'
      BY DEF TypeOK
<1>2. JobIsConsistent' /\ HistoryIsConsistent' /\ RestartIsTransparent'
      BY DEF JobIsConsistent, HistoryIsConsistent, RestartIsTransparent
<1>3. \A n \in Names : Entries(n)' \subseteq Entries(n)
      BY DEF Entries
<1>4. QED
      BY <1>1, <1>2, <1>3, ShrinkingEntries

LEMMA InvStep == Inv /\ [Next]_vars => Inv'
<1> SUFFICES ASSUME Inv, [Next]_vars
             PROVE  Inv'
    OBVIOUS
<1>1. CASE UNCHANGED vars
  <2>1. \A n \in Names : Entries(n)' = Entries(n)
        BY <1>1 DEF vars, tableVars, jobVars, Entries
  <2>2. TypeOK' /\ JobIsConsistent' /\ HistoryIsConsistent' /\ RestartIsTransparent'
        BY <1>1 DEF Inv, IInv, vars, tableVars, jobVars, historyVars, TypeOK, JobIsConsistent,
           HistoryIsConsistent, RestartIsTransparent, TokensOf
  <2>3. QED
        BY <1>1, <2>1, <2>2, ShrinkingEntries DEF Inv, IInv, vars, historyVars
<1>2. CASE Next /\ up
  <2>1. \/ \E n \in Names : \E e, t : Mutation(n, e, t)
        \/ Write \/ WriteFails \/ Commit \/ SyncFails
        \/ Kill \/ Settle \/ PowerLoss \/ LoseDirectory \/ Start
        BY <1>2, InvTable, NextSteps DEF Inv
  <2>2. QED
        BY <2>1, MutationStep, WriteStep, FailureStep, CommitStep, StopStep, LossStep,
           SettleStep, StartStep
<1>3. CASE Next /\ ~up
  <2>1. Start \/ Settle
        BY <1>3 DEF Next, Mutate, Unlocked, CreateNamespace, DeleteNamespace, RotateOwner, CreateToken,
           RevokeToken, SetIndex, SetPublicRead, Write, WriteFails, Commit, SyncFails,
           Kill, PowerLoss, LoseDirectory, Stop
  <2>2. QED
        BY <2>1, StartStep, SettleStep
<1>4. QED
      BY <1>1, <1>2, <1>3

LEMMA InvAlways == Spec => []Inv
BY InvInit, InvStep, PTL DEF Spec

\* Table and files of a namespace go together through every mutation, failure and
\* crash (persistLocked, auth.go:741-783): what is in either, or may be found after a
\* power loss, validates, lists no revoked token and no token of another namespace.
THEOREM Inductive == Spec => []IInv
<1>1. Inv => IInv
      BY DEF Inv
<1>2. QED
      BY <1>1, InvAlways, PTL

---------------------------------------------------------------------------
(* What the authorization store guarantees                                 *)

\* The state of the store stays well formed; the lock holder works on a namespace.
THEOREM Typing == Spec => []TypeOK
<1>1. Inv => TypeOK
      BY DEF Inv
<1>2. QED
      BY <1>1, InvAlways, PTL

\* NewStore (auth.go:201) never refuses files that the store has written, whatever
\* failed and whenever the machine stopped.
THEOREM RestartAlwaysLoads == Spec => []Loadable
<1>1. Inv => Loadable
      BY DEF Inv, IInv, EntriesAreSound, Entries, Loadable
<1>2. QED
      BY <1>1, InvAlways, PTL

\* An acknowledged revocation, rotation or deletion (auth.go:518-623, 498) is final.
THEOREM RevocationIsFinal == Spec => []RevokedStaysRevoked
<1>1. Inv => RevokedStaysRevoked
  <2>1. SUFFICES ASSUME Inv, NEW n \in Names, NEW e \in durable[n] \cup {mem[n], disk[n]}
                 PROVE  TokensOf(e) \cap revoked = {}
        BY DEF RevokedStaysRevoked
  <2>2. CASE e \in Entries(n)
        BY <2>1, <2>2 DEF Inv, IInv, EntriesAreSound
  <2>3. CASE e = mem[n] /\ ~up
        BY <2>1, <2>3 DEF Inv, IInv, JobIsConsistent, TokensOf
  <2>4. QED
        BY <2>1, <2>2, <2>3 DEF Entries
<1>2. QED
      BY <1>1, InvAlways, PTL

\* A token that was handed out works until somebody asks for its removal, through
\* failed mutations of its namespace and through restarts, unless a power loss takes
\* the directory of the files before it is on the disk.
THEOREM IssuedTokensSurvive == Spec => []IssuedSurvives
<1>1. Inv => IssuedSurvives
      BY DEF Inv, IInv, IssuedIsEverywhere, Entries, IssuedSurvives
<1>2. QED
      BY <1>1, InvAlways, PTL

\* A namespace whose last mutation did not fail half-way is on disk as it is served.
THEOREM RestartsAreTransparent == Spec => []RestartIsTransparent
<1>1. Inv => RestartIsTransparent
      BY DEF Inv, IInv
<1>2. QED
      BY <1>1, InvAlways, PTL
=============================================================================
