------------------------ MODULE AuthStoreTableProofs ------------------------
(***************************************************************************)
(* AuthStore implements TokenTable, for every number of namespaces, tokens *)
(* and settings, and every sequence of failures, kills and power losses.   *)
(***************************************************************************)
EXTENDS AuthStoreTable, AuthStoreProofs

---------------------------------------------------------------------------
(* Entries and their views                                                 *)

LEMMA ViewFacts ==
    ASSUME NEW e \in Entry
    PROVE  /\ View(e) \in Table!Entry
           /\ View(e) = None <=> e = None
           /\ e # None => /\ View(e).owner = e.owner
                          /\ View(e).tokens = TokensOf(e)
                          /\ View(e).settings = <<e.public, e.index>>
                          /\ View(e) = [owner |-> e.owner, tokens |-> TokensOf(e),
                                        settings |-> <<e.public, e.index>>]
           /\ \A t : Table!Lists(View(e), t) <=> t \in TokensOf(e)
<1>1. CASE e = None
      BY <1>1 DEF View, Table!Entry, Table!Lists, TokensOf
<1>2. CASE e # None
  <2>1. /\ e.owner \in Tokens /\ e.public \in BOOLEAN /\ e.index \in Indexes
        /\ TokensOf(e) \subseteq Tokens
        BY <1>2 DEF Entry, Namespace, TokensOf
  <2>2. View(e) = [owner |-> e.owner, tokens |-> TokensOf(e),
                   settings |-> <<e.public, e.index>>]
        BY <1>2 DEF View
  <2>3. View(e) \in Table!Namespace
        BY <2>1, <2>2 DEF Table!Namespace
  <2>4. QED
        BY <1>2, <2>2, <2>3, NoneIsNoRecord DEF Table!Entry, Table!Lists
<1>3. QED
      BY <1>1, <1>2

\* What the running server shows, and what a restart may show.
LEMMA ShownFacts ==
    ASSUME Inv, NEW n \in Names
    PROVE  /\ up => ShownTable[n] = View(mem[n])
           /\ ~up => ShownTable[n] = View(disk[n])
           /\ ShownAfter[n] = {View(e) : e \in durable[n]}
           /\ mem[n] \in Entry /\ disk[n] \in Entry /\ durable[n] \subseteq Entry
BY DEF Inv, TypeOK, ShownTable, ShownAfter

\* A token newToken has not generated yet is nowhere.
LEMMA NewIsFresh ==
    ASSUME Inv, up, NEW t \in Tokens \ used
    PROVE  Table!Fresh(t)
<1>1. SUFFICES ASSUME NEW n \in Names, NEW v \in ShownAfter[n] \cup {ShownTable[n]}
               PROVE  ~Table!Lists(v, t)
      BY DEF Table!Fresh
<1>2. PICK e \in durable[n] \cup {mem[n]} : v = View(e)
      BY <1>1, ShownFacts
<1>3. e \in Entry /\ e \in Entries(n)
      BY <1>2, ShownFacts, InvTable DEF Entries
<1>4. TokensOf(e) \subseteq used
      BY <1>3 DEF Inv, IInv, EntriesAreSound
<1>5. QED
      BY <1>2, <1>3, <1>4, ViewFacts

---------------------------------------------------------------------------
(* What a mutation builds, the table allows                                *)

LEMMA CreateIsLegal ==
    ASSUME Inv, NEW n \in Names, NEW t \in Tokens, CreateNamespace(n, t)
    PROVE  Table!Mutates(n, View(jnew'))
<1> DEFINE k == [u \in Tokens |-> IF u = t THEN "owner" ELSE "absent"]
           e == [owner |-> t, kind |-> k, public |-> TRUE, index |-> Default]
<1>1. up /\ mem[n] = None /\ t \notin used /\ jnew' = e
      BY DEF CreateNamespace, Unlocked, Begin
<1>2. k \in [Tokens -> Kinds] /\ \A u \in Tokens : k[u] # "absent" <=> u = t
      BY DEF Kinds
<1>3. e \in Namespace /\ e.owner = t /\ e.kind = k /\ e.public = TRUE /\ e.index = Default
      BY <1>2, ConstantFacts DEF Namespace
<1> HIDE DEF k, e
<1>4. TokensOf(e) = {t} /\ e # None /\ e \in Entry
      BY <1>2, <1>3, EntryFacts
<1>5. View(e) = [owner |-> t, tokens |-> {t}, settings |-> <<TRUE, Default>>]
      BY <1>3, <1>4, ViewFacts
<1>6. ShownTable[n] = None /\ Table!Fresh(t)
      BY <1>1, ShownFacts, NewIsFresh DEF View
<1>7. Table!Creates(n, View(e))
      BY <1>5, <1>6 DEF Table!Creates
<1>8. QED
      BY <1>1, <1>7 DEF Table!Mutates

LEMMA DeleteIsLegal ==
    ASSUME Inv, NEW n \in Names, DeleteNamespace(n)
    PROVE  Table!Mutates(n, View(jnew'))
<1>1. up /\ mem[n] # None /\ jnew' = None
      BY DEF DeleteNamespace, Unlocked, Begin
<1>2. ShownTable[n] # None
      BY <1>1, ShownFacts, ViewFacts
<1>3. QED
      BY <1>1, <1>2 DEF Table!Mutates, Table!Deletes, View

\* A namespace of the running server, and how the table shows it.
LEMMA Shown ==
    ASSUME Inv, NEW n \in Names, up, mem[n] # None
    PROVE  LET o == mem[n]
               v == ShownTable[n]
           IN  /\ o \in Namespace /\ v # None /\ v = View(o)
               /\ v = [owner |-> o.owner, tokens |-> TokensOf(o),
                       settings |-> <<o.public, o.index>>]
BY ShownFacts, ViewFacts DEF Entry

LEMMA RotateIsLegal ==
    ASSUME Inv, NEW n \in Names, NEW t \in Tokens, RotateOwner(n, t)
    PROVE  Table!Mutates(n, View(jnew'))
<1> DEFINE o == mem[n]
           k == RotatedKind(o, t)
           e == [o EXCEPT !.owner = t, !.kind = k]
           v == ShownTable[n]
<1>1. up /\ o # None /\ t \notin used /\ jnew' = e
      BY DEF RotateOwner, Unlocked, Begin
<1>2. /\ o \in Namespace /\ v # None
      /\ v = [owner |-> o.owner, tokens |-> TokensOf(o), settings |-> <<o.public, o.index>>]
      BY <1>1, Shown
<1>3. TokensOf(o) \subseteq used /\ Table!Fresh(t)
      BY <1>1, InvTable, NewIsFresh DEF TableIsSound
<1> HIDE DEF o, v
<1>4. /\ k \in [Tokens -> Kinds]
      /\ \A u \in Tokens : k[u] = IF u = t THEN "owner"
                                  ELSE IF u = o.owner THEN "absent" ELSE o.kind[u]
      BY <1>2, EntryFacts DEF RotatedKind, Kinds
<1> HIDE DEF k
<1>5. /\ e \in Namespace /\ e.owner = t /\ e.kind = k
      /\ e.public = o.public /\ e.index = o.index
      BY <1>2, <1>4 DEF Namespace
<1> HIDE DEF e
<1>6. TokensOf(e) = (TokensOf(o) \ {o.owner}) \cup {t} /\ e # None /\ e \in Entry
      BY <1>2, <1>4, <1>5, EntryFacts
<1>7. View(e) = [owner |-> t, tokens |-> (TokensOf(o) \ {o.owner}) \cup {t},
                 settings |-> <<o.public, o.index>>]
      BY <1>5, <1>6, ViewFacts
<1>8. View(e) = [owner |-> t, tokens |-> (v.tokens \ {v.owner}) \cup {t},
                 settings |-> v.settings]
      BY <1>2, <1>7
<1>9. Table!Rotates(n, View(e))
      BY <1>2, <1>3, <1>8 DEF Table!Rotates, v
<1>10. QED
       BY <1>1, <1>9 DEF Table!Mutates

LEMMA CreateTokenIsLegal ==
    ASSUME Inv, NEW n \in Names, NEW t \in Tokens, CreateToken(n, t)
    PROVE  Table!Mutates(n, View(jnew'))
<1> DEFINE o == mem[n]
           e == [o EXCEPT !.kind[t] = "sub"]
           v == ShownTable[n]
<1>1. up /\ o # None /\ t \notin used /\ jnew' = e
      BY DEF CreateToken, Unlocked, Begin
<1>2. /\ o \in Namespace /\ v # None
      /\ v = [owner |-> o.owner, tokens |-> TokensOf(o), settings |-> <<o.public, o.index>>]
      BY <1>1, Shown
<1>3. Table!Fresh(t)
      BY <1>1, NewIsFresh
<1> HIDE DEF o, v
<1>4. /\ e \in Namespace /\ e.owner = o.owner
      /\ e.public = o.public /\ e.index = o.index
      /\ \A u \in Tokens : e.kind[u] = IF u = t THEN "sub" ELSE o.kind[u]
      BY <1>2, EntryFacts DEF Namespace, Kinds
<1> HIDE DEF e
<1>5. TokensOf(e) = TokensOf(o) \cup {t} /\ e # None /\ e \in Entry
      BY <1>2, <1>4, EntryFacts
<1>6. View(e) = [owner |-> o.owner, tokens |-> TokensOf(o) \cup {t},
                 settings |-> <<o.public, o.index>>]
      BY <1>4, <1>5, ViewFacts
<1>7. View(e) = [v EXCEPT !.tokens = @ \cup {t}]
      BY <1>2, <1>6
<1>8. Table!Issues(n, View(e))
      BY <1>2, <1>3, <1>7 DEF Table!Issues, v
<1>9. QED
      BY <1>1, <1>8 DEF Table!Mutates

LEMMA RevokeIsLegal ==
    ASSUME Inv, NEW n \in Names, NEW t \in Tokens, RevokeToken(n, t)
    PROVE  Table!Mutates(n, View(jnew'))
<1> DEFINE o == mem[n]
           e == [o EXCEPT !.kind[t] = "absent"]
           v == ShownTable[n]
<1>1. up /\ o # None /\ t # o.owner /\ o.kind[t] # "absent" /\ jnew' = e
      BY DEF RevokeToken, Revocable, Unlocked, Begin
<1>2. /\ o \in Namespace /\ v # None
      /\ v = [owner |-> o.owner, tokens |-> TokensOf(o), settings |-> <<o.public, o.index>>]
      BY <1>1, Shown
<1> HIDE DEF o, v
<1>3. /\ e \in Namespace /\ e.owner = o.owner
      /\ e.public = o.public /\ e.index = o.index
      /\ \A u \in Tokens : e.kind[u] = IF u = t THEN "absent" ELSE o.kind[u]
      BY <1>2, EntryFacts DEF Namespace, Kinds
<1> HIDE DEF e
<1>4. TokensOf(e) = TokensOf(o) \ {t} /\ t \in TokensOf(o) /\ e # None /\ e \in Entry
      BY <1>1, <1>2, <1>3, EntryFacts
<1>5. View(e) = [owner |-> o.owner, tokens |-> TokensOf(o) \ {t},
                 settings |-> <<o.public, o.index>>]
      BY <1>3, <1>4, ViewFacts
<1>6. View(e) = [v EXCEPT !.tokens = @ \ {t}]
      BY <1>2, <1>5
<1>7. t \in v.tokens \ {v.owner}
      BY <1>1, <1>2, <1>4
<1>8. Table!Revokes(n, View(e))
      BY <1>2, <1>6, <1>7 DEF Table!Revokes, v
<1>9. QED
      BY <1>1, <1>8 DEF Table!Mutates

LEMMA SettingsAreLegal ==
    ASSUME Inv, NEW n \in Names,
           \/ \E i \in Indexes : SetIndex(n, i)
           \/ \E p \in BOOLEAN : SetPublicRead(n, p)
    PROVE  Table!Mutates(n, View(jnew'))
<1> DEFINE o == mem[n]
           e == jnew'
           v == ShownTable[n]
<1>1. up /\ o # None
      BY DEF SetIndex, SetPublicRead, Unlocked
<1>2. /\ o \in Namespace /\ v # None
      /\ v = [owner |-> o.owner, tokens |-> TokensOf(o), settings |-> <<o.public, o.index>>]
      BY <1>1, Shown
<1>3. PICK s \in BOOLEAN \X Indexes :
          /\ s # <<o.public, o.index>>
          /\ e \in Namespace /\ e.owner = o.owner /\ e.kind = o.kind
          /\ s = <<e.public, e.index>>
  <2>1. ASSUME NEW i \in Indexes, SetIndex(n, i)
        PROVE  /\ e \in Namespace /\ e.owner = o.owner /\ e.kind = o.kind
               /\ e.public = o.public /\ e.index # o.index
    <3>1. e = [o EXCEPT !.index = i] /\ o.index # i
          BY <2>1 DEF SetIndex, Begin
    <3> HIDE DEF o, e
    <3>2. QED
          BY <1>2, <3>1 DEF Namespace
  <2>2. ASSUME NEW p \in BOOLEAN, SetPublicRead(n, p)
        PROVE  /\ e \in Namespace /\ e.owner = o.owner /\ e.kind = o.kind
               /\ e.public # o.public /\ e.index = o.index
    <3>1. e = [o EXCEPT !.public = p] /\ o.public # p
          BY <2>2 DEF SetPublicRead, Begin
    <3> HIDE DEF o, e
    <3>2. QED
          BY <1>2, <3>1 DEF Namespace
  <2>3. /\ e \in Namespace /\ e.owner = o.owner /\ e.kind = o.kind
        /\ <<e.public, e.index>> # <<o.public, o.index>>
        BY <2>1, <2>2
  <2> HIDE DEF o, e
  <2>4. <<e.public, e.index>> \in BOOLEAN \X Indexes
        BY <2>3 DEF Namespace
  <2>5. QED
        BY <2>3, <2>4
<1> HIDE DEF o, e, v
<1>4. TokensOf(e) = TokensOf(o) /\ e # None /\ e \in Entry
  <2>1. e \in Namespace /\ o \in Namespace /\ e.kind = o.kind
        BY <1>2, <1>3
  <2>2. TokensOf(e) = {t \in Tokens : e.kind[t] # "absent"}
        BY <2>1, EntryFacts
  <2>3. TokensOf(o) = {t \in Tokens : o.kind[t] # "absent"}
        BY <2>1, EntryFacts
  <2>4. QED
        BY <2>1, <2>2, <2>3, EntryFacts
<1>5. View(e) = [owner |-> o.owner, tokens |-> TokensOf(o), settings |-> s]
      BY <1>3, <1>4, ViewFacts
<1>6. View(e) = [v EXCEPT !.settings = s] /\ s # v.settings
      BY <1>2, <1>3, <1>5
<1>7. Table!Configures(n, View(e))
      BY <1>2, <1>3, <1>6 DEF Table!Configures, v
<1>8. QED
      BY <1>7 DEF Table!Mutates, e

---------------------------------------------------------------------------
(* Steps of the store are steps of the table                               *)

\* A step that leaves what the clients see, and what a restart may show them.
Unseen == UNCHANGED <<ShownTable, ShownAfter, up>>

LEMMA BeginStep ==
    ASSUME Inv, NEW n \in Names, NEW e, NEW t, Unlocked, Begin(n, e, t)
    PROVE  Unseen /\ rooted' = rooted /\ jpc = "idle" /\ jpc' = "write" /\ jname' = n
BY DEF Unseen, Unlocked, Begin, tableVars, ShownTable, ShownAfter

LEMMA LegalBegin ==
    ASSUME Inv, NEW n \in Names,
           \/ \E t \in Tokens : \/ CreateNamespace(n, t) \/ RotateOwner(n, t)
                               \/ CreateToken(n, t) \/ RevokeToken(n, t)
           \/ DeleteNamespace(n)
           \/ \E i \in Indexes : SetIndex(n, i)
           \/ \E p \in BOOLEAN : SetPublicRead(n, p)
    PROVE  /\ Unseen /\ rooted' = rooted /\ jpc = "idle" /\ jpc' = "write" /\ jname' = n
           /\ Table!Mutates(n, View(jnew'))
<1>1. \E e, t : Unlocked /\ Begin(n, e, t)
      BY DEF CreateNamespace, RotateOwner, CreateToken, RevokeToken, DeleteNamespace,
         SetIndex, SetPublicRead
<1>2. Table!Mutates(n, View(jnew'))
      BY CreateIsLegal, RotateIsLegal, CreateTokenIsLegal, RevokeIsLegal, DeleteIsLegal,
         SettingsAreLegal
<1>3. QED
      BY <1>1, <1>2, BeginStep

\* What a step does not show does not change what is allowed.
LEMMA MutatesStays ==
    ASSUME Unseen, NEW n, NEW v
    PROVE  Table!Mutates(n, v) => Table!Mutates(n, v)'
BY DEF Unseen, Table!Mutates, Table!Creates, Table!Deletes, Table!Rotates, Table!Issues,
   Table!Revokes, Table!Configures, Table!Fresh

\* A mutation that holds the lock, or none.
Others ==
    \/ Write \/ WriteFails \/ Commit \/ SyncFails
    \/ Kill \/ PowerLoss \/ LoseDirectory \/ Start

LEMMA LegalInit == Init => WriteIsLegal
BY DEF Init, WriteIsLegal

LEMMA LegalStep ==
    ASSUME Inv, WriteIsLegal, [Next]_vars
    PROVE  WriteIsLegal'
<1>1. SUFFICES ASSUME jpc' = "write"
               PROVE  Table!Mutates(jname, View(jnew))'
      BY DEF WriteIsLegal
<1>2. PICK n, v : n = jname' /\ v = View(jnew')
      OBVIOUS
<1>3. SUFFICES Table!Mutates(n, v)'
      BY <1>2 DEF Table!Mutates, Table!Creates, Table!Deletes, Table!Rotates, Table!Issues,
         Table!Revokes, Table!Configures, View, TokensOf
<1>4. Unseen /\ Table!Mutates(n, v)
  <2>1. CASE UNCHANGED vars \/ Settle
    <3>1. UNCHANGED <<mem, disk, durable, up, jobVars>>
          BY <2>1 DEF vars, tableVars, Settle
    <3>2. n = jname /\ v = View(jnew) /\ jpc = "write"
          BY <1>1, <1>2, <3>1 DEF jobVars, View, TokensOf
    <3>3. QED
          BY <3>1, <3>2 DEF WriteIsLegal, Unseen, ShownTable, ShownAfter
  <2>2. CASE Others
        BY <1>1, <2>2 DEF Others, Write, WriteFails, Commit, SyncFails, Kill, PowerLoss,
           LoseDirectory, Start, Stop, Unlock, jobVars, Inv, IInv, JobIsConsistent
  <2>3. CASE Mutate
        BY <1>2, <2>3, LegalBegin DEF Mutate
  <2>4. QED
        BY <2>1, <2>2, <2>3 DEF Next, Others
<1>5. QED
      BY <1>4, MutatesStays

---------------------------------------------------------------------------
(* The refinement                                                          *)

LEMMA TableInit == Init => Table!Init
BY DEF Init, Table!Init, ShownTable, ShownAfter, ShownPending, View

\* The rename, or the os.Remove, is the attempt.
LEMMA WriteAttempts ==
    ASSUME Inv, WriteIsLegal, Write
    PROVE  Table!Attempt
<1>1. /\ up /\ jpc = "write" /\ jpc' = "sync" /\ jname \in Names /\ jnew \in Entry
      /\ durable' = [durable EXCEPT ![jname] = @ \cup {jnew}]
      /\ durable \in [Names -> SUBSET Entry]
      /\ UNCHANGED <<mem, rooted, up, jname, jnew>>
      BY DEF Write, Inv, TypeOK
<1> DEFINE p == [name |-> jname, entry |-> View(jnew)]
<1>2. ShownPending = None /\ ShownPending' = p
      BY <1>1 DEF ShownPending, View, TokensOf
<1>3. p \in [name: Names, entry: Table!Entry] /\ p.name = jname /\ p.entry = View(jnew)
      BY <1>1, ViewFacts
<1>4. ShownAfter' = [ShownAfter EXCEPT ![jname] = @ \cup {View(jnew)}]
  <2>1. \A n \in Names : n # jname => durable'[n] = durable[n]
        BY <1>1
  <2>2. durable'[jname] = durable[jname] \cup {jnew}
        BY <1>1
  <2>3. ShownAfter' = [n \in Names |-> {View(e) : e \in durable'[n]}]
        BY DEF ShownAfter, View, TokensOf
  <2>4. \A n \in Names : n # jname => ShownAfter'[n] = ShownAfter[n]
        BY <2>1, <2>3 DEF ShownAfter
  <2>5. ShownAfter'[jname] = ShownAfter[jname] \cup {View(jnew)}
        BY <1>1, <2>2, <2>3 DEF ShownAfter
  <2>6. /\ ShownAfter = [n \in Names |-> ShownAfter[n]]
        /\ ShownAfter' = [n \in Names |-> ShownAfter'[n]]
        BY <2>3 DEF ShownAfter
  <2>7. QED
        BY <1>1, <2>4, <2>5, <2>6
<1>5. UNCHANGED ShownTable
      BY <1>1 DEF ShownTable, View, TokensOf
<1>6. Table!Mutates(jname, View(jnew))
      BY <1>1 DEF WriteIsLegal
<1> HIDE DEF p
<1>7. /\ ShownPending' \in [name: Names, entry: Table!Entry]
      /\ Table!Mutates(ShownPending'.name, ShownPending'.entry)
      /\ ShownAfter' = [ShownAfter EXCEPT ![ShownPending'.name] = @ \cup {ShownPending'.entry}]
      BY <1>2, <1>3, <1>4, <1>6
<1>8. QED
      BY <1>1, <1>2, <1>5, <1>7 DEF Table!Attempt

\* A directory entry of n that may be left is one that might have been left before.
LEMMA Narrowing ==
    ASSUME Inv, durable' \in [Names -> SUBSET Entry],
           \A n \in Names : durable'[n] # {} /\ durable'[n] \subseteq durable[n]
    PROVE  ShownAfter' \in [Names -> SUBSET Table!Entry] /\ Table!Narrows
<1>1. \A n \in Names : ShownAfter'[n] = {View(e) : e \in durable'[n]}
      BY DEF ShownAfter, View, TokensOf
<1>2. \A n \in Names : ShownAfter'[n] \in SUBSET Table!Entry
      BY <1>1, ViewFacts
<1>3. ShownAfter' \in [Names -> SUBSET Table!Entry]
      BY <1>2 DEF ShownAfter
<1>4. \A n \in Names : ShownAfter'[n] # {} /\ ShownAfter'[n] \subseteq ShownAfter[n]
      BY <1>1, ShownFacts
<1>5. QED
      BY <1>3, <1>4 DEF Table!Narrows

LEMMA CommitSucceeds ==
    ASSUME Inv, Commit
    PROVE  Table!Succeed
<1>1. /\ up /\ jpc = "sync" /\ jpc' = "idle" /\ jname \in Names /\ jnew \in Entry
      /\ disk[jname] = jnew /\ rooted' = rooted /\ up' = up
      /\ durable' = [n \in Names |-> {disk[n]}]
      /\ mem' = [mem EXCEPT ![jname] = jnew] /\ mem \in [Names -> Entry]
      /\ \A n \in Names : disk[n] \in durable[n] /\ disk[n] \in Entry
      BY DEF Commit, Unlock, Inv, IInv, TypeOK, JobIsConsistent, HistoryIsConsistent
<1> DEFINE p == [name |-> jname, entry |-> View(jnew)]
<1>2. ShownPending' = None /\ ShownPending = p
      BY <1>1 DEF ShownPending
<1>3. p # None /\ p.name = jname /\ p.entry = View(jnew)
      BY <1>1, ViewFacts, NoneIsNoRecord
<1>4. ShownTable' = [ShownTable EXCEPT ![jname] = View(jnew)]
  <2>1. ShownTable = [n \in Names |-> View(mem[n])]
        BY <1>1 DEF ShownTable
  <2>2. ShownTable' = [n \in Names |-> View(mem'[n])]
        BY <1>1 DEF ShownTable, View, TokensOf
  <2>3. \A n \in Names : mem'[n] = IF n = jname THEN jnew ELSE mem[n]
        BY <1>1
  <2>4. QED
        BY <1>1, <2>1, <2>2, <2>3
<1>5. ShownAfter' \in [Names -> SUBSET Table!Entry] /\ Table!Narrows
      BY <1>1, Narrowing
<1>6. ShownAfter'[jname] = {View(jnew)}
      BY <1>1 DEF ShownAfter, View, TokensOf
<1> HIDE DEF p
<1>7. QED
      BY <1>1, <1>2, <1>3, <1>4, <1>5, <1>6 DEF Table!Succeed

LEMMA StopCrashes ==
    ASSUME Inv, Kill \/ PowerLoss
    PROVE  Table!Crash
<1>1. /\ jpc' = "idle" /\ up /\ up' = FALSE /\ rooted' = rooted
      /\ disk' \in [Names -> Entry] /\ durable' \in [Names -> SUBSET Entry]
      /\ \A n \in Names : disk'[n] \in durable'[n] /\ durable'[n] \subseteq durable[n]
  <2>1. CASE Kill
        BY <2>1 DEF Kill, Stop, Unlock, Inv, IInv, TypeOK, HistoryIsConsistent
  <2>2. CASE PowerLoss
        BY <2>2 DEF PowerLoss, Stop, Unlock, Inv, TypeOK
  <2>3. QED
        BY <2>1, <2>2
<1>2. ShownPending' = None
      BY <1>1 DEF ShownPending
<1>3. ShownTable' = [n \in Names |-> View(disk'[n])]
      BY <1>1 DEF ShownTable, View, TokensOf
<1>4. ShownTable' \in [Names -> Table!Entry]
      BY <1>1, <1>3, ViewFacts
<1>5. ShownAfter' \in [Names -> SUBSET Table!Entry] /\ Table!Narrows
      BY <1>1, Narrowing
<1>6. \A n \in Names : ShownTable'[n] \in ShownAfter'[n]
      BY <1>1, <1>3 DEF ShownAfter, View, TokensOf
<1>7. QED
      BY <1>1, <1>2, <1>4, <1>5, <1>6 DEF Table!Crash

LEMMA LossForgets ==
    ASSUME Inv, LoseDirectory
    PROVE  Table!Forget
<1>1. /\ jpc' = "idle" /\ up /\ up' = FALSE /\ ~rooted /\ rooted' = rooted
      /\ disk' = [n \in Names |-> None] /\ durable' = [n \in Names |-> {None}]
      BY DEF LoseDirectory, Stop, Unlock
<1>2. ShownPending' = None
      BY <1>1 DEF ShownPending
<1>3. View(None) = None
      BY DEF View
<1>4. ShownTable' = [n \in Names |-> None]
  <2>1. ShownTable' = [n \in Names |-> View(disk'[n])]
        BY <1>1 DEF ShownTable, View, TokensOf
  <2>2. QED
        BY <1>1, <1>3, <2>1
<1>5. ShownAfter' = [n \in Names |-> {None}]
  <2>1. ShownAfter' = [n \in Names |-> {View(e) : e \in durable'[n]}]
        BY DEF ShownAfter, View, TokensOf
  <2>2. \A n \in Names : {View(e) : e \in durable'[n]} = {None}
        BY <1>1, <1>3
  <2>3. QED
        BY <2>1, <2>2
<1>6. QED
      BY <1>1, <1>2, <1>4, <1>5 DEF Table!Forget

LEMMA SettlingSettles ==
    ASSUME Settle
    PROVE  Table!Settle
BY DEF Settle, jobVars, Table!Settle, ShownTable, ShownAfter, ShownPending, View, TokensOf

LEMMA StepImplements ==
    ASSUME Inv, WriteIsLegal, [Next]_vars
    PROVE  [Table!Next]_(Table!vars)
<1>1. CASE UNCHANGED vars
      BY <1>1 DEF vars, tableVars, jobVars, Table!vars, ShownTable, ShownAfter, ShownPending,
         View, TokensOf
<1>2. CASE Mutate
  <2>1. Unseen /\ rooted' = rooted /\ jpc = "idle" /\ jpc' = "write"
        BY <1>2, LegalBegin DEF Mutate
  <2>2. QED
        BY <2>1 DEF Unseen, ShownPending, Table!vars
<1>3. CASE Write
      BY <1>3, WriteAttempts DEF Table!Next
<1>4. CASE WriteFails
      BY <1>4 DEF WriteFails, Unlock, tableVars, Table!vars, ShownTable, ShownAfter,
         ShownPending, View, TokensOf
<1>5. CASE Commit
      BY <1>5, CommitSucceeds DEF Table!Next
<1>6. CASE SyncFails
  <2>1. Unseen /\ ShownPending' = None /\ ShownPending = [name |-> jname, entry |-> View(jnew)]
        BY <1>6 DEF SyncFails, Unlock, tableVars, Unseen, ShownTable, ShownAfter, ShownPending
  <2>2. jname \in Names /\ jnew \in Entry
        BY <1>6 DEF SyncFails, Inv, TypeOK
  <2>3. ShownPending # None
        BY <2>1, <2>2, ViewFacts, NoneIsNoRecord
  <2>4. QED
        BY <1>6, <2>1, <2>3 DEF SyncFails, tableVars, Unseen, Table!Fail, Table!Next
<1>7. CASE Kill \/ PowerLoss
      BY <1>7, StopCrashes DEF Table!Next
<1>8. CASE Start
  <2>1. jpc = "idle" /\ jpc' = "idle" /\ ~up /\ up' /\ mem' = disk
        /\ UNCHANGED <<disk, durable, rooted>>
        BY <1>8 DEF Start, jobVars, Inv, IInv, JobIsConsistent
  <2>2. QED
        BY <2>1 DEF Table!Restart, Table!Next, ShownTable, ShownAfter, ShownPending, View, TokensOf
<1>9. CASE LoseDirectory \/ Settle
      BY <1>9, LossForgets, SettlingSettles DEF Table!Next
<1>10. QED
       BY <1>1, <1>2, <1>3, <1>4, <1>5, <1>6, <1>7, <1>8, <1>9 DEF Next

\* "Atomically writes to <dir>/<ns>.json and updates the in-memory map" (auth.go:186):
\* mutations are atomic steps of one table that restarts keep, once the directory of
\* its files is on the disk, a failed mutation
\* is undone or done at the next restart, and only tokens never seen are added.
THEOREM StoreImplementsTable == Spec => ImplementsTable
<1>1. Inv /\ WriteIsLegal /\ [Next]_vars => WriteIsLegal'
      BY LegalStep
<1>2. Inv /\ WriteIsLegal /\ [Next]_vars => [Table!Next]_(Table!vars)
      BY StepImplements
<1>3. QED
      BY <1>1, <1>2, LegalInit, TableInit, InvAlways, PTL DEF Spec, ImplementsTable, Table!Spec
=============================================================================
