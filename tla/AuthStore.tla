----------------------------- MODULE AuthStore -----------------------------
(***************************************************************************)
(* The authorization store of picocdn (internal/auth/auth.go): one file    *)
(* per namespace and the table the server authorizes requests from.  One   *)
(* mutation at a time holds the write lock; readers wait for it, so they   *)
(* never see its steps.  A crash does.  A mutation writes a temporary      *)
(* file, renames it over the namespace file, syncs the directory and then  *)
(* replaces the entry in memory; each of the calls may fail, and the error *)
(* return leaves behind what the calls before it did.                      *)
(*                                                                         *)
(* The directory has two faces: the entries the running kernel shows, and  *)
(* the entries a power loss may leave, which are those shown since the     *)
(* last successful sync of the directory.  Nothing syncs the directory     *)
(* above it, so until the system has written its own entry back, which it  *)
(* does in its own time, a power loss may take the directory as a whole.   *)
(***************************************************************************)
EXTENDS FiniteSets, Naturals

CONSTANTS
    Names,      \* namespaces
    Tokens,     \* the tokens newToken may generate: random, never repeated
    Indexes,    \* values of the index setting (index_file with index_disabled)
    Default,    \* its value in a new namespace
    MaxUnsettled,   \* bound: files, of all namespaces, that a power loss may leave
    None        \* "no namespace file", "no token"

ASSUME DefaultAssumption == Default \in Indexes
ASSUME NoneAssumption == None \notin Tokens /\ None \notin Names

\* A namespace file.  kind tells the tokens it lists, and whether a token holds
\* the permission set of an owner or that of a sub-token.
Kinds == {"absent", "owner", "sub"}
Namespace == [owner: Tokens, kind: [Tokens -> Kinds], public: BOOLEAN, index: Indexes]
Entry == Namespace \cup {None}

ASSUME NoEntryAssumption == None \notin Namespace

VARIABLES
    mem,        \* the map `namespaces` of the running server
    disk,       \* the namespace files
    durable,    \* for each namespace, the files a power loss may leave,
                \* if it leaves their directory
    rooted,     \* the entry of the directory is on the disk
    up,         \* the server runs
    jpc,        \* the next step of the mutation that holds the lock
    jname,      \* the namespace it is about
    jnew,       \* the entry it installs, None for a removal
    jtoken,     \* the token it issues, None when it issues none
    used,       \* history: tokens generated so far
    issued,     \* history: tokens returned by a mutation that succeeded
    doomed,     \* history: tokens some mutation has tried to remove
    revoked,    \* history: tokens removed by a mutation that succeeded
    lost,       \* history: issued tokens a power loss took with the directory
    certain     \* history: no mutation of the namespace has failed half-way
                \* since the last one that wrote it

tableVars == <<mem, disk, durable, rooted, up>>
jobVars == <<jpc, jname, jnew, jtoken>>
historyVars == <<used, issued, doomed, revoked, lost, certain>>
vars == <<tableVars, jobVars, historyVars>>

TokensOf(e) == IF e = None THEN {} ELSE {t \in Tokens : e.kind[t] # "absent"}

\* A server has started in a directory without namespaces, its own or an old one.
Init ==
    /\ mem = [n \in Names |-> None]
    /\ disk = [n \in Names |-> None]
    /\ durable = [n \in Names |-> {None}]
    /\ rooted \in BOOLEAN
    /\ up = TRUE
    /\ jpc = "idle"
    /\ jname = None
    /\ jnew = None
    /\ jtoken = None
    /\ used = {}
    /\ issued = {}
    /\ doomed = {}
    /\ revoked = {}
    /\ lost = {}
    /\ certain = [n \in Names |-> TRUE]

---------------------------------------------------------------------------
(* Mutations: lock, check, build the new entry                             *)

\* A mutation of n that passed its checks: it will install e and return token t.
Begin(n, e, t) ==
    /\ jpc' = "write"
    /\ jname' = n
    /\ jnew' = e
    /\ jtoken' = t
    /\ used' = used \cup ({t} \ {None})
    /\ doomed' = doomed \cup (TokensOf(mem[n]) \ TokensOf(e))
    /\ UNCHANGED <<tableVars, issued, revoked, lost, certain>>

Unlocked == up /\ jpc = "idle"

\* Public by default.
CreateNamespace(n, t) ==
    /\ Unlocked
    /\ mem[n] = None
    /\ t \notin used
    /\ Begin(n, [owner |-> t, kind |-> [u \in Tokens |-> IF u = t THEN "owner" ELSE "absent"],
                 public |-> TRUE, index |-> Default], t)

DeleteNamespace(n) ==
    /\ Unlocked
    /\ mem[n] # None
    /\ Begin(n, None, None)

\* Variant: the old owner's token stays in the list.
RotatedKindKeepingOwner(e, t) == [e.kind EXCEPT ![t] = "owner"]

\* The new token list drops the token whose ID is the owner's.
RotatedKind(e, t) == [e.kind EXCEPT ![e.owner] = "absent", ![t] = "owner"]

RotateOwner(n, t) ==
    /\ Unlocked
    /\ mem[n] # None
    /\ t \notin used
    /\ Begin(n, [mem[n] EXCEPT !.owner = t, !.kind = RotatedKind(mem[n], t)], t)

\* Variant: a token is issued twice.
CreateTokenAgain(n, t) ==
    /\ Unlocked
    /\ mem[n] # None
    /\ Begin(n, [mem[n] EXCEPT !.kind[t] = "sub"], t)

CreateToken(n, t) ==
    /\ Unlocked
    /\ mem[n] # None
    /\ t \notin used
    /\ Begin(n, [mem[n] EXCEPT !.kind[t] = "sub"], t)

\* ErrCannotRevokeOwner and ErrTokenNotFound change nothing.
Revocable(e, t) == t # e.owner /\ e.kind[t] # "absent"

RevokeToken(n, t) ==
    /\ Unlocked
    /\ mem[n] # None
    /\ Revocable(mem[n], t)
    /\ Begin(n, [mem[n] EXCEPT !.kind[t] = "absent"], None)

\* The value the table has already is acknowledged at once: see AuthStoreAcks.
SetIndex(n, i) ==
    /\ Unlocked
    /\ mem[n] # None
    /\ mem[n].index # i
    /\ Begin(n, [mem[n] EXCEPT !.index = i], None)

\* The same holds for the public flag.
SetPublicRead(n, p) ==
    /\ Unlocked
    /\ mem[n] # None
    /\ mem[n].public # p
    /\ Begin(n, [mem[n] EXCEPT !.public = p], None)

---------------------------------------------------------------------------
(* persistLocked, or os.Remove and syncDir                                 *)

\* Variant: an error return that does not release the lock.
UnlockForgotten ==
    /\ jnew' = None
    /\ jname' = None
    /\ jtoken' = None
    /\ UNCHANGED jpc

\* The lock is released, with or without success.
Unlock ==
    /\ jpc' = "idle"
    /\ jnew' = None
    /\ jname' = None
    /\ jtoken' = None

\* Variant: the table is changed first, and not changed back.
WriteFailsLate ==
    /\ up /\ jpc = "write"
    /\ Unlock
    /\ mem' = [mem EXCEPT ![jname] = jnew]
    /\ UNCHANGED <<disk, durable, rooted, up, historyVars>>

\* The temporary file, its sync or the rename (the os.Remove) fails.
WriteFails ==
    /\ up /\ jpc = "write"
    /\ Unlock
    /\ UNCHANGED <<tableVars, historyVars>>

\* Variant: the old file is removed before the new one takes its name.
WriteInPlace ==
    /\ up /\ jpc = "write"
    /\ disk' = [disk EXCEPT ![jname] = jnew]
    /\ durable' = [durable EXCEPT ![jname] = @ \cup {None, jnew}]
    /\ jpc' = "sync"
    /\ UNCHANGED <<mem, rooted, up, jname, jnew, jtoken, historyVars>>

\* The rename replaces the file in one step; the os.Remove removes it.  Until the
\* directory is synced a power loss may bring back any earlier entry.
Write ==
    /\ up /\ jpc = "write"
    /\ disk' = [disk EXCEPT ![jname] = jnew]
    /\ durable' = [durable EXCEPT ![jname] = @ \cup {jnew}]
    /\ Cardinality(UNION {{n} \X durable'[n] : n \in Names}) <= MaxUnsettled
    /\ jpc' = "sync"
    /\ UNCHANGED <<mem, rooted, up, jname, jnew, jtoken, historyVars>>

\* Variant: the table is changed before the sync, and keeps what failed.
SyncFailsLate ==
    /\ up /\ jpc = "sync"
    /\ mem' = [mem EXCEPT ![jname] = jnew]
    /\ Unlock
    /\ certain' = [certain EXCEPT ![jname] = FALSE]
    /\ UNCHANGED <<disk, durable, rooted, up, used, issued, doomed, revoked, lost>>

\* syncDir fails: an error return with the file already replaced.
SyncFails ==
    /\ up /\ jpc = "sync"
    /\ Unlock
    /\ certain' = [certain EXCEPT ![jname] = FALSE]
    /\ UNCHANGED <<tableVars, used, issued, doomed, revoked, lost>>

\* Variant: the directory is not synced.
CommitUnsynced ==
    /\ up /\ jpc = "sync"
    /\ mem' = [mem EXCEPT ![jname] = jnew]
    /\ issued' = issued \cup ({jtoken} \ {None})
    /\ revoked' = revoked \cup (TokensOf(mem[jname]) \ TokensOf(jnew))
    /\ certain' = [certain EXCEPT ![jname] = TRUE]
    /\ Unlock
    /\ UNCHANGED <<disk, durable, rooted, up, used, doomed, lost>>

\* syncDir makes every entry of the directory durable; the table follows.
Commit ==
    /\ up /\ jpc = "sync"
    /\ durable' = [n \in Names |-> {disk[n]}]
    /\ mem' = [mem EXCEPT ![jname] = jnew]
    /\ issued' = issued \cup ({jtoken} \ {None})
    /\ revoked' = revoked \cup (TokensOf(mem[jname]) \ TokensOf(jnew))
    /\ certain' = [certain EXCEPT ![jname] = TRUE]
    /\ Unlock
    /\ UNCHANGED <<disk, rooted, up, used, doomed, lost>>

---------------------------------------------------------------------------
(* Stops and starts                                                        *)

\* A mutation cut off after its rename may survive or not, like a failed one.
Stop ==
    /\ up
    /\ up' = FALSE
    /\ mem' = [n \in Names |-> None]
    /\ certain' = IF jpc = "sync" THEN [certain EXCEPT ![jname] = FALSE] ELSE certain
    /\ Unlock
    /\ UNCHANGED <<used, issued, doomed, revoked>>

\* The process ends; the file system does not.
Kill == Stop /\ UNCHANGED <<disk, durable, rooted, lost>>

\* The machine stops: each namespace file is one of those that may be left.
PowerLoss ==
    /\ rooted
    /\ Stop
    /\ disk' \in [Names -> UNION {durable[n] : n \in Names}]
    /\ \A n \in Names : disk'[n] \in durable[n]
    /\ durable' = [n \in Names |-> {disk'[n]}]
    /\ UNCHANGED <<rooted, lost>>

\* The system writes the entry of the directory back.
Settle ==
    /\ ~rooted
    /\ rooted' = TRUE
    /\ UNCHANGED <<mem, disk, durable, up, jobVars, historyVars>>

\* The machine stops before that: the directory is gone, and all namespaces with it.
LoseDirectory ==
    /\ ~rooted
    /\ Stop
    /\ disk' = [n \in Names |-> None]
    /\ durable' = [n \in Names |-> {None}]
    /\ lost' = lost \cup issued
    /\ UNCHANGED rooted

\* validateNamespaceFile: exactly one token has the owner permission, and it is
\* the one owner_token_id names.
Valid(e) == e # None => {t \in Tokens : e.kind[t] = "owner"} = {e.owner}

\* NewStore: it makes the directory if there is none; the server refuses to start on a file that does not validate.
Start ==
    /\ ~up
    /\ \A n \in Names : Valid(disk[n])
    /\ up' = TRUE
    /\ mem' = disk
    /\ UNCHANGED <<disk, durable, rooted, jobVars, historyVars>>

Mutate ==
    \/ \E n \in Names, t \in Tokens :
          \/ CreateNamespace(n, t) \/ RotateOwner(n, t)
          \/ CreateToken(n, t) \/ RevokeToken(n, t)
    \/ \E n \in Names : DeleteNamespace(n)
    \/ \E n \in Names, i \in Indexes : SetIndex(n, i)
    \/ \E n \in Names, p \in BOOLEAN : SetPublicRead(n, p)

Next ==
    \/ Mutate
    \/ Write \/ WriteFails \/ Commit \/ SyncFails
    \/ Kill \/ Settle \/ PowerLoss \/ LoseDirectory \/ Start

Spec == Init /\ [][Next]_vars

---------------------------------------------------------------------------
(* Properties                                                              *)

\* The state is well formed; a mutation that has begun has its namespace.
TypeOK ==
    /\ mem \in [Names -> Entry]
    /\ disk \in [Names -> Entry]
    /\ durable \in [Names -> SUBSET Entry]
    /\ rooted \in BOOLEAN
    /\ up \in BOOLEAN
    /\ jpc \in {"idle", "write", "sync"}
    /\ jname \in Names \cup {None}
    /\ jpc # "idle" => jname \in Names
    /\ jnew \in Entry
    /\ jtoken \in Tokens \cup {None}
    /\ used \subseteq Tokens
    /\ issued \subseteq Tokens
    /\ doomed \subseteq Tokens
    /\ revoked \subseteq Tokens
    /\ lost \subseteq issued
    /\ certain \in [Names -> BOOLEAN]

\* Fail-fast loading (auth.go:201) never locks the operator out: whatever mutations
\* succeeded or failed, every file a crash may leave passes validateNamespaceFile.
Loadable == \A n \in Names : Valid(disk[n]) /\ \A e \in durable[n] : Valid(e)

\* A token whose removal (revoke, rotation, namespace deletion) was acknowledged is
\* never accepted again, by this server or after any crash and restart, although a
\* failed mutation may have left files that still list it.
RevokedStaysRevoked ==
    \A n \in Names : \A e \in durable[n] \cup {mem[n], disk[n]} : TokensOf(e) \cap revoked = {}

\* A token that was returned to its client, and that nobody tried to remove, is
\* accepted by the running server and is in every file a crash may leave, unless a
\* power loss takes the whole directory, which nothing has synced (auth.go:223).
IssuedSurvives ==
    \A t \in issued \ (doomed \cup lost) : \E n \in Names :
        /\ up => t \in TokensOf(mem[n])
        /\ \A e \in durable[n] \cup {disk[n]} : t \in TokensOf(e)

\* The table and the file of a namespace go together (auth.go:185): unless its last
\* mutation failed after the rename, a restart shows what the server serves now, if
\* its directory is left.
RestartIsTransparent ==
    \A n \in Names : certain[n] /\ ~(jpc = "sync" /\ jname = n) =>
        durable[n] = {disk[n]} /\ (up => mem[n] = disk[n])

---------------------------------------------------------------------------
(* The inductive invariant behind these properties.                        *)

\* What the namespace n is, may become, or may be found to be after a crash.
Entries(n) ==
    durable[n] \cup {disk[n]} \cup {e \in {mem[n]} : up} \cup {e \in {jnew} : jname = n}

EntriesAreSound ==
    \A n \in Names : \A e \in Entries(n) : Valid(e) /\ TokensOf(e) \subseteq used \ revoked

\* A token belongs to one namespace.
EntriesAreSeparate ==
    \A m, n \in Names : m # n =>
        \A d \in Entries(m), e \in Entries(n) : TokensOf(d) \cap TokensOf(e) = {}

IssuedIsEverywhere ==
    \A t \in issued \ (doomed \cup lost) : \E n \in Names : \A e \in Entries(n) : t \in TokensOf(e)

JobIsConsistent ==
    /\ ~up => jpc = "idle" /\ \A n \in Names : mem[n] = None
    /\ jpc = "idle" <=> jname = None
    /\ jpc = "sync" => disk[jname] = jnew
    /\ jtoken # None => jtoken \in TokensOf(jnew) \cap used

HistoryIsConsistent == revoked \subseteq used /\ \A n \in Names : disk[n] \in durable[n]

IInv ==
    /\ JobIsConsistent /\ HistoryIsConsistent
    /\ EntriesAreSound /\ EntriesAreSeparate
    /\ IssuedIsEverywhere /\ RestartIsTransparent
=============================================================================
