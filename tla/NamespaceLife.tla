--------------------------- MODULE NamespaceLife ---------------------------
(***************************************************************************)
(* One namespace of the picocdn server (internal/server/server.go) from    *)
(* its creation to its removal and the next creation under its name: the   *)
(* authorization gate in front of every request, and the two stores a      *)
(* request acts on once it has passed.                                     *)
(*                                                                         *)
(* Neither store knows the other.  The gate asks the authorization store   *)
(* its questions one at a time, each under a read lock of its own, and     *)
(* what it found is not asked again before the request acts.  Removing a   *)
(* namespace is two steps with nothing around them: the namespace leaves   *)
(* the authorization store, then its aliases leave the object store.       *)
(*                                                                         *)
(* A mutation of the authorization store is one step here: done, failed,   *)
(* or failed with its outcome left to the next start, as TokenTable says;  *)
(* AuthStore opens it up, down to the loss of the whole directory: here    *)
(* the directory of the namespace file is taken to be on the disk for      *)
(* good.  Uploads and deletes of an object take effect at one instant, as  *)
(* ObjectMap says.  Tokens never repeat, and the root tokens do not change *)
(* while the server runs.                                                  *)
(***************************************************************************)
EXTENDS Naturals, FiniteSets

CONSTANTS
    Paths,       \* object paths of the namespace
    Tokens,      \* the tokens the server may issue, in any order
    Grantable,   \* the permission sets clients ask sub-tokens for
    Requests,    \* requests served at the same time
    Unsettling,  \* bound: the mutations whose directory sync may fail
    Root,        \* a root token
    Stranger,    \* a token of no namespace
    None         \* no token, no object

Permissions == {"read", "write", "delete"}

ASSUME GrantableAssumption == Grantable \subseteq SUBSET Permissions \ {{}}
ASSUME CredentialsAssumption == Root \notin Tokens /\ Stranger \notin Tokens /\ None \notin Tokens
ASSUME DistinctAssumption == Root # Stranger /\ Root # None /\ Stranger # None

VARIABLES
    file,      \* the table in its file, as the kernel shows it
    after,     \* the tables a power loss may leave there
    live,      \* the authorization store has the namespace
    owner,     \* its owner token, None without the namespace
    grants,    \* the permissions of each token, {} for a token it does not list
    public,    \* its public_read flag
    era,       \* which creation it comes from (CreatedAt), 0 without the namespace
    births,    \* history: how often a namespace file was created
    handed,    \* history: tokens that were issued
    alias,     \* its alias files: for each object the era in which its upload was
               \* authorized, and whether it was published after that era; or None
    pc, op, token, path,   \* of each request
    status,    \* its answer
    gen,       \* history: the era that authorized the upload, or that a removal removed
    todo,      \* aliases a removal has still to unlink
    possible,  \* history: the decisions that were right at some moment of the request
    leaked     \* history: eras whose aliases were not all removed

tableVars == <<live, owner, grants, public, era, file, after>>
requestVars == <<pc, op, token, path, status, gen, todo>>
vars == <<tableVars, births, handed, alias, requestVars, possible, leaked>>

ObjectOps == {"get", "list", "put", "delete"}
RootOps == {"create", "remove", "rotate"}
AdminOps == {"issue", "revoke", "public", "index"}
GatedOps == ObjectOps \cup RootOps \cup AdminOps
\* GET or HEAD of the namespace itself, or of a path that ends with a slash.
DirectoryOps == {"root", "dir"}
Operations == GatedOps \cup DirectoryOps
\* The permission requirePermission and requireReadAccess ask for.
Needed == [get |-> "read", list |-> "read", put |-> "write", delete |-> "delete"]

GateSteps == {"public", "root", "exists", "rights"} \cup Permissions
Steps == GateSteps \cup {"idle", "index", "act", "purge", "reply"}
Statuses == {"none", "ok", "204", "400", "401", "403", "404", "409", "error"}

Stamp == [era: Nat, late: BOOLEAN]

RightsOf(t) == IF t \in Tokens THEN grants[t] ELSE {}

\* The table of the authorization store, as the gate sees it.
Table == [live |-> live, owner |-> owner, grants |-> grants, public |-> public, era |-> era]

\* What the gate should decide about operation o and token t in one look.
Decision(o, t) ==
    IF o \in RootOps
       THEN CASE t = Root -> "granted" [] t = None -> "401" [] OTHER -> "403"
    ELSE IF o = "get" /\ public THEN "granted"
    ELSE IF t = Root THEN IF live THEN "granted" ELSE "404"
    ELSE IF o \in AdminOps THEN IF t \in Tokens /\ t = owner THEN "granted" ELSE "401"
    ELSE IF Needed[o] \in RightsOf(t) THEN "granted"
    ELSE IF RightsOf(t) = {} \/ o = "get" THEN "401"
    ELSE "403"

\* What the mutations make of the table.
NoNamespace ==
    [live |-> FALSE, owner |-> None, grants |-> [u \in Tokens |-> {}], public |-> FALSE,
     era |-> 0]

Created(t) ==
    [live |-> TRUE, owner |-> t, public |-> TRUE, era |-> births + 1,
     grants |-> [u \in Tokens |-> IF u = t THEN Permissions ELSE {}]]

Rotated(t) ==
    [Table EXCEPT !.owner = t, !.grants = [grants EXCEPT ![owner] = {}, ![t] = Permissions]]

Granted(t, P) == [Table EXCEPT !.grants = [grants EXCEPT ![t] = P]]

Published(b) == [Table EXCEPT !.public = b]

Init ==
    /\ live = FALSE
    /\ owner = None
    /\ grants = [t \in Tokens |-> {}]
    /\ public = FALSE
    /\ file = NoNamespace
    /\ after = {NoNamespace}
    /\ era = 0
    /\ births = 0
    /\ handed = {}
    /\ alias = [k \in Paths |-> None]
    /\ pc = [r \in Requests |-> "idle"]
    /\ op = [r \in Requests |-> "none"]
    /\ token = [r \in Requests |-> None]
    /\ path = [r \in Requests |-> None]
    /\ status = [r \in Requests |-> "none"]
    /\ gen = [r \in Requests |-> 0]
    /\ todo = [r \in Requests |-> {}]
    /\ possible = [r \in Requests |-> {}]
    /\ leaked = {}

---------------------------------------------------------------------------
(* The gate                                                                *)

\* A request arrives with a token that was issued, a root token, another or none.
Arrive(r, o, t, k) ==
    /\ pc[r] = "idle"
    /\ t \in handed \cup {Root, Stranger, None}
    /\ k = None <=> o \notin {"get", "put", "delete"}
    /\ pc' = [pc EXCEPT ![r] = CASE o = "get" -> "public"
                                 [] o \in RootOps -> "root"
                                 [] o \in DirectoryOps -> "index"
                                 [] OTHER -> "exists"]
    /\ op' = [op EXCEPT ![r] = o]
    /\ token' = [token EXCEPT ![r] = t]
    /\ path' = [path EXCEPT ![r] = k]
    /\ possible' = [possible EXCEPT ![r] = IF o \in DirectoryOps THEN {} ELSE {Decision(o, t)}]
    /\ UNCHANGED <<tableVars, births, handed, alias, status, gen, todo, leaked>>

\* The gate's next question.
Ask(r, p) ==
    /\ pc' = [pc EXCEPT ![r] = p]
    /\ UNCHANGED <<tableVars, births, handed, alias, op, token, path, status, gen, todo,
                   possible, leaked>>

Refuse(r, s) ==
    /\ pc' = [pc EXCEPT ![r] = "reply"]
    /\ status' = [status EXCEPT ![r] = s]
    /\ token' = [token EXCEPT ![r] = None]
    /\ op' = [op EXCEPT ![r] = "none"]
    /\ path' = [path EXCEPT ![r] = None]
    /\ possible' = [possible EXCEPT ![r] = {}]
    /\ UNCHANGED <<tableVars, births, handed, alias, gen, todo, leaked>>

Grant(r) ==
    /\ pc' = [pc EXCEPT ![r] = "act"]
    /\ gen' = IF op[r] = "put" THEN [gen EXCEPT ![r] = era] ELSE gen
    /\ token' = [token EXCEPT ![r] = None]
    /\ possible' = [possible EXCEPT ![r] = {}]
    /\ UNCHANGED <<tableVars, births, handed, alias, op, path, status, todo, leaked>>

\* dispatchObject turns a GET of a directory into another operation, whose gate is next.
Becomes(r, o, k, p) ==
    /\ pc' = [pc EXCEPT ![r] = p]
    /\ op' = [op EXCEPT ![r] = o]
    /\ path' = [path EXCEPT ![r] = k]
    /\ possible' = [possible EXCEPT ![r] = {Decision(o, token[r])}]
    /\ UNCHANGED <<tableVars, births, handed, alias, token, status, gen, todo, leaked>>

\* tryServeIndex: IndexFile, which SetIndex may have changed at any time, names an
\* object that HasAlias finds.
TryServeIndex(r, k) ==
    /\ pc[r] = "index"
    /\ alias[k] # None
    /\ Becomes(r, "get", k, "public")

\* The index is disabled, or HasAlias finds no such object: a listing of the namespace.
ListRoot(r) ==
    /\ pc[r] = "index"
    /\ op[r] = "root"
    /\ Becomes(r, "list", None, "exists")

NoIndex(r) ==
    /\ pc[r] = "index"
    /\ op[r] = "dir"
    /\ Refuse(r, "404")

\* requireReadAccess: IsPublicRead.
ReadPublic(r) ==
    /\ pc[r] = "public"
    /\ IF public THEN Grant(r) ELSE Ask(r, "exists")

\* requireRoot.
RequireRoot(r) ==
    /\ pc[r] = "root"
    /\ CASE token[r] = Root -> Grant(r)
         [] token[r] = None -> Refuse(r, "401")
         [] OTHER -> Refuse(r, "403")

\* Variant: a missing namespace is a 404 for every caller.
ExistsForAll(r) ==
    /\ pc[r] = "exists"
    /\ CASE token[r] = None -> Refuse(r, "401")
         [] token[r] = Root -> IF live THEN Grant(r) ELSE Refuse(r, "404")
         [] OTHER -> IF live THEN Ask(r, "rights") ELSE Refuse(r, "404")

\* AuthorizeRoot, whose answer never changes, and HasNamespace.
Exists(r) ==
    /\ pc[r] = "exists"
    /\ CASE token[r] = None -> Refuse(r, "401")
         [] token[r] = Root -> IF live THEN Grant(r) ELSE Refuse(r, "404")
         [] OTHER -> IF live THEN Ask(r, "rights") ELSE Refuse(r, "401")

\* Authorize, or AuthorizeNamespaceAdmin.  requirePermission goes on to find out
\* whether the token is one of the namespace.
Authorize(r) ==
    /\ pc[r] = "rights"
    /\ IF op[r] \in AdminOps
          THEN IF token[r] \in Tokens /\ token[r] = owner THEN Grant(r) ELSE Refuse(r, "401")
          ELSE IF Needed[op[r]] \in RightsOf(token[r]) THEN Grant(r)
               ELSE IF op[r] = "get" THEN Refuse(r, "401") ELSE Ask(r, "read")

\* Authorize once more for each permission in turn: 403 when the token has one.
Probe(r, p) ==
    /\ pc[r] = p
    /\ IF p \in RightsOf(token[r]) THEN Refuse(r, "403")
       ELSE CASE p = "read" -> Ask(r, "write")
              [] p = "write" -> Ask(r, "delete")
              [] p = "delete" -> Refuse(r, "401")

---------------------------------------------------------------------------
(* What a granted request does                                             *)

\* The answer to a removal is looked at once more (RemovedIsGone).
Answer(r, s) ==
    /\ pc' = [pc EXCEPT ![r] = "reply"]
    /\ status' = [status EXCEPT ![r] = s]
    /\ path' = [path EXCEPT ![r] = None]
    /\ todo' = [todo EXCEPT ![r] = {}]
    /\ op' = [op EXCEPT ![r] = IF @ = "remove" THEN @ ELSE "none"]
    /\ gen' = [gen EXCEPT ![r] = IF op[r] = "remove" THEN @ ELSE 0]
    /\ UNCHANGED token

Acts(r, o) == pc[r] = "act" /\ op[r] = o

\* What was right at some moment, after a change of the table.
Observe ==
    possible' = [r \in Requests |->
        IF pc[r] \in GateSteps THEN possible[r] \cup {Decision(op[r], token[r])'} ELSE possible[r]]

\* An upload publishes its object, a delete removes it, a read or a listing reads.
Upload(r) ==
    /\ Acts(r, "put")
    /\ alias' = [alias EXCEPT ![path[r]] = [era |-> gen[r], late |-> ~(live /\ era = gen[r])]]
    /\ Answer(r, "ok")
    /\ UNCHANGED <<tableVars, births, handed, possible, leaked>>

Delete(r) ==
    /\ Acts(r, "delete")
    /\ IF alias[path[r]] = None
          THEN Answer(r, "404") /\ UNCHANGED alias
          ELSE Answer(r, "ok") /\ alias' = [alias EXCEPT ![path[r]] = None]
    /\ UNCHANGED <<tableVars, births, handed, possible, leaked>>

Read(r) ==
    /\ Acts(r, "get") \/ Acts(r, "list")
    /\ IF op[r] = "get" /\ alias[path[r]] = None THEN Answer(r, "404") ELSE Answer(r, "ok")
    /\ UNCHANGED <<tableVars, births, handed, alias, possible, leaked>>

\* The namespace is gone or there by the time the mutation has the write lock.
Missing(r) ==
    /\ pc[r] = "act"
    /\ op[r] \in RootOps \cup AdminOps
    /\ \/ op[r] = "create" /\ live /\ Answer(r, "409")
       \/ op[r] # "create" /\ ~live /\ Answer(r, "404")
    /\ UNCHANGED <<tableVars, births, handed, alias, possible, leaked>>

\* newToken: 32 random bytes, in no table and no file.
Fresh(t) == t \notin handed /\ \A e \in after : e.grants[t] = {}

\* The table becomes e.
Shows(e) ==
    /\ live' = e.live /\ owner' = e.owner
    /\ grants' = e.grants /\ public' = e.public /\ era' = e.era

\* The file is replaced and its directory synced; nothing else can come back.
Stores(e) == Shows(e) /\ file' = e /\ after' = {e}

Create(r, t) ==
    /\ Acts(r, "create")
    /\ ~live
    /\ Fresh(t)
    /\ Stores(Created(t))
    /\ births' = births + 1
    /\ handed' = handed \cup {t}
    /\ Answer(r, "ok")
    /\ UNCHANGED <<alias, leaked>>
    /\ Observe

\* DeleteNamespace; the aliases are next.
Remove(r) ==
    /\ Acts(r, "remove")
    /\ live
    /\ Stores(NoNamespace)
    /\ pc' = [pc EXCEPT ![r] = "purge"]
    /\ gen' = [gen EXCEPT ![r] = era]
    /\ todo' = [todo EXCEPT ![r] = Paths]
    /\ UNCHANGED <<births, handed, alias, op, token, path, status, leaked>>
    /\ Observe

\* DeleteNamespaceAliases, alias by alias.
Purge(r, k) ==
    /\ pc[r] = "purge"
    /\ k \in todo[r]
    /\ alias' = [alias EXCEPT ![k] = None]
    /\ todo' = [todo EXCEPT ![r] = @ \ {k}]
    /\ UNCHANGED <<tableVars, births, handed, pc, op, token, path, status, gen, possible, leaked>>

\* Variant: the removal stops at the first alias it cannot unlink.
PurgeDoneEarly(r) ==
    /\ pc[r] = "purge"
    /\ Answer(r, "204")
    /\ UNCHANGED <<tableVars, births, handed, alias, possible, leaked>>

PurgeDone(r) ==
    /\ pc[r] = "purge"
    /\ todo[r] = {}
    /\ Answer(r, "204")
    /\ UNCHANGED <<tableVars, births, handed, alias, possible, leaked>>

\* "alias cleanup failed" is logged, and the answer is the same.
PurgeFails(r) ==
    /\ pc[r] = "purge"
    /\ leaked' = leaked \cup {gen[r]}
    /\ Answer(r, "204")
    /\ UNCHANGED <<tableVars, births, handed, alias, possible>>

\* Variant: the namespace was looked up before the lock was taken.
RotateUnchecked(r, t) ==
    /\ Acts(r, "rotate")
    /\ Fresh(t)
    /\ Stores([Table EXCEPT !.owner = t, !.grants = [u \in Tokens |->
                  IF u = t THEN Permissions ELSE IF u = owner THEN {} ELSE grants[u]]])
    /\ handed' = handed \cup {t}
    /\ Answer(r, "ok")
    /\ UNCHANGED <<births, alias, leaked>>
    /\ Observe

\* Variant: a token removed by an earlier mutation may be issued again.
IssueAgain(r, t, P) ==
    /\ Acts(r, "issue")
    /\ live
    /\ t # owner
    /\ Stores(Granted(t, P))
    /\ handed' = handed \cup {t}
    /\ Answer(r, "ok")
    /\ UNCHANGED <<births, alias, leaked>>
    /\ Observe

Rotate(r, t) ==
    /\ Acts(r, "rotate")
    /\ live
    /\ Fresh(t)
    /\ Stores(Rotated(t))
    /\ handed' = handed \cup {t}
    /\ Answer(r, "ok")
    /\ UNCHANGED <<births, alias, leaked>>
    /\ Observe

Issue(r, t, P) ==
    /\ Acts(r, "issue")
    /\ live
    /\ Fresh(t)
    /\ Stores(Granted(t, P))
    /\ handed' = handed \cup {t}
    /\ Answer(r, "ok")
    /\ UNCHANGED <<births, alias, leaked>>
    /\ Observe

\* The owner's token is not revoked, nor one the namespace does not list.
Revoke(r, t) ==
    /\ Acts(r, "revoke")
    /\ live
    /\ t # owner /\ grants[t] # {}
    /\ Stores(Granted(t, {}))
    /\ Answer(r, "204")
    /\ UNCHANGED <<births, handed, alias, leaked>>
    /\ Observe

RevokeRefused(r, t) ==
    /\ Acts(r, "revoke")
    /\ live
    /\ \/ t = owner /\ Answer(r, "400")
       \/ t # owner /\ grants[t] = {} /\ Answer(r, "404")
    /\ UNCHANGED <<tableVars, births, handed, alias, possible, leaked>>

\* A value the flag has already is not written (auth.go:667).
SetPublic(r, b) ==
    /\ Acts(r, "public")
    /\ live
    /\ IF b = public THEN UNCHANGED tableVars ELSE Stores(Published(b))
    /\ Answer(r, "ok")
    /\ UNCHANGED <<births, handed, alias, leaked>>
    /\ Observe

\* The setting itself is in AuthStore; here it is whatever TryServeIndex finds.  It
\* may be written with the rest of the table, or be the same.
SetIndex(r) ==
    /\ Acts(r, "index")
    /\ live
    /\ \/ UNCHANGED <<file, after>>
       \/ file' = Table /\ after' = {Table}
    /\ Answer(r, "ok")
    /\ UNCHANGED <<live, owner, grants, public, era, births, handed, alias, possible, leaked>>

\* An I/O error, input that does not validate, a client that left: nothing has happened.
Fail(r) ==
    /\ pc[r] = "act"
    /\ Answer(r, "error")
    /\ UNCHANGED <<tableVars, births, handed, alias, possible, leaked>>

\* What the mutation of the request r may make of the file.  SetIndex writes the rest
\* of the table again, over what an earlier failure may have left there.
Outcomes(r) ==
    CASE op[r] = "create" -> {Created(t) : t \in {u \in Tokens : ~live /\ Fresh(u)}}
      [] op[r] = "remove" -> {e \in {NoNamespace} : live}
      [] op[r] = "rotate" -> {Rotated(t) : t \in {u \in Tokens : live /\ Fresh(u)}}
      [] op[r] = "issue" ->
            {Granted(t, P) : t \in {u \in Tokens : live /\ Fresh(u)}, P \in Grantable}
      [] op[r] = "revoke" ->
            {Granted(t, {}) : t \in {u \in Tokens \ {owner} : live /\ grants[u] # {}}}
      [] op[r] = "public" -> {Published(b) : b \in {a \in BOOLEAN : live /\ a # public}}
      [] op[r] = "index" -> {e \in {Table} : live}
      [] OTHER -> {}

\* syncDir fails after the file was replaced or removed: the answer is an error, the
\* table is as it was, and the next start may find either.  A new token is returned
\* to nobody, and a removal does not go on to the aliases.
FailUnsettled(r) ==
    /\ pc[r] = "act"
    /\ op[r] \in Unsettling
    /\ \E e \in Outcomes(r) : file' = e /\ after' = after \cup {e}
    /\ Answer(r, "error")
    /\ births' = IF op[r] = "create" THEN births + 1 ELSE births
    /\ UNCHANGED <<live, owner, grants, public, era, handed, alias, possible, leaked>>

Reply(r) ==
    /\ pc[r] = "reply"
    /\ pc' = [pc EXCEPT ![r] = "idle"]
    /\ op' = [op EXCEPT ![r] = "none"]
    /\ status' = [status EXCEPT ![r] = "none"]
    /\ gen' = [gen EXCEPT ![r] = 0]
    /\ UNCHANGED <<tableVars, births, handed, alias, token, path, todo, possible, leaked>>

\* The server stops.  A removal under way is not taken up again, and one that had
\* failed may turn out to have happened: then nobody removes the aliases.
Stop ==
    /\ leaked' = leaked \cup {gen[r] : r \in {q \in Requests : pc[q] = "purge"}}
                       \cup {e \in {era} : live /\ ~(live' /\ era' = era)}
    /\ pc' = [r \in Requests |-> "idle"]
    /\ op' = [r \in Requests |-> "none"]
    /\ token' = [r \in Requests |-> None]
    /\ path' = [r \in Requests |-> None]
    /\ status' = [r \in Requests |-> "none"]
    /\ gen' = [r \in Requests |-> 0]
    /\ todo' = [r \in Requests |-> {}]
    /\ possible' = [r \in Requests |-> {}]
    /\ UNCHANGED <<births, handed, alias>>

Kill ==
    /\ Shows(file)
    /\ UNCHANGED <<file, after>>
    /\ Stop

PowerLoss ==
    /\ \E e \in after : Stores(e)
    /\ Stop

Gate(r) ==
    \/ ReadPublic(r) \/ RequireRoot(r) \/ Exists(r) \/ Authorize(r)
    \/ \E p \in Permissions : Probe(r, p)

Index(r) == ListRoot(r) \/ NoIndex(r) \/ \E k \in Paths : TryServeIndex(r, k)

Act(r) ==
    \/ Upload(r) \/ Delete(r) \/ Read(r)
    \/ Missing(r) \/ Remove(r) \/ PurgeDone(r) \/ PurgeFails(r)
    \/ SetIndex(r) \/ Fail(r) \/ FailUnsettled(r)
    \/ \E b \in BOOLEAN : SetPublic(r, b)
    \/ \E k \in Paths : Purge(r, k)
    \/ \E t \in Tokens :
          \/ Create(r, t) \/ Rotate(r, t) \/ Revoke(r, t) \/ RevokeRefused(r, t)
          \/ \E P \in Grantable : Issue(r, t, P)

Next ==
    \/ \E r \in Requests :
          \/ \E o \in Operations, t \in Tokens \cup {Root, Stranger, None},
                k \in Paths \cup {None} :
                    Arrive(r, o, t, k)
          \/ Index(r) \/ Gate(r) \/ Act(r) \/ Reply(r)
    \/ Kill \/ PowerLoss

Spec == Init /\ [][Next]_vars

---------------------------------------------------------------------------
(* Properties                                                              *)

\* Only a namespace that exists has an owner, tokens and a public flag.
WellFormed(e) ==
    /\ e.owner # None => e.live /\ e.grants[e.owner] = Permissions
    /\ e.public => e.live
    /\ \A t \in Tokens : e.grants[t] # {} => e.live

TableType == [live: BOOLEAN, owner: Tokens \cup {None},
              grants: [Tokens -> SUBSET Permissions], public: BOOLEAN, era: Nat]

\* The state is well formed, and so is every table a restart may show; what requests
\* are authorized from is one of them.
TypeOK ==
    /\ live \in BOOLEAN
    /\ owner \in Tokens \cup {None}
    /\ grants \in [Tokens -> SUBSET Permissions]
    /\ public \in BOOLEAN
    /\ after \subseteq TableType
    /\ Table \in after /\ file \in after
    /\ \A e \in after : WellFormed(e)
    /\ era \in Nat
    /\ births \in Nat
    /\ handed \subseteq Tokens
    /\ alias \in [Paths -> Stamp \cup {None}]
    /\ pc \in [Requests -> Steps]
    /\ op \in [Requests -> Operations \cup {"none"}]
    /\ token \in [Requests -> Tokens \cup {Root, Stranger, None}]
    /\ path \in [Requests -> Paths \cup {None}]
    /\ status \in [Requests -> Statuses]
    /\ gen \in [Requests -> Nat]
    /\ todo \in [Requests -> SUBSET Paths]
    /\ possible \in [Requests -> SUBSET {"granted", "401", "403", "404"}]
    /\ leaked \subseteq Nat

\* The gate's answer.
Outcome(r) == IF pc[r] = "act" THEN "granted" ELSE status[r]

\* requirePermission, requireReadAccess and requireNamespaceAdmin put their answer
\* together from several looks at a table that changes in between.  It is still one
\* that was right at some moment of the request: access is granted only when one
\* table granted it, "callers without a valid scope" never see more than a 401
\* (server.go:669), and only a root token sees the 404.  A read is the exception, to
\* the safe side: it may be refused although each moment granted it, once by the
\* token and then by the public flag.
DecisionIsTimely ==
    [][\A r \in Requests :
          pc[r] \in GateSteps /\ pc'[r] \in {"act", "reply"} =>
              \/ Outcome(r)' \in possible[r]
              \/ op[r] = "get" /\ Outcome(r)' = "401"]_vars

\* An object of an earlier life of the namespace is there for a reason: its upload
\* was under way when the namespace was removed, its removal is under way or was cut
\* short by an error or a crash (server.go:436-448), or the namespace was only found to
\* be gone when the server started, after a removal that had failed (auth.go:511).
NothingLeftBehind ==
    \A k \in Paths :
        alias[k] # None /\ ~alias[k].late /\ ~(live /\ alias[k].era = era) =>
            \/ alias[k].era \in leaked
            \/ \E r \in Requests : pc[r] = "purge" /\ gen[r] = alias[k].era /\ k \in todo[r]

\* "204; alias directory is removed" (README, Admin plane): when a removal is
\* answered, no object of the namespace is left but those of a later life and those
\* whose upload outlived it.
RemovedIsGone ==
    \A r \in Requests : pc[r] = "reply" /\ op[r] = "remove" /\ status[r] = "204" =>
        \A k \in Paths : alias[k] # None => alias[k].era > gen[r] \/ alias[k].late

---------------------------------------------------------------------------
(* The inductive invariant behind these properties.                        *)

\* What the gate has learnt of the request still holds: tokens lose rights, and
\* never get any back.
GateKnows ==
    \A r \in Requests : pc[r] \in GateSteps =>
        /\ op[r] \in GatedOps
        /\ token[r] \in handed \cup {Root, Stranger, None}
        /\ Decision(op[r], token[r]) \in possible[r]
        /\ pc[r] = "root" <=> op[r] \in RootOps
        /\ pc[r] = "public" => op[r] = "get"
        /\ pc[r] \in {"rights"} \cup Permissions => token[r] # Root
        /\ pc[r] \in Permissions =>
              /\ op[r] \in {"list", "put", "delete"}
              /\ Needed[op[r]] \notin RightsOf(token[r])
              /\ pc[r] # "read" => "read" \notin RightsOf(token[r])
              /\ pc[r] = "delete" => "write" \notin RightsOf(token[r])

\* Nobody presents a token before it is issued.
TokensAreKnown == \A r \in Requests : token[r] \in handed \cup {Root, Stranger, None}

IInv == GateKnows /\ TokensAreKnown /\ NothingLeftBehind
=============================================================================
