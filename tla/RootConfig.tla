----------------------------- MODULE RootConfig -----------------------------
(***************************************************************************)
(* The root configuration of picocdn: config.json with the root tokens and *)
(* the source directory (cmd/picocdn/config.go), and the commands that     *)
(* change it (root.go, config.go, service.go).  Every command is a process *)
(* of its own that reads the file, decides, and writes all of it back: a   *)
(* temporary file, a rename, a sync of the directory, and only then the    *)
(* answer on the terminal.  Nothing locks the file in between, and nothing *)
(* syncs the directory above: that of the file is made by the first        *)
(* command, and a power loss may take it until the system has written its  *)
(* entry back.                                                             *)
(*                                                                         *)
(* A command that refuses (a root token is there already, the last one     *)
(* would go, no such token) writes nothing and is left out.                *)
(***************************************************************************)
EXTENDS FiniteSets

CONSTANTS
    Commands,   \* command processes at work at the same time
    Roots,      \* root tokens NewRootToken may generate; they never repeat
    Sources,    \* values of source_dir
    NoSource,   \* the empty source_dir
    Absent,     \* there is no config.json
    None        \* the command is about no token

ASSUME SourceAssumption == NoSource \in Sources
ASSUME NoneAssumption == None \notin Roots

Config == [roots: SUBSET Roots, source: Sources]

ASSUME AbsentAssumption == Absent \notin Config

VARIABLES
    file,      \* config.json
    durable,   \* what a power loss may leave of it, if it leaves its directory
    rooted,    \* the entry of its directory is on the disk
    pc,        \* what each command does next
    cmd,       \* which command it is
    read,      \* the file it has read
    view,      \* the configuration it is going to write
    token,     \* the token it is about
    used,      \* history: tokens generated so far
    printed,   \* history: tokens a command has printed
    doomed,    \* history: tokens a command has tried to revoke
    revoked,   \* history: tokens a command has reported revoked
    lost,      \* history: printed tokens a power loss took with their directory
    undone,    \* history: tokens whose creation or revocation a later rename overlooked
    blanked    \* history: a configuration read before there were tokens replaced them

fileVars == <<file, durable, rooted>>
commandVars == <<pc, cmd, read, view, token>>
overlapVars == <<undone, blanked>>
historyVars == <<used, printed, doomed, revoked, lost, overlapVars>>
vars == <<fileVars, commandVars, historyVars>>

Issuing == {"init", "create"}

Blank == [roots |-> {}, source |-> NoSource]

RootsOf(e) == IF e = Absent THEN {} ELSE e.roots

\* There is no configuration yet; its directory may be there or not.
Init ==
    /\ file = Absent
    /\ durable = {Absent}
    /\ rooted \in BOOLEAN
    /\ pc = [c \in Commands |-> "idle"]
    /\ cmd = [c \in Commands |-> "none"]
    /\ read = [c \in Commands |-> Absent]
    /\ view = [c \in Commands |-> Absent]
    /\ token = [c \in Commands |-> None]
    /\ used = {}
    /\ printed = {}
    /\ doomed = {}
    /\ revoked = {}
    /\ lost = {}
    /\ undone = {}
    /\ blanked = FALSE

---------------------------------------------------------------------------
(* Read and decide                                                         *)

\* A file that is not there is an empty configuration.
ConfigOf(e) == IF e = Absent THEN Blank ELSE e

\* loadConfig.
Loaded == ConfigOf(file)

\* The command will write e.
Begin(c, o, e, t) ==
    /\ pc[c] = "idle"
    /\ pc' = [pc EXCEPT ![c] = "save"]
    /\ cmd' = [cmd EXCEPT ![c] = o]
    /\ read' = [read EXCEPT ![c] = file]
    /\ view' = [view EXCEPT ![c] = e]
    /\ token' = [token EXCEPT ![c] = t]
    /\ UNCHANGED <<fileVars, printed, revoked, lost, overlapVars>>

\* Variant: the token is not kept for the answer.
RunInitMute(c, t) ==
    /\ Loaded.roots = {}
    /\ t \notin used
    /\ Begin(c, "init", [Loaded EXCEPT !.roots = {t}], None)
    /\ used' = used \cup {t}
    /\ UNCHANGED doomed

RunInit(c, t) ==
    /\ Loaded.roots = {}
    /\ t \notin used
    /\ Begin(c, "init", [Loaded EXCEPT !.roots = {t}], t)
    /\ used' = used \cup {t}
    /\ UNCHANGED doomed

RunRootCreate(c, t) ==
    /\ t \notin used
    /\ Begin(c, "create", [Loaded EXCEPT !.roots = @ \cup {t}], t)
    /\ used' = used \cup {t}
    /\ UNCHANGED doomed

\* Variant: the refusal to revoke the last token is missing.
RunRootRevokeLast(c, t) ==
    /\ t \in Loaded.roots
    /\ Begin(c, "revoke", [Loaded EXCEPT !.roots = @ \ {t}], t)
    /\ doomed' = doomed \cup {t}
    /\ UNCHANGED used

RunRootRevoke(c, t) ==
    /\ t \in Loaded.roots
    /\ Loaded.roots # {t}
    /\ Begin(c, "revoke", [Loaded EXCEPT !.roots = @ \ {t}], t)
    /\ doomed' = doomed \cup {t}
    /\ UNCHANGED used

\* Variant: the command writes a new configuration instead of the one it has read.
SetSourceDirAnew(c, s) ==
    /\ Begin(c, "source", [Blank EXCEPT !.source = s], None)
    /\ UNCHANGED <<used, doomed>>

SetSourceDir(c, s) ==
    /\ Begin(c, "source", [Loaded EXCEPT !.source = s], None)
    /\ UNCHANGED <<used, doomed>>

\* runInstall writes an empty configuration when os.Stat finds none.
RunInstall(c) ==
    /\ file = Absent
    /\ Begin(c, "install", Blank, None)
    /\ UNCHANGED <<used, doomed>>

---------------------------------------------------------------------------
(* saveConfig                                                              *)

Leave(c) ==
    /\ pc' = [pc EXCEPT ![c] = "idle"]
    /\ cmd' = [cmd EXCEPT ![c] = "none"]
    /\ read' = [read EXCEPT ![c] = Absent]
    /\ view' = [view EXCEPT ![c] = Absent]
    /\ token' = [token EXCEPT ![c] = None]

\* What others have done to the file since the command has read it.
Overlooked(c) ==
    (RootsOf(file) \ RootsOf(read[c])) \cup (RootsOf(read[c]) \ RootsOf(file))

\* The rename, whatever the file has become in the meantime.
Save(c) ==
    /\ pc[c] = "save"
    /\ file' = view[c]
    /\ durable' = durable \cup {view[c]}
    /\ pc' = [pc EXCEPT ![c] = "sync"]
    /\ read' = [read EXCEPT ![c] = Absent]
    /\ view' = [view EXCEPT ![c] = Absent]
    /\ undone' = undone \cup Overlooked(c)
    /\ blanked' = (blanked \/ (RootsOf(view[c]) = {} /\ RootsOf(file) # {}
                                  /\ RootsOf(read[c]) = {}))
    /\ UNCHANGED <<rooted, cmd, token, used, printed, doomed, revoked, lost>>

\* Variant: the answer is printed although the directory has not been synced.
FinishUnsynced(c) ==
    /\ pc[c] = "sync"
    /\ printed' = printed \cup {t \in {token[c]} : cmd[c] \in Issuing}
    /\ revoked' = revoked \cup {t \in {token[c]} : cmd[c] = "revoke"}
    /\ Leave(c)
    /\ UNCHANGED <<fileVars, used, doomed, lost, overlapVars>>

\* The sync of the directory, though not of the one above it, and the answer.
Finish(c) ==
    /\ pc[c] = "sync"
    /\ durable' = {file}
    /\ printed' = printed \cup {t \in {token[c]} : cmd[c] \in Issuing}
    /\ revoked' = revoked \cup {t \in {token[c]} : cmd[c] = "revoke"}
    /\ Leave(c)
    /\ UNCHANGED <<file, rooted, used, doomed, lost, overlapVars>>

\* Variant: after a failure the command still prints what it would have.
AbortPrinting(c) ==
    /\ pc[c] # "idle"
    /\ printed' = printed \cup {t \in {token[c]} : cmd[c] \in Issuing}
    /\ Leave(c)
    /\ UNCHANGED <<fileVars, used, doomed, revoked, lost, overlapVars>>

\* A call fails, or the command is killed: no answer but an error.
Abort(c) ==
    /\ pc[c] # "idle"
    /\ Leave(c)
    /\ UNCHANGED <<fileVars, historyVars>>

\* The system writes the entry of the directory back, in its own time: MkdirAll has
\* made it, in a command that is at work or in one that stopped before.
Settle ==
    /\ ~rooted
    /\ rooted' = TRUE
    /\ UNCHANGED <<file, durable, commandVars, historyVars>>

\* No command survives a loss of power.
Stop ==
    /\ pc' = [c \in Commands |-> "idle"]
    /\ cmd' = [c \in Commands |-> "none"]
    /\ read' = [c \in Commands |-> Absent]
    /\ view' = [c \in Commands |-> Absent]
    /\ token' = [c \in Commands |-> None]

\* The machine stops: an entry the directory had since its last sync is there.
PowerLoss ==
    /\ rooted
    /\ file' \in durable
    /\ durable' = {file'}
    /\ Stop
    /\ UNCHANGED <<rooted, historyVars>>

\* The machine stops before the directory is on the disk: it is gone, with all in it.
LoseDirectory ==
    /\ ~rooted
    /\ file' = Absent
    /\ durable' = {Absent}
    /\ lost' = lost \cup printed
    /\ Stop
    /\ UNCHANGED <<rooted, used, printed, doomed, revoked, overlapVars>>

Command(c) ==
    \/ \E t \in Roots : RunInit(c, t) \/ RunRootCreate(c, t) \/ RunRootRevoke(c, t)
    \/ \E s \in Sources : SetSourceDir(c, s)
    \/ RunInstall(c) \/ Save(c) \/ Finish(c) \/ Abort(c)

Next == (\E c \in Commands : Command(c)) \/ Settle \/ PowerLoss \/ LoseDirectory

Spec == Init /\ [][Next]_vars

---------------------------------------------------------------------------
(* Properties                                                              *)

\* The state is well formed: a command that has yet to write has what it writes.
TypeOK ==
    /\ file \in Config \cup {Absent}
    /\ durable \subseteq Config \cup {Absent}
    /\ file \in durable
    /\ rooted \in BOOLEAN
    /\ pc \in [Commands -> {"idle", "save", "sync"}]
    /\ cmd \in [Commands -> {"none", "init", "create", "revoke", "source", "install"}]
    /\ read \in [Commands -> Config \cup {Absent}]
    /\ view \in [Commands -> Config \cup {Absent}]
    /\ token \in [Commands -> Roots \cup {None}]
    /\ used \subseteq Roots
    /\ printed \subseteq Roots
    /\ doomed \subseteq Roots
    /\ revoked \subseteq Roots
    /\ lost \subseteq printed
    /\ undone \subseteq Roots
    /\ blanked \in BOOLEAN
    /\ \A c \in Commands :
          /\ pc[c] = "idle" <=> cmd[c] = "none"
          /\ pc[c] = "save" <=> view[c] # Absent
          /\ cmd[c] \in Issuing \cup {"revoke"} <=> token[c] # None

\* A root token whose plaintext was printed (root.go:35, root.go:80) is in the file,
\* and in what a power loss leaves, until a command is asked to revoke it: failed and
\* killed commands, older files after a power loss and commands that overlap take none
\* but those a command overlooked, because it read the file before they were in it and
\* renamed after, and those of a directory nothing had synced (config.go:43).
PrintedStays ==
    \A e \in durable : printed \ (doomed \cup lost \cup undone) \subseteq RootsOf(e)

\* A token reported revoked (root.go:140) never returns, although a revocation or
\* another command that failed may have left older files, unless a command had read
\* the file before the revocation and renamed after it.
RevokedStays ==
    \A e \in durable : RootsOf(e) \cap revoked \subseteq undone

\* There is a root token from the first that was printed on: runRootRevoke "refuses to
\* remove the last one" (README, Root tokens), and neither revocations that overlap nor
\* any sequence of failures and power losses brings an emptier file back, save the loss
\* of a directory nothing had synced and a command that read the file before it had a
\* token and wrote it after.
AlwaysARoot ==
    ~blanked /\ printed \ lost # {} => \A e \in durable : RootsOf(e) # {}

\* What the command o about the token t makes of the configuration e.
Makes(o, t, e, f) ==
    CASE o = "init" -> e.roots = {} /\ f = [e EXCEPT !.roots = {t}]
      [] o = "create" -> f = [e EXCEPT !.roots = @ \cup {t}]
      [] o = "revoke" -> /\ t \in e.roots /\ e.roots # {t}
                         /\ f = [e EXCEPT !.roots = @ \ {t}]
      [] o = "source" -> \E s \in Sources : f = [e EXCEPT !.source = s]
      [] o = "install" -> e = Blank /\ f = Blank

\* A command that finds at its rename the file it read, overlapping with others or not,
\* takes place at that instant: it replaces the file by what it makes of it and keeps
\* what the others have written, in the source as in the tokens (config.go:42).
NoUpdateIsLost ==
    [][\A c \in Commands : pc[c] = "save" /\ read[c] = file /\ pc'[c] = "sync" =>
          Makes(cmd[c], token[c], Loaded, file')]_vars

\* "first root only; fails if non-empty" (README, Root tokens): init creates its
\* token in a configuration without root tokens.
InitCreatesTheFirst ==
    [][\A c \in Commands : cmd[c] = "init" /\ pc[c] = "save" /\ pc'[c] = "sync"
          => RootsOf(file) = {}]_vars

---------------------------------------------------------------------------
(* The inductive invariant behind these properties.                        *)

\* Tokens that must be in the file, and tokens that must not, if the commands that
\* have written it get through.
Promised == printed \cup {token[c] : c \in {d \in Commands : pc[d] = "sync" /\ cmd[d] \in Issuing}}
Gone == revoked \cup {token[c] : c \in {d \in Commands : pc[d] = "sync" /\ cmd[d] = "revoke"}}

\* A file fits the promises, as far as no command has overlooked them.
Fits(e, promised, gone) ==
    /\ promised \ (doomed \cup lost \cup undone) \subseteq RootsOf(e)
    /\ RootsOf(e) \cap gone \subseteq undone
    /\ ~blanked /\ promised \ lost # {} => RootsOf(e) # {}

\* No token is in two minds: what was generated is all there is.
Accounted ==
    /\ printed \cup doomed \subseteq used
    /\ revoked \subseteq doomed
    /\ \A e \in durable : RootsOf(e) \subseteq used
    /\ \A c \in Commands :
          /\ RootsOf(read[c]) \subseteq used
          /\ RootsOf(view[c]) \subseteq used
          /\ token[c] # None => token[c] \in used
          /\ cmd[c] = "revoke" => token[c] \in doomed

\* A token that is not in the file yet is known to its own command only.
Fresh ==
    \A c \in Commands : pc[c] = "save" /\ cmd[c] \in Issuing =>
        /\ token[c] \notin doomed
        /\ token[c] \notin RootsOf(file)
        /\ \A d \in Commands \ {c} : token[c] \notin RootsOf(view[d])

\* A command that has yet to write will write what it makes of the file it read.
AsRead ==
    \A c \in Commands : pc[c] = "save" =>
        Makes(cmd[c], token[c], ConfigOf(read[c]), view[c])

IInv ==
    /\ Accounted /\ Fresh /\ AsRead
    /\ Fits(file, Promised, Gone)
    /\ \A e \in durable : Fits(e, printed, revoked)
=============================================================================
