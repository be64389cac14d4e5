------------------------- MODULE RootConfigProofs -------------------------
(***************************************************************************)
(* Proofs about RootConfig, for every number of commands and tokens.       *)
(***************************************************************************)
EXTENDS RootConfig, TLAPS

LEMMA ConstantFacts == None \notin Roots /\ Absent \notin Config /\ NoSource \in Sources
BY NoneAssumption, AbsentAssumption, SourceAssumption

---------------------------------------------------------------------------
(* Well-formedness                                                         *)

CommandsOK ==
    /\ pc \in [Commands -> {"idle", "save", "sync"}]
    /\ cmd \in [Commands -> {"none", "init", "create", "revoke", "source", "install"}]
    /\ read \in [Commands -> Config \cup {Absent}]
    /\ view \in [Commands -> Config \cup {Absent}]
    /\ token \in [Commands -> Roots \cup {None}]
    /\ \A c \in Commands :
          /\ pc[c] = "idle" <=> cmd[c] = "none"
          /\ pc[c] = "save" <=> view[c] # Absent
          /\ cmd[c] \in Issuing \cup {"revoke"} <=> token[c] # None

FileOK ==
    /\ file \in Config \cup {Absent}
    /\ durable \subseteq Config \cup {Absent}
    /\ file \in durable
    /\ rooted \in BOOLEAN

HistoryOK ==
    /\ used \subseteq Roots /\ printed \subseteq Roots
    /\ doomed \subseteq Roots /\ revoked \subseteq Roots
    /\ lost \subseteq printed /\ undone \subseteq Roots /\ blanked \in BOOLEAN

LEMMA TypeSplit ==
    /\ TypeOK <=> CommandsOK /\ FileOK /\ HistoryOK
    /\ TypeOK' <=> CommandsOK' /\ FileOK' /\ HistoryOK'
BY DEF TypeOK, CommandsOK, FileOK, HistoryOK

LEMMA ConfigFacts ==
    ASSUME NEW e \in Config \cup {Absent}
    PROVE  /\ ConfigOf(e) \in Config /\ ConfigOf(e).roots = RootsOf(e)
           /\ RootsOf(e) \subseteq Roots
<1>1. Blank \in Config /\ Blank.roots = {}
      BY ConstantFacts DEF Blank, Config
<1>2. QED
      BY <1>1 DEF ConfigOf, RootsOf, Config

LEMMA LoadedFacts ==
    ASSUME FileOK
    PROVE  /\ Loaded \in Config /\ Loaded.roots = RootsOf(file)
           /\ \A S \in SUBSET Roots :
                 LET e == [Loaded EXCEPT !.roots = S]
                 IN  e \in Config /\ e # Absent /\ RootsOf(e) = S
           /\ \A s \in Sources :
                 LET e == [Loaded EXCEPT !.source = s]
                 IN  e \in Config /\ e # Absent /\ RootsOf(e) = RootsOf(file)
<1>2. Loaded \in Config /\ Loaded.roots = RootsOf(file)
      BY ConfigFacts DEF FileOK, Loaded
<1>3. ASSUME NEW S \in SUBSET Roots
      PROVE  LET e == [Loaded EXCEPT !.roots = S]
             IN  e \in Config /\ e # Absent /\ RootsOf(e) = S
      BY <1>2, ConstantFacts DEF Config, RootsOf
<1>4. ASSUME NEW s \in Sources
      PROVE  LET e == [Loaded EXCEPT !.source = s]
             IN  e \in Config /\ e # Absent /\ RootsOf(e) = RootsOf(file)
      BY <1>2, ConstantFacts DEF Config, RootsOf
<1>5. QED
      BY <1>2, <1>3, <1>4

\* What every command that does not refuse has decided: what it will write differs
\* from the file it has read by the token it issues or revokes.
Request(c, o, e, t) ==
    /\ Begin(c, o, e, t)
    /\ e \in Config /\ e # Absent
    /\ Makes(o, t, Loaded, e)
    /\ \/ /\ o \in Issuing /\ t \in Roots \ used
          /\ RootsOf(e) = RootsOf(file) \cup {t}
          /\ used' = used \cup {t} /\ doomed' = doomed
       \/ /\ o = "revoke" /\ t \in RootsOf(file) /\ t # None
          /\ RootsOf(e) = RootsOf(file) \ {t} /\ RootsOf(e) # {}
          /\ used' = used /\ doomed' = doomed \cup {t}
       \/ /\ o \in {"source", "install"} /\ t = None
          /\ RootsOf(e) = RootsOf(file)
          /\ used' = used /\ doomed' = doomed

LEMMA CommandSteps ==
    ASSUME TypeOK, NEW c \in Commands, Command(c)
    PROVE  \/ \E o, e, t : Request(c, o, e, t)
           \/ Save(c) \/ Finish(c) \/ Abort(c)
<1>1. FileOK
      BY TypeSplit
<1>2. ASSUME NEW t \in Roots, RunInit(c, t)
      PROVE  Request(c, "init", [Loaded EXCEPT !.roots = {t}], t)
      BY <1>1, <1>2, LoadedFacts DEF RunInit, Request, Issuing, Makes
<1>3. ASSUME NEW t \in Roots, RunRootCreate(c, t)
      PROVE  Request(c, "create", [Loaded EXCEPT !.roots = @ \cup {t}], t)
  <2>1. Loaded.roots \cup {t} \in SUBSET Roots /\ Loaded.roots = RootsOf(file)
        BY <1>1, LoadedFacts DEF Config
  <2>2. Makes("create", t, Loaded, [Loaded EXCEPT !.roots = @ \cup {t}])
        BY DEF Makes
  <2>3. QED
        BY <1>1, <1>3, <2>1, <2>2, LoadedFacts DEF RunRootCreate, Request, Issuing
<1>4. ASSUME NEW t \in Roots, RunRootRevoke(c, t)
      PROVE  Request(c, "revoke", [Loaded EXCEPT !.roots = @ \ {t}], t)
  <2>1. Loaded.roots \ {t} \in SUBSET Roots /\ Loaded.roots = RootsOf(file)
        BY <1>1, LoadedFacts DEF Config
  <2>2. t \in RootsOf(file) /\ t # None /\ RootsOf(file) \ {t} # {}
        BY <1>4, <2>1, ConstantFacts DEF RunRootRevoke
  <2>3. Makes("revoke", t, Loaded, [Loaded EXCEPT !.roots = @ \ {t}])
        BY <1>4 DEF RunRootRevoke, Makes
  <2>4. QED
        BY <1>1, <1>4, <2>1, <2>2, <2>3, LoadedFacts DEF RunRootRevoke, Request
<1>5. ASSUME NEW s \in Sources, SetSourceDir(c, s)
      PROVE  Request(c, "source", [Loaded EXCEPT !.source = s], None)
      BY <1>1, <1>5, LoadedFacts DEF SetSourceDir, Request, Makes
<1>6. CASE RunInstall(c)
  <2>1. Blank \in Config /\ Blank # Absent /\ RootsOf(Blank) = {} /\ RootsOf(file) = {}
        BY <1>6, ConstantFacts DEF RunInstall, Blank, Config, RootsOf
  <2>2. Request(c, "install", Blank, None)
        BY <1>6, <2>1 DEF RunInstall, Request, Loaded, ConfigOf, Makes
  <2>3. QED
        BY <2>2
<1>7. QED
      BY <1>2, <1>3, <1>4, <1>5, <1>6 DEF Command

LEMMA TypeInit == Init => TypeOK
BY DEF Init, TypeOK, Issuing

LEMMA TypeStep == TypeOK /\ [Next]_vars => TypeOK'
<1> SUFFICES ASSUME TypeOK, [Next]_vars PROVE TypeOK'
    OBVIOUS
<1>1. CommandsOK /\ FileOK /\ HistoryOK
      BY TypeSplit
<1>2. CASE UNCHANGED vars
      BY <1>2 DEF TypeOK, vars, fileVars, commandVars, historyVars, overlapVars
<1>3. CASE Settle
      BY <1>3 DEF Settle, TypeOK, commandVars, historyVars, overlapVars
<1>4. ASSUME Stop
      PROVE  CommandsOK'
      BY <1>1, <1>4 DEF Stop, CommandsOK, Issuing
<1>5. CASE PowerLoss
      BY <1>1, <1>4, <1>5, TypeSplit DEF PowerLoss, FileOK, HistoryOK, historyVars, overlapVars
<1>6. CASE LoseDirectory
      BY <1>1, <1>4, <1>6, TypeSplit DEF LoseDirectory, FileOK, HistoryOK, overlapVars
<1>7. ASSUME NEW c \in Commands, NEW o, NEW e, NEW t, Request(c, o, e, t)
      PROVE  TypeOK'
  <2>1. t \in Roots \cup {None} /\ (o \in Issuing \cup {"revoke"} <=> t # None)
        BY <1>1, <1>7, ConstantFacts DEF Request, HistoryOK, FileOK, Config, RootsOf, Issuing
  <2>2. CommandsOK'
        BY <1>1, <1>7, <2>1 DEF Request, Begin, CommandsOK, FileOK, Issuing
  <2>3. FileOK' /\ HistoryOK'
        BY <1>1, <1>7, <2>1 DEF Request, Begin, FileOK, HistoryOK, fileVars, overlapVars
  <2>4. QED
        BY <2>2, <2>3, TypeSplit
<1>8. ASSUME NEW c \in Commands, Save(c)
      PROVE  TypeOK'
  <2>1. CommandsOK'
        BY <1>1, <1>8 DEF Save, CommandsOK
  <2>2. FileOK'
        BY <1>1, <1>8 DEF Save, CommandsOK, FileOK
  <2>3. Overlooked(c) \subseteq Roots
        BY <1>1, ConfigFacts DEF Overlooked, CommandsOK, FileOK
  <2>4. HistoryOK'
        BY <1>1, <1>8, <2>3 DEF Save, HistoryOK
  <2>5. QED
        BY <2>1, <2>2, <2>4, TypeSplit
<1>9. ASSUME NEW c \in Commands, Leave(c)
      PROVE  CommandsOK'
      BY <1>1, <1>9 DEF Leave, CommandsOK, Issuing
<1>10. ASSUME NEW c \in Commands, Finish(c)
       PROVE  TypeOK'
       BY <1>1, <1>9, <1>10, TypeSplit
       DEF Finish, CommandsOK, FileOK, HistoryOK, Issuing, overlapVars
<1>11. ASSUME NEW c \in Commands, Abort(c)
       PROVE  TypeOK'
       BY <1>1, <1>9, <1>11, TypeSplit
       DEF Abort, FileOK, HistoryOK, fileVars, historyVars, overlapVars
<1>12. QED
       BY <1>2, <1>3, <1>5, <1>6, <1>7, <1>8, <1>10, <1>11, CommandSteps DEF Next

\* The state is well formed: a command that has yet to write has what it writes.
THEOREM Typing == Spec => []TypeOK
BY TypeInit, TypeStep, PTL DEF Spec

---------------------------------------------------------------------------
(* The inductive invariant                                                 *)

LEMMA PromisedIs ==
    /\ \A t : t \in Promised <=> \/ t \in printed
                                 \/ \E c \in Commands : /\ pc[c] = "sync" /\ cmd[c] \in Issuing
                                                        /\ token[c] = t
    /\ \A t : t \in Promised' <=> \/ t \in printed'
                                  \/ \E c \in Commands : /\ pc'[c] = "sync" /\ cmd'[c] \in Issuing
                                                         /\ token'[c] = t
BY DEF Promised

LEMMA GoneIs ==
    /\ \A t : t \in Gone <=> \/ t \in revoked
                             \/ \E c \in Commands : /\ pc[c] = "sync" /\ cmd[c] = "revoke"
                                                    /\ token[c] = t
    /\ \A t : t \in Gone' <=> \/ t \in revoked'
                              \/ \E c \in Commands : /\ pc'[c] = "sync" /\ cmd'[c] = "revoke"
                                                     /\ token'[c] = t
BY DEF Gone

FilesFit == Fits(file, Promised, Gone) /\ \A e \in durable : Fits(e, printed, revoked)

LEMMA IInvInit == Init => IInv
<1> SUFFICES ASSUME Init PROVE IInv
    OBVIOUS
<1>1. Promised = {} /\ Gone = {}
      BY PromisedIs, GoneIs DEF Init
<1>2. Accounted
      BY DEF Init, Accounted, RootsOf
<1>3. Fresh /\ AsRead
      BY DEF Init, Fresh, AsRead
<1>4. FilesFit
      BY <1>1 DEF Init, FilesFit, Fits
<1>5. QED
      BY <1>2, <1>3, <1>4 DEF IInv, FilesFit

\* A command decides: the promises are those of before, its token is a new one, and
\* what it will write is what it makes of the file.
LEMMA RequestStep ==
    ASSUME TypeOK, IInv, NEW c \in Commands, NEW o, NEW e, NEW t, Request(c, o, e, t)
    PROVE  IInv'
<1>1. /\ Accounted /\ Fresh /\ AsRead /\ FilesFit
      /\ CommandsOK /\ FileOK /\ HistoryOK
      BY TypeSplit DEF IInv, FilesFit
<1>2. /\ pc[c] = "idle" /\ pc'[c] = "save" /\ cmd'[c] = o
      /\ read'[c] = file /\ view'[c] = e /\ token'[c] = t
      /\ \A d \in Commands \ {c} : /\ pc'[d] = pc[d] /\ cmd'[d] = cmd[d] /\ read'[d] = read[d]
                                   /\ view'[d] = view[d] /\ token'[d] = token[d]
      /\ file' = file /\ durable' = durable /\ printed' = printed /\ revoked' = revoked
      /\ lost' = lost /\ undone' = undone /\ blanked' = blanked
      BY <1>1 DEF Request, Begin, CommandsOK, fileVars, overlapVars
<1>3. Promised' = Promised
  <2>1. \A u : u \in Promised' <=> u \in Promised
        BY <1>2, PromisedIs
  <2>2. QED
        BY <2>1
<1>4. Gone' = Gone
  <2>1. \A u : u \in Gone' <=> u \in Gone
        BY <1>2, GoneIs
  <2>2. QED
        BY <2>1
<1>5. RootsOf(file) \subseteq used
      BY <1>1 DEF Accounted, FileOK
<1>6. doomed \subseteq doomed' /\ used \subseteq used'
      BY DEF Request
<1>7. Accounted'
  <2>1. RootsOf(e) \subseteq used' /\ doomed' \subseteq used' /\ (t # None => t \in used')
        /\ (o = "revoke" => t \in doomed')
        BY <1>1, <1>5, <1>6 DEF Request, Accounted, Issuing
  <2>2. QED
        BY <1>1, <1>2, <1>5, <1>6, <2>1 DEF Accounted
<1>8. FilesFit'
      BY <1>1, <1>2, <1>3, <1>4, <1>6 DEF FilesFit, Fits
<1>9. Fresh'
  <2>1. ASSUME o \in Issuing
        PROVE  /\ t \notin doomed' /\ t \notin RootsOf(file)
               /\ \A d \in Commands : t \notin RootsOf(view[d])
        BY <1>1, <1>5, <2>1 DEF Request, Accounted, Issuing
  <2>2. ASSUME NEW d \in Commands \ {c}, pc[d] = "save", cmd[d] \in Issuing
        PROVE  token[d] \notin doomed' /\ token[d] \notin RootsOf(e)
    <3>1. token[d] \in used /\ token[d] \notin doomed /\ token[d] \notin RootsOf(file)
          BY <1>1, <2>2 DEF Fresh, Accounted, CommandsOK
    <3>2. QED
          BY <3>1 DEF Request
  <2>3. QED
        BY <1>1, <1>2, <2>1, <2>2 DEF Fresh
<1>10. AsRead'
  <2>1. Makes(o, t, ConfigOf(file), e)
        BY DEF Request, Loaded
  <2>2. ASSUME NEW d \in Commands, pc'[d] = "save"
        PROVE  Makes(cmd'[d], token'[d], ConfigOf(read'[d]), view'[d])
        BY <1>1, <1>2, <2>1, <2>2 DEF AsRead
  <2>3. QED
        BY <2>2 DEF AsRead, Makes, ConfigOf
<1>11. QED
       BY <1>7, <1>8, <1>9, <1>10 DEF IInv, FilesFit

\* What a command writes, by what it has read.
LEMMA ViewFacts ==
    ASSUME TypeOK, AsRead, NEW c \in Commands, pc[c] = "save"
    PROVE  /\ RootsOf(view[c]) \subseteq
                 RootsOf(read[c]) \cup {t \in {token[c]} : cmd[c] \in Issuing}
           /\ RootsOf(read[c]) \ {t \in {token[c]} : cmd[c] = "revoke"} \subseteq RootsOf(view[c])
           /\ cmd[c] \in Issuing => token[c] \in RootsOf(view[c])
           /\ cmd[c] = "revoke" => token[c] \notin RootsOf(view[c])
           /\ RootsOf(view[c]) = {} => cmd[c] \in {"source", "install"} /\ RootsOf(read[c]) = {}
<1> DEFINE e == ConfigOf(read[c])
           f == view[c]
           t == token[c]
<1>1. /\ CommandsOK /\ Makes(cmd[c], t, e, f)
      /\ e \in Config /\ e.roots = RootsOf(read[c])
      /\ f \in Config /\ RootsOf(f) = f.roots
      BY TypeSplit, ConfigFacts, ConstantFacts DEF AsRead, CommandsOK, RootsOf
<1>2. /\ cmd[c] = "init" => e.roots = {} /\ f.roots = {t}
      /\ cmd[c] = "create" => f.roots = e.roots \cup {t}
      /\ cmd[c] = "revoke" => t \in e.roots /\ e.roots # {t} /\ f.roots = e.roots \ {t}
      /\ cmd[c] = "source" => f.roots = e.roots
      /\ cmd[c] = "install" => e.roots = {} /\ f.roots = {}
  <2>1. cmd[c] = "init" => e.roots = {} /\ f.roots = {t}
        BY <1>1 DEF Makes, Config
  <2>2. cmd[c] = "create" => f.roots = e.roots \cup {t}
        BY <1>1 DEF Makes, Config
  <2>3. cmd[c] = "revoke" => t \in e.roots /\ e.roots # {t} /\ f.roots = e.roots \ {t}
        BY <1>1 DEF Makes, Config
  <2>4. cmd[c] = "source" => f.roots = e.roots
        BY <1>1 DEF Makes, Config
  <2>5. cmd[c] = "install" => e.roots = {} /\ f.roots = {}
        BY <1>1 DEF Makes, Blank
  <2>6. QED
        BY <2>1, <2>2, <2>3, <2>4, <2>5
<1>3. cmd[c] \in {"init", "create", "revoke", "source", "install"}
      BY <1>1 DEF CommandsOK
<1> HIDE DEF e, f, t
<1>4. /\ RootsOf(f) \subseteq RootsOf(read[c]) \cup {u \in {t} : cmd[c] \in Issuing}
      /\ RootsOf(read[c]) \ {u \in {t} : cmd[c] = "revoke"} \subseteq RootsOf(f)
      /\ cmd[c] \in Issuing => t \in RootsOf(f)
      /\ cmd[c] = "revoke" => t \notin RootsOf(f)
      /\ RootsOf(f) = {} => cmd[c] \in {"source", "install"} /\ RootsOf(read[c]) = {}
      BY <1>1, <1>2, <1>3 DEF Issuing
<1>5. QED
      BY <1>4 DEF f, t

\* A command writes: what it wrote keeps the promises, its own included, but for the
\* tokens others have changed since it read the file.
LEMMA SaveStep ==
    ASSUME TypeOK, IInv, NEW c \in Commands, Save(c)
    PROVE  IInv'
<1>1. /\ Accounted /\ Fresh /\ AsRead /\ FilesFit
      /\ CommandsOK /\ FileOK /\ HistoryOK
      BY TypeSplit DEF IInv, FilesFit
<1>2. /\ pc[c] = "save" /\ pc'[c] = "sync" /\ read'[c] = Absent /\ view'[c] = Absent
      /\ \A d \in Commands \ {c} : pc'[d] = pc[d] /\ read'[d] = read[d] /\ view'[d] = view[d]
      /\ cmd' = cmd /\ token' = token
      /\ file' = view[c] /\ durable' = durable \cup {view[c]}
      /\ UNCHANGED <<used, printed, doomed, revoked, lost>>
      BY <1>1 DEF Save, CommandsOK
<1>3. Promised' = Promised \cup {t \in {token[c]} : cmd[c] \in Issuing}
      BY <1>2, PromisedIs
<1>4. Gone' = Gone \cup {t \in {token[c]} : cmd[c] = "revoke"}
      BY <1>2, GoneIs
<1>5. Accounted'
      BY <1>1, <1>2 DEF Accounted, RootsOf
<1>6. Fresh'
      BY <1>1, <1>2 DEF Fresh, RootsOf
<1>7. AsRead'
  <2>1. ASSUME NEW d \in Commands, pc'[d] = "save"
        PROVE  Makes(cmd'[d], token'[d], ConfigOf(read'[d]), view'[d])
    <3>1. d # c
          BY <1>2, <2>1
    <3>2. QED
          BY <1>1, <1>2, <2>1, <3>1 DEF AsRead
  <2>2. QED
        BY <2>1 DEF AsRead, Makes, ConfigOf
<1>8. /\ undone' = undone \cup Overlooked(c)
      /\ blanked \/ (RootsOf(view[c]) = {} /\ RootsOf(file) # {} /\ RootsOf(read[c]) = {})
            => blanked'
      /\ blanked => blanked'
      BY DEF Save
<1>9. Fits(file, Promised, Gone)'
  <2>1. Fits(file, Promised, Gone)
        BY <1>1 DEF FilesFit
  <2>2. Promised' \ (doomed \cup lost \cup undone') \subseteq RootsOf(view[c])
    <3>1. Promised \ (doomed \cup lost \cup undone') \subseteq RootsOf(read[c])
          BY <1>8, <2>1 DEF Fits, Overlooked
    <3>2. cmd[c] = "revoke" => token[c] \in doomed
          BY <1>1 DEF Accounted
    <3>3. QED
          BY <1>1, <1>2, <1>3, <3>1, <3>2, ViewFacts
  <2>3. RootsOf(view[c]) \cap Gone' \subseteq undone'
    <3>1. RootsOf(read[c]) \cap Gone \subseteq undone'
          BY <1>8, <2>1 DEF Fits, Overlooked
    <3>2. Gone \subseteq doomed \cup revoked
          BY <1>1, GoneIs DEF Accounted
    <3>3. cmd[c] \in Issuing => token[c] \notin Gone
      <4>1. cmd[c] \in Issuing => token[c] \notin doomed
            BY <1>1, <1>2 DEF Fresh
      <4>2. revoked \subseteq doomed
            BY <1>1 DEF Accounted
      <4>3. QED
            BY <3>2, <4>1, <4>2
    <3>4. QED
          BY <1>1, <1>2, <1>4, <3>1, <3>3, ViewFacts
  <2>4. ~blanked' /\ Promised' \ lost # {} => RootsOf(view[c]) # {}
    <3>1. RootsOf(view[c]) = {} => Promised' = Promised /\ RootsOf(read[c]) = {}
          BY <1>1, <1>2, <1>3, ViewFacts DEF Issuing
    <3>2. ~blanked /\ Promised \ lost # {} => RootsOf(file) # {}
          BY <2>1 DEF Fits
    <3>3. QED
          BY <1>8, <3>1, <3>2
  <2>5. QED
        BY <1>2, <2>2, <2>3, <2>4 DEF Fits
<1>10. FilesFit'
  <2>1. printed \subseteq Promised' /\ revoked \subseteq Gone'
        BY <1>3, <1>4, PromisedIs, GoneIs
  <2>2. Fits(file, printed, revoked)'
        BY <1>2, <1>9, <2>1 DEF Fits
  <2>3. ASSUME NEW e \in durable
        PROVE  Fits(e, printed, revoked)'
    <3>1. Fits(e, printed, revoked)
          BY <1>1 DEF FilesFit
    <3>2. undone \subseteq undone'
          BY <1>8
    <3>3. QED
          BY <1>2, <1>8, <3>1, <3>2 DEF Fits
  <2>4. QED
        BY <1>2, <1>9, <2>2, <2>3 DEF FilesFit, Fits
<1>11. QED
       BY <1>5, <1>6, <1>7, <1>10 DEF IInv, FilesFit

\* A command leaves: it may take its promise back, unless it prints it.
LEMMA LeaveStep ==
    ASSUME TypeOK, IInv, NEW c \in Commands, Finish(c) \/ Abort(c)
    PROVE  IInv'
<1>1. /\ Accounted /\ Fresh /\ AsRead /\ FilesFit
      /\ CommandsOK /\ FileOK /\ HistoryOK
      BY TypeSplit DEF IInv, FilesFit
<1>2. /\ pc'[c] = "idle" /\ cmd'[c] = "none" /\ token'[c] = None
      /\ read'[c] = Absent /\ view'[c] = Absent
      /\ \A d \in Commands \ {c} : /\ pc'[d] = pc[d] /\ cmd'[d] = cmd[d] /\ read'[d] = read[d]
                                   /\ view'[d] = view[d] /\ token'[d] = token[d]
      /\ file' = file /\ doomed' = doomed /\ used' = used
      /\ lost' = lost /\ undone' = undone /\ blanked' = blanked
      BY <1>1 DEF Finish, Abort, Leave, CommandsOK, fileVars, historyVars, overlapVars
<1>3. \/ /\ pc[c] = "sync" /\ durable' = {file}
         /\ printed' = printed \cup {t \in {token[c]} : cmd[c] \in Issuing}
         /\ revoked' = revoked \cup {t \in {token[c]} : cmd[c] = "revoke"}
      \/ durable' = durable /\ printed' = printed /\ revoked' = revoked
      BY DEF Finish, Abort, fileVars, historyVars
<1>4. printed' \subseteq Promised' /\ Promised' \subseteq Promised
      BY <1>2, <1>3, PromisedIs DEF Issuing
<1>5. revoked' \subseteq Gone' /\ Gone' \subseteq Gone
      BY <1>2, <1>3, GoneIs
<1>6. Accounted'
  <2>1. token[c] # None => token[c] \in used
        BY <1>1 DEF Accounted
  <2>2. cmd[c] \in Issuing \cup {"revoke"} => token[c] # None
        BY <1>1 DEF CommandsOK
  <2>3. printed' \subseteq used /\ revoked' \subseteq doomed
        BY <1>1, <1>3, <2>1, <2>2 DEF Accounted, Issuing
  <2>4. \A e \in durable' : RootsOf(e) \subseteq used
        BY <1>1, <1>3 DEF Accounted, FileOK
  <2>5. QED
        BY <1>1, <1>2, <2>3, <2>4 DEF Accounted, RootsOf, Issuing
<1>7. Fresh'
      BY <1>1, <1>2 DEF Fresh, RootsOf
<1>8. FilesFit'
  <2>1. Fits(file, Promised, Gone)' /\ Fits(file, printed, revoked)'
        BY <1>1, <1>2, <1>4, <1>5 DEF FilesFit, Fits
  <2>2. \A e \in durable' : Fits(e, printed, revoked)'
    <3>1. CASE durable' = {file}
          BY <1>2, <2>1, <3>1
    <3>2. CASE durable' = durable /\ printed' = printed /\ revoked' = revoked
          BY <1>1, <1>2, <3>2 DEF FilesFit, Fits
    <3>3. QED
          BY <1>3, <3>1, <3>2
  <2>3. QED
        BY <1>2, <2>1, <2>2 DEF FilesFit, Fits
<1>9. AsRead'
  <2>1. ASSUME NEW d \in Commands, pc'[d] = "save"
        PROVE  Makes(cmd'[d], token'[d], ConfigOf(read'[d]), view'[d])
        BY <1>1, <1>2, <2>1 DEF AsRead
  <2>2. QED
        BY <2>1 DEF AsRead, Makes, ConfigOf
<1>10. QED
       BY <1>6, <1>7, <1>8, <1>9 DEF IInv, FilesFit

\* The machine stops: what is left fits what was printed and reported; of a directory
\* that was not on the disk nothing is left, and what it held is lost.
LEMMA StopStep ==
    ASSUME TypeOK, IInv, PowerLoss \/ LoseDirectory
    PROVE  IInv'
<1>1. Accounted /\ FilesFit /\ FileOK /\ HistoryOK
      BY TypeSplit DEF IInv, FilesFit
<1>2. /\ \A c \in Commands : /\ pc'[c] = "idle" /\ cmd'[c] = "none" /\ token'[c] = None
                             /\ read'[c] = Absent /\ view'[c] = Absent
      /\ used' = used /\ printed' = printed /\ doomed' = doomed /\ revoked' = revoked
      /\ undone' = undone /\ blanked' = blanked /\ durable' = {file'}
      BY DEF PowerLoss, LoseDirectory, Stop, historyVars, overlapVars
<1>3. Promised' = printed /\ Gone' = revoked
      BY <1>2, PromisedIs, GoneIs
<1>4. Accounted'
      BY <1>1, <1>2 DEF Accounted, RootsOf, PowerLoss, LoseDirectory
<1>5. Fresh' /\ AsRead'
      BY <1>2 DEF Fresh, AsRead
<1>6. Fits(file, printed, revoked)'
  <2>1. CASE PowerLoss
        BY <1>1, <1>2, <2>1 DEF PowerLoss, FilesFit, Fits, historyVars
  <2>2. CASE LoseDirectory
        BY <1>1, <1>2, <2>2 DEF LoseDirectory, Fits, RootsOf
  <2>3. QED
        BY <2>1, <2>2
<1>7. QED
      BY <1>2, <1>3, <1>4, <1>5, <1>6 DEF IInv, Fits

LEMMA IInvStep == TypeOK /\ IInv /\ [Next]_vars => IInv'
<1> SUFFICES ASSUME TypeOK, IInv, [Next]_vars PROVE IInv'
    OBVIOUS
<1>1. CASE UNCHANGED vars \/ Settle
  <2>1. UNCHANGED <<file, durable, commandVars, historyVars>>
        BY <1>1 DEF vars, fileVars, Settle
  <2>2. Promised' = Promised /\ Gone' = Gone
        BY <2>1 DEF commandVars, historyVars, Promised, Gone
  <2>3. AsRead'
        BY <2>1 DEF commandVars, IInv, AsRead, Makes, ConfigOf
  <2>4. QED
        BY <2>1, <2>2, <2>3
        DEF commandVars, historyVars, overlapVars, IInv, Accounted, Fresh, Fits
<1>2. ASSUME NEW c \in Commands, Command(c)
      PROVE  IInv'
      BY <1>2, CommandSteps, RequestStep, SaveStep, LeaveStep
<1>3. QED
      BY <1>1, <1>2, StopStep DEF Next

\* What the commands have promised, or are about to, is in the file and in whatever
\* a power loss may leave of it, but for what a command has overlooked and what was
\* lost with the directory.
THEOREM Inductive == Spec => []IInv
BY IInvInit, IInvStep, Typing, PTL DEF Spec

\* A root token whose plaintext was printed stays until a command is asked to revoke
\* it (root.go:35, root.go:80).
THEOREM PrintedTokensStay == Spec => []PrintedStays
<1>1. IInv => PrintedStays
      BY DEF IInv, Fits, PrintedStays
<1>2. QED
      BY <1>1, Inductive, PTL

\* A token reported revoked (root.go:140) never returns.
THEOREM RevokedTokensStayRevoked == Spec => []RevokedStays
<1>1. IInv => RevokedStays
      BY DEF IInv, Fits, RevokedStays
<1>2. QED
      BY <1>1, Inductive, PTL

\* From the first root token on there always is one (root.go:123).
THEOREM ThereIsAlwaysARoot == Spec => []AlwaysARoot
<1>1. IInv => AlwaysARoot
      BY DEF IInv, Fits, AlwaysARoot
<1>2. QED
      BY <1>1, Inductive, PTL

\* A command that finds at its rename the file it read takes place at that instant,
\* and undoes nothing that another has written (config.go:42).
THEOREM NoCommandUndoesAnother == Spec => NoUpdateIsLost
<1> DEFINE Instant(c) ==
        pc[c] = "save" /\ read[c] = file /\ pc'[c] = "sync"
           => Makes(cmd[c], token[c], Loaded, file')
<1>1. ASSUME TypeOK, IInv, [Next]_vars, NEW c \in Commands
      PROVE  Instant(c)
  <2> SUFFICES ASSUME pc[c] = "save", read[c] = file, pc'[c] = "sync"
               PROVE  Makes(cmd[c], token[c], Loaded, file')
      OBVIOUS
  <2>1. TypeOK /\ CommandsOK /\ AsRead
        BY <1>1, TypeSplit DEF IInv
  <2>2. file' = view[c]
    <3>1. CASE UNCHANGED vars \/ Settle
          BY <3>1 DEF vars, commandVars, Settle
    <3>2. CASE PowerLoss \/ LoseDirectory
          BY <3>2 DEF PowerLoss, LoseDirectory, Stop
    <3>3. ASSUME NEW d \in Commands, NEW o, NEW e, NEW t, Request(d, o, e, t)
          PROVE  FALSE
          BY <2>1, <3>3 DEF Request, Begin, CommandsOK
    <3>4. ASSUME NEW d \in Commands, Finish(d) \/ Abort(d)
          PROVE  FALSE
          BY <2>1, <3>4 DEF Finish, Abort, Leave, CommandsOK
    <3>5. ASSUME NEW d \in Commands, Save(d)
          PROVE  file' = view[c]
          BY <2>1, <3>5 DEF Save, CommandsOK
    <3>6. QED
          BY <1>1, <2>1, <3>1, <3>2, <3>3, <3>4, <3>5, CommandSteps DEF Next
  <2>3. QED
        BY <2>1, <2>2 DEF AsRead, Loaded
<1>2. TypeOK /\ IInv /\ [Next]_vars => [\A c \in Commands : Instant(c)]_vars
      BY <1>1
<1>3. QED
      BY <1>2, Typing, Inductive, PTL DEF Spec, NoUpdateIsLost
=============================================================================
