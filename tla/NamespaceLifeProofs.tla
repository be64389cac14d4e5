------------------------ MODULE NamespaceLifeProofs ------------------------
(***************************************************************************)
(* Proofs about NamespaceLife, for every number of requests, objects and   *)
(* tokens, and every number of creations and removals of the namespace.    *)
(***************************************************************************)
EXTENDS NamespaceLife, TLAPS

Decisions == {"granted", "401", "403", "404"}

LEMMA CredentialFacts ==
    /\ Root \notin Tokens /\ Stranger \notin Tokens /\ None \notin Tokens
    /\ Root # Stranger /\ Root # None /\ Stranger # None
BY CredentialsAssumption, DistinctAssumption

LEMMA DecisionType == \A o, t : Decision(o, t) \in Decisions
BY DEF Decision, Decisions

---------------------------------------------------------------------------
(* Well-formedness                                                         *)

\* The history of right decisions stays one when the table changes.
LEMMA ObserveType ==
    ASSUME possible \in [Requests -> SUBSET Decisions], Observe
    PROVE  possible' \in [Requests -> SUBSET Decisions]
<1>1. \A r \in Requests : Decision(op[r], token[r])' \in Decisions
      BY DEF Decision, Decisions
<1>2. QED
      BY <1>1 DEF Observe

TableOK ==
    /\ live \in BOOLEAN
    /\ owner \in Tokens \cup {None}
    /\ grants \in [Tokens -> SUBSET Permissions]
    /\ public \in BOOLEAN
    /\ era \in Nat
    /\ births \in Nat
    /\ handed \subseteq Tokens
    /\ after \subseteq TableType
    /\ Table \in after /\ file \in after
    /\ \A e \in after : WellFormed(e)

RequestsOK ==
    /\ pc \in [Requests -> Steps]
    /\ op \in [Requests -> Operations \cup {"none"}]
    /\ token \in [Requests -> Tokens \cup {Root, Stranger, None}]
    /\ path \in [Requests -> Paths \cup {None}]
    /\ status \in [Requests -> Statuses]
    /\ gen \in [Requests -> Nat]
    /\ todo \in [Requests -> SUBSET Paths]
    /\ possible \in [Requests -> SUBSET Decisions]

ObjectsOK ==
    /\ alias \in [Paths -> Stamp \cup {None}]
    /\ leaked \subseteq Nat

LEMMA TypeSplit ==
    /\ TypeOK <=> TableOK /\ RequestsOK /\ ObjectsOK
    /\ TypeOK' <=> TableOK' /\ RequestsOK' /\ ObjectsOK'
BY DEF TypeOK, TableOK, RequestsOK, ObjectsOK, Decisions

\* What the table being well-formed says of its parts.
LEMMA TableFacts ==
    ASSUME TableOK
    PROVE  /\ Table \in TableType /\ WellFormed(Table)
           /\ owner # None => live /\ grants[owner] = Permissions
           /\ public => live
           /\ \A t \in Tokens : grants[t] # {} => live
BY DEF TableOK, WellFormed, Table

LEMMA NoNamespaceType == NoNamespace \in TableType /\ WellFormed(NoNamespace)
BY CredentialFacts DEF NoNamespace, TableType, WellFormed

LEMMA CreatedType ==
    ASSUME TableOK, NEW t \in Tokens
    PROVE  Created(t) \in TableType /\ WellFormed(Created(t))
BY CredentialFacts DEF TableOK, Created, TableType, WellFormed

\* A token comes, goes or takes the owner's place in a namespace that is there.
LEMMA ChangedType ==
    ASSUME TableOK, live, NEW t \in Tokens
    PROVE  /\ Rotated(t) \in TableType /\ WellFormed(Rotated(t))
           /\ \A P \in SUBSET Permissions : t # owner =>
                  Granted(t, P) \in TableType /\ WellFormed(Granted(t, P))
           /\ \A b \in BOOLEAN : Published(b) \in TableType /\ WellFormed(Published(b))
<1>1. Rotated(t) \in TableType /\ WellFormed(Rotated(t))
      BY CredentialFacts DEF TableOK, Table, Rotated, TableType, WellFormed, Permissions
<1>2. ASSUME NEW P \in SUBSET Permissions, t # owner
      PROVE  Granted(t, P) \in TableType /\ WellFormed(Granted(t, P))
      BY <1>2, TableFacts, CredentialFacts DEF TableOK, Table, Granted, TableType, WellFormed
<1>3. ASSUME NEW b \in BOOLEAN
      PROVE  Published(b) \in TableType /\ WellFormed(Published(b))
      BY <1>3, TableFacts, CredentialFacts DEF TableOK, Table, Published, TableType, WellFormed
<1>4. QED
      BY <1>1, <1>2, <1>3

\* The owner's token is not fresh, unless the permissions are those of nobody.
LEMMA FreshIsNotOwner ==
    ASSUME TableOK, NEW t \in Tokens, Fresh(t)
    PROVE  t # owner
<1>1. grants[t] = {}
      BY DEF TableOK, Fresh, Table
<1>2. QED
      BY <1>1, TableFacts, CredentialFacts DEF Permissions

LEMMA OutcomesType ==
    ASSUME TableOK, NEW r \in Requests, NEW e \in Outcomes(r)
    PROVE  e \in TableType /\ WellFormed(e)
<1>1. \/ e = NoNamespace \/ e = Table
      \/ \E t \in Tokens : \/ e = Created(t)
                           \/ live /\ e = Rotated(t)
                           \/ live /\ t # owner /\ e = Granted(t, {})
                           \/ live /\ Fresh(t) /\ \E P \in Grantable : e = Granted(t, P)
      \/ live /\ \E b \in BOOLEAN : e = Published(b)
      BY DEF Outcomes
<1>2. \A P \in Grantable : P \in SUBSET Permissions
      BY GrantableAssumption
<1>3. CASE live /\ \E b \in BOOLEAN : e = Published(b)
      BY <1>3, TableFacts, CredentialFacts DEF TableOK, Table, Published, TableType, WellFormed
<1>4. QED
      BY <1>1, <1>2, <1>3, NoNamespaceType, TableFacts, CreatedType, ChangedType,
         FreshIsNotOwner

\* The table becomes a well-formed one, and nothing else may come back.
LEMMA StoresType ==
    ASSUME TableOK, NEW e \in TableType, WellFormed(e), Stores(e),
           births' \in Nat, handed' \subseteq Tokens
    PROVE  TableOK'
<1>1. Table' = e
      BY DEF Stores, Shows, Table, TableType
<1>2. QED
      BY <1>1 DEF Stores, Shows, TableOK, TableType

LEMMA TableKept ==
    ASSUME TableOK, UNCHANGED <<tableVars, births, handed>>
    PROVE  TableOK'
<1>1. Table' = Table /\ UNCHANGED <<live, owner, grants, public, era, file, after>>
      BY DEF Table, tableVars
<1>2. \A e \in after : WellFormed(e)'
      BY DEF TableOK, WellFormed
<1>3. QED
      BY <1>1, <1>2 DEF TableOK

LEMMA TypeInit == Init => TypeOK
<1> SUFFICES ASSUME Init PROVE TypeOK
    OBVIOUS
<1>1. TableOK
  <2>1. Table = NoNamespace
        BY DEF Init, Table, NoNamespace
  <2>2. QED
        BY <2>1, NoNamespaceType DEF Init, TableOK
<1>2. RequestsOK
      BY DEF Init, RequestsOK, Steps, Statuses, Decisions
<1>3. ObjectsOK
      BY DEF Init, ObjectsOK
<1>4. QED
      BY <1>1, <1>2, <1>3, TypeSplit

\* The answers of one request leave every other as it is.
LEMMA RefuseType ==
    ASSUME RequestsOK, NEW r \in Requests, NEW s \in Statuses, Refuse(r, s)
    PROVE  RequestsOK'
BY DEF RequestsOK, Refuse, Steps

LEMMA AnswerType ==
    ASSUME RequestsOK, NEW r \in Requests, NEW s \in Statuses, Answer(r, s),
           possible' \in [Requests -> SUBSET Decisions]
    PROVE  RequestsOK'
BY DEF RequestsOK, Answer, Steps

LEMMA GateType ==
    ASSUME TypeOK, NEW r \in Requests, Gate(r)
    PROVE  TypeOK'
<1>1. TableOK /\ RequestsOK /\ ObjectsOK
      BY TypeSplit
<1>2. \/ \E p \in GateSteps : Ask(r, p)
      \/ \E s \in Statuses : Refuse(r, s)
      \/ Grant(r)
  <2>1. CASE ReadPublic(r)
        BY <2>1 DEF ReadPublic, GateSteps
  <2>2. CASE RequireRoot(r)
        BY <2>2 DEF RequireRoot, Statuses
  <2>3. CASE Exists(r)
        BY <2>3 DEF Exists, Statuses, GateSteps
  <2>4. CASE Authorize(r)
        BY <2>4 DEF Authorize, Statuses, GateSteps, Permissions
  <2>5. CASE \E p \in Permissions : Probe(r, p)
        BY <2>5 DEF Probe, Statuses, GateSteps, Permissions
  <2>6. QED
        BY <2>1, <2>2, <2>3, <2>4, <2>5 DEF Gate
<1>3. CASE \E p \in GateSteps : Ask(r, p)
      BY <1>1, <1>3, TableKept, TypeSplit DEF Ask, RequestsOK, ObjectsOK, Steps
<1>4. CASE \E s \in Statuses : Refuse(r, s)
  <2>1. RequestsOK'
        BY <1>1, <1>4, RefuseType
  <2>2. TableOK' /\ ObjectsOK'
        BY <1>1, <1>4, TableKept DEF Refuse, ObjectsOK
  <2>3. QED
        BY <2>1, <2>2, TypeSplit
<1>5. CASE Grant(r)
  <2>1. RequestsOK'
        BY <1>1, <1>5 DEF Grant, RequestsOK, TableOK, Steps
  <2>2. TableOK' /\ ObjectsOK'
        BY <1>1, <1>5, TableKept DEF Grant, ObjectsOK
  <2>3. QED
        BY <2>1, <2>2, TypeSplit
<1>6. QED
      BY <1>2, <1>3, <1>4, <1>5

\* What the mutations of the table have in common.
LEMMA MutationType ==
    ASSUME TypeOK, NEW r \in Requests, NEW s \in Statuses, Answer(r, s), Observe,
           TableOK', UNCHANGED <<alias, leaked>>
    PROVE  TypeOK'
<1>1. RequestsOK /\ ObjectsOK
      BY TypeSplit
<1>2. RequestsOK'
      BY <1>1, ObserveType, AnswerType DEF RequestsOK
<1>3. QED
      BY <1>1, <1>2, TypeSplit DEF ObjectsOK

\* What the actions on objects have in common.
LEMMA ObjectType ==
    ASSUME TypeOK, NEW r \in Requests, NEW s \in Statuses, Answer(r, s),
           UNCHANGED <<tableVars, births, handed, possible>>, ObjectsOK'
    PROVE  TypeOK'
<1>1. TableOK /\ RequestsOK
      BY TypeSplit
<1>2. RequestsOK' /\ TableOK'
      BY <1>1, AnswerType, TableKept DEF RequestsOK
<1>3. QED
      BY <1>2, TypeSplit

LEMMA IndexType ==
    ASSUME TypeOK, NEW r \in Requests, Index(r)
    PROVE  TypeOK'
<1>1. TableOK /\ RequestsOK /\ ObjectsOK
      BY TypeSplit
<1>2. ASSUME NEW o \in Operations, NEW k \in Paths \cup {None}, NEW p \in GateSteps,
             Becomes(r, o, k, p)
      PROVE  TypeOK'
  <2>1. RequestsOK'
        BY <1>1, <1>2, DecisionType DEF Becomes, RequestsOK, Steps
  <2>2. TableOK' /\ ObjectsOK'
        BY <1>1, <1>2, TableKept DEF Becomes, ObjectsOK
  <2>3. QED
        BY <2>1, <2>2, TypeSplit
<1>3. CASE ListRoot(r)
      BY <1>2, <1>3 DEF ListRoot, GateSteps, Operations, GatedOps, ObjectOps
<1>4. CASE NoIndex(r)
  <2>1. RequestsOK'
        BY <1>1, <1>4, RefuseType DEF NoIndex, Statuses
  <2>2. TableOK' /\ ObjectsOK'
        BY <1>1, <1>4, TableKept DEF NoIndex, Refuse, ObjectsOK
  <2>3. QED
        BY <2>1, <2>2, TypeSplit
<1>5. ASSUME NEW k \in Paths, TryServeIndex(r, k)
      PROVE  TypeOK'
      BY <1>2, <1>5 DEF TryServeIndex, GateSteps, Operations, GatedOps, ObjectOps
<1>6. QED
      BY <1>3, <1>4, <1>5 DEF Index

LEMMA TypeStep == TypeOK /\ [Next]_vars => TypeOK'
<1> SUFFICES ASSUME TypeOK, [Next]_vars PROVE TypeOK'
    OBVIOUS
<1>1. TableOK /\ RequestsOK /\ ObjectsOK
      BY TypeSplit
<1>2. CASE UNCHANGED vars
      BY <1>1, <1>2, TableKept, TypeSplit DEF vars, requestVars, RequestsOK, ObjectsOK
<1>3. CASE Kill \/ PowerLoss
  <2>1. RequestsOK'
        BY <1>3 DEF Kill, PowerLoss, Stop, RequestsOK, Steps, Statuses
  <2>2. TableOK'
    <3>1. CASE Kill
      <4>1. file \in TableType
            BY <1>1 DEF TableOK
      <4>2. Table' = file
            BY <3>1, <4>1 DEF Kill, Shows, Table, TableType
      <4>3. QED
            BY <1>1, <3>1, <4>1, <4>2 DEF Kill, Shows, Stop, TableOK, TableType
    <3>2. CASE PowerLoss
      <4>1. PICK e \in after : Stores(e)
            BY <3>2 DEF PowerLoss
      <4>2. e \in TableType /\ WellFormed(e)
            BY <1>1 DEF TableOK
      <4>3. births' \in Nat /\ handed' \subseteq Tokens
            BY <1>1, <3>2 DEF PowerLoss, Stop, TableOK
      <4>4. QED
            BY <1>1, <4>1, <4>2, <4>3, StoresType
    <3>3. QED
          BY <1>3, <3>1, <3>2
  <2>3. ObjectsOK'
    <3>1. Stop
          BY <1>3 DEF Kill, PowerLoss
    <3>2. leaked' \subseteq Nat
          BY <1>1, <3>1 DEF Stop, ObjectsOK, RequestsOK, TableOK
    <3>3. QED
          BY <1>1, <3>1, <3>2 DEF Stop, ObjectsOK
  <2>4. QED
        BY <2>1, <2>2, <2>3, TypeSplit
<1>4. ASSUME NEW r \in Requests, NEW o \in Operations, NEW k \in Paths \cup {None},
             NEW t \in Tokens \cup {Root, Stranger, None}, Arrive(r, o, t, k)
      PROVE  TypeOK'
  <2>1. RequestsOK'
        BY <1>1, <1>4, DecisionType DEF Arrive, RequestsOK, Steps, GateSteps
  <2>2. TableOK' /\ ObjectsOK'
        BY <1>1, <1>4, TableKept DEF Arrive, ObjectsOK
  <2>3. QED
        BY <2>1, <2>2, TypeSplit
<1>5. ASSUME NEW r \in Requests, Gate(r)
      PROVE  TypeOK'
      BY <1>5, GateType
<1>6. ASSUME NEW r \in Requests, Act(r)
      PROVE  TypeOK'
  <2> USE DEF Statuses
  <2>1. CASE Upload(r)
        BY <1>1, <2>1, ObjectType
        DEF Upload, Acts, ObjectsOK, RequestsOK, Stamp
  <2>2. CASE Delete(r)
        BY <1>1, <2>2, ObjectType DEF Delete, ObjectsOK
  <2>3. CASE Read(r)
        BY <1>1, <2>3, ObjectType DEF Read, ObjectsOK
  <2>4. CASE Missing(r)
        BY <1>1, <2>4, ObjectType DEF Missing, ObjectsOK
  <2>5. CASE PurgeDone(r)
        BY <1>1, <2>5, ObjectType DEF PurgeDone, ObjectsOK
  <2>6. CASE PurgeFails(r)
        BY <1>1, <2>6, ObjectType DEF PurgeFails, ObjectsOK, RequestsOK
  <2>7. CASE Fail(r)
        BY <1>1, <2>7, ObjectType DEF Fail, ObjectsOK
  <2>8. CASE \E k \in Paths : Purge(r, k)
    <3>1. TableOK' /\ ObjectsOK'
          BY <1>1, <2>8, TableKept DEF Purge, ObjectsOK
    <3>2. RequestsOK'
          BY <1>1, <2>8 DEF Purge, RequestsOK
    <3>3. QED
          BY <3>1, <3>2, TypeSplit
  <2>9. CASE Remove(r)
    <3>1. TableOK'
          BY <1>1, <2>9, NoNamespaceType, StoresType DEF Remove, TableOK
    <3>2. possible' \in [Requests -> SUBSET Decisions]
          BY <1>1, <2>9, ObserveType DEF Remove, RequestsOK
    <3>3. RequestsOK' /\ ObjectsOK'
          BY <1>1, <2>9, <3>2 DEF Remove, RequestsOK, TableOK, ObjectsOK, Steps
    <3>4. QED
          BY <3>1, <3>3, TypeSplit
  <2>10. ASSUME NEW b \in BOOLEAN, SetPublic(r, b)
         PROVE  TypeOK'
    <3>1. CASE UNCHANGED tableVars
          BY <1>1, <2>10, <3>1, MutationType DEF SetPublic, TableOK, tableVars, Table
    <3>2. CASE Stores(Published(b))
      <4>1. Published(b) \in TableType /\ WellFormed(Published(b))
            BY <1>1, <2>10, TableFacts, CredentialFacts
            DEF SetPublic, TableOK, Table, Published, TableType, WellFormed
      <4>2. TableOK'
            BY <1>1, <2>10, <3>2, <4>1, StoresType DEF SetPublic, TableOK
      <4>3. QED
            BY <2>10, <4>2, MutationType DEF SetPublic
    <3>3. QED
          BY <2>10, <3>1, <3>2 DEF SetPublic
  <2>11. ASSUME NEW t \in Tokens, Create(r, t)
         PROVE  TypeOK'
    <3>1. TableOK'
          BY <1>1, <2>11, CreatedType, StoresType DEF Create, TableOK
    <3>2. QED
          BY <3>1, <2>11, MutationType DEF Create
  <2>12. ASSUME NEW t \in Tokens, Rotate(r, t)
         PROVE  TypeOK'
    <3>1. TableOK'
          BY <1>1, <2>12, ChangedType, StoresType DEF Rotate, TableOK
    <3>2. QED
          BY <3>1, <2>12, MutationType DEF Rotate
  <2>13. ASSUME NEW t \in Tokens, Revoke(r, t)
         PROVE  TypeOK'
    <3>1. TableOK'
          BY <1>1, <2>13, ChangedType, StoresType DEF Revoke, TableOK
    <3>2. QED
          BY <3>1, <2>13, MutationType DEF Revoke
  <2>14. ASSUME NEW t \in Tokens, NEW P \in Grantable, Issue(r, t, P)
         PROVE  TypeOK'
    <3>1. P \in SUBSET Permissions /\ t # owner
          BY <1>1, <2>14, GrantableAssumption, FreshIsNotOwner DEF Issue
    <3>2. TableOK'
          BY <1>1, <2>14, <3>1, ChangedType, StoresType DEF Issue, TableOK
    <3>3. QED
          BY <3>2, <2>14, MutationType DEF Issue
  <2>15. CASE SetIndex(r)
    <3>1. TableOK'
          BY <1>1, <2>15 DEF SetIndex, TableOK, Table
    <3>2. RequestsOK' /\ ObjectsOK'
          BY <1>1, <2>15, AnswerType DEF SetIndex, RequestsOK, ObjectsOK
    <3>3. QED
          BY <3>1, <3>2, TypeSplit
  <2>16. ASSUME NEW t \in Tokens, RevokeRefused(r, t)
         PROVE  TypeOK'
         BY <1>1, <2>16, ObjectType DEF RevokeRefused, ObjectsOK
  \* What the next start may find is well-formed too.
  <2>17. CASE FailUnsettled(r)
    <3>1. PICK e \in Outcomes(r) : file' = e /\ after' = after \cup {e}
          BY <2>17 DEF FailUnsettled
    <3>2. TableOK'
          BY <1>1, <2>17, <3>1, OutcomesType DEF FailUnsettled, TableOK, Table
    <3>3. RequestsOK' /\ ObjectsOK'
          BY <1>1, <2>17, AnswerType DEF FailUnsettled, RequestsOK, ObjectsOK
    <3>4. QED
          BY <3>2, <3>3, TypeSplit
  <2>18. QED
        BY <1>6, <2>1, <2>2, <2>3, <2>4, <2>5, <2>6, <2>7, <2>8, <2>9, <2>10, <2>11, <2>12,
           <2>13, <2>14, <2>15, <2>16, <2>17 DEF Act
<1>7. ASSUME NEW r \in Requests, Reply(r)
      PROVE  TypeOK'
  <2>1. RequestsOK'
        BY <1>1, <1>7 DEF Reply, RequestsOK, Steps, Statuses
  <2>2. TableOK' /\ ObjectsOK'
        BY <1>1, <1>7, TableKept DEF Reply, ObjectsOK
  <2>3. QED
        BY <2>1, <2>2, TypeSplit
<1>8. ASSUME NEW r \in Requests, Index(r)
      PROVE  TypeOK'
      BY <1>8, IndexType
<1>9. QED
      BY <1>2, <1>3, <1>4, <1>5, <1>6, <1>7, <1>8 DEF Next

\* The state is well formed: the table of the authorization store, the tables a restart
\* may show, the requests and the objects.  In particular the owner's token always has
\* all permissions, and a namespace that is gone has neither tokens nor public reads.
THEOREM Typing == Spec => []TypeOK
BY TypeInit, TypeStep, PTL DEF Spec

---------------------------------------------------------------------------
(* Nothing is left behind                                                  *)

\* A step that publishes nothing and takes no removal further: the current life of
\* the namespace may only become a later one when it is over.
LEMMA NothingNew ==
    ASSUME NothingLeftBehind, RequestsOK,
           alias' = alias,
           \A e \in Nat : live /\ era = e => live' /\ era' = e,
           leaked \subseteq leaked',
           \A q \in Requests : pc[q] = "purge" =>
              pc'[q] = "purge" /\ gen'[q] = gen[q] /\ todo'[q] = todo[q],
           TypeOK
    PROVE  NothingLeftBehind'
<1> SUFFICES ASSUME NEW k \in Paths, alias'[k] # None, ~alias'[k].late,
                    ~(live' /\ alias'[k].era = era')
             PROVE  \/ alias'[k].era \in leaked'
                    \/ \E r \in Requests : pc'[r] = "purge" /\ gen'[r] = alias'[k].era
                                           /\ k \in todo'[r]
    BY DEF NothingLeftBehind
<1>1. alias[k] \in Stamp /\ alias'[k] = alias[k] /\ alias[k].era \in Nat
      BY DEF TypeOK, Stamp
<1>2. ~(live /\ alias[k].era = era)
      BY <1>1
<1>3. CASE alias[k].era \in leaked
      BY <1>1, <1>3
<1>4. CASE \E r \in Requests : pc[r] = "purge" /\ gen[r] = alias[k].era /\ k \in todo[r]
      BY <1>1, <1>4
<1>5. QED
      BY <1>1, <1>2, <1>3, <1>4 DEF NothingLeftBehind

\* A life of the namespace ends with a removal or a restart only.
LEMMA SameLife ==
    ASSUME NEW t, NEW P, NEW b, live,
           Stores(Rotated(t)) \/ Stores(Granted(t, P)) \/ Stores(Published(b))
    PROVE  live' = live /\ era' = era
BY DEF Stores, Shows, Rotated, Granted, Published, Table

LEMMA LeftBehindInit == Init => NothingLeftBehind
BY DEF Init, NothingLeftBehind

LEMMA LeftBehindStep == TypeOK /\ NothingLeftBehind /\ [Next]_vars => NothingLeftBehind'
<1> SUFFICES ASSUME TypeOK, NothingLeftBehind, [Next]_vars PROVE NothingLeftBehind'
    OBVIOUS
<1>1. TableOK /\ RequestsOK /\ ObjectsOK
      BY TypeSplit
<1>2. CASE UNCHANGED vars
      BY <1>1, <1>2, NothingNew DEF vars, tableVars, requestVars
\* A restart accounts for the removals it cuts short, and for the life it ends.
<1>3. CASE Kill \/ PowerLoss
  <2>1. Stop /\ alias' = alias
        BY <1>3 DEF Kill, PowerLoss, Stop
  <2> SUFFICES ASSUME NEW k \in Paths, alias[k] # None, ~alias[k].late,
                      ~(live' /\ alias[k].era = era')
               PROVE  alias[k].era \in leaked'
      BY <2>1 DEF NothingLeftBehind
  <2>2. CASE live /\ alias[k].era = era
        BY <2>1, <2>2 DEF Stop
  <2>3. CASE ~(live /\ alias[k].era = era)
        BY <2>1, <2>3 DEF Stop, NothingLeftBehind
  <2>4. QED
        BY <2>2, <2>3
<1>4. ASSUME NEW r \in Requests, NEW o \in Operations, NEW k \in Paths \cup {None},
             NEW t \in Tokens \cup {Root, Stranger, None}, Arrive(r, o, t, k)
      PROVE  NothingLeftBehind'
      BY <1>1, <1>4, NothingNew DEF Arrive, RequestsOK, tableVars
<1>5. ASSUME NEW r \in Requests, Gate(r)
      PROVE  NothingLeftBehind'
  <2>1. pc[r] # "purge"
        BY <1>5 DEF Gate, ReadPublic, RequireRoot, Exists, Authorize, Probe, Permissions
  <2>2. \/ \E p : Ask(r, p)
        \/ \E s : Refuse(r, s)
        \/ Grant(r)
        BY <1>5 DEF Gate, ReadPublic, RequireRoot, Exists, Authorize, Probe, Permissions
  <2>3. QED
        BY <1>1, <2>1, <2>2, NothingNew DEF Ask, Refuse, Grant, RequestsOK, tableVars
<1>6. ASSUME NEW r \in Requests, Reply(r)
      PROVE  NothingLeftBehind'
      BY <1>1, <1>6, NothingNew DEF Reply, RequestsOK, tableVars
\* Answers of requests that remove nothing.
<1>7. ASSUME NEW r \in Requests, NEW s, Answer(r, s), pc[r] # "purge", alias' = alias,
             \A e \in Nat : live /\ era = e => live' /\ era' = e, leaked' = leaked
      PROVE  NothingLeftBehind'
      BY <1>1, <1>7, NothingNew DEF Answer, RequestsOK
<1>8. ASSUME NEW r \in Requests, Act(r)
      PROVE  NothingLeftBehind'
  <2>1. CASE Upload(r)
    <3>1. \A q \in Requests : pc[q] = "purge" =>
              pc'[q] = "purge" /\ gen'[q] = gen[q] /\ todo'[q] = todo[q]
          BY <1>1, <2>1 DEF Upload, Acts, Answer, RequestsOK
    <3> SUFFICES ASSUME NEW k \in Paths, alias'[k] # None, ~alias'[k].late,
                        ~(live' /\ alias'[k].era = era')
                 PROVE  \/ alias'[k].era \in leaked'
                        \/ \E q \in Requests : pc'[q] = "purge" /\ gen'[q] = alias'[k].era
                                               /\ k \in todo'[q]
        BY DEF NothingLeftBehind
    <3>2. alias'[k] = alias[k] /\ live' = live /\ era' = era /\ leaked' = leaked
          BY <1>1, <2>1 DEF Upload, ObjectsOK, tableVars
    <3>3. QED
          BY <3>1, <3>2 DEF NothingLeftBehind
  <2>2. CASE Delete(r)
    <3>1. CASE alias' = alias
          BY <2>2, <3>1, <1>7 DEF Delete, Acts, tableVars
    <3>2. CASE alias' = [alias EXCEPT ![path[r]] = None]
      <4>1. \A q \in Requests : pc[q] = "purge" =>
                pc'[q] = "purge" /\ gen'[q] = gen[q] /\ todo'[q] = todo[q]
            BY <1>1, <2>2 DEF Delete, Acts, Answer, RequestsOK
      <4>2. \A k \in Paths : alias'[k] \in {alias[k], None}
            BY <1>1, <3>2 DEF ObjectsOK
      <4>3. live' = live /\ era' = era /\ leaked' = leaked
            BY <2>2 DEF Delete, tableVars
      <4>4. QED
            BY <4>1, <4>2, <4>3 DEF NothingLeftBehind
    <3>3. QED
          BY <2>2, <3>1, <3>2 DEF Delete
  <2>3. CASE Read(r)
        BY <2>3, <1>7 DEF Read, Acts, tableVars
  <2>4. CASE Missing(r)
        BY <2>4, <1>7 DEF Missing, tableVars
  <2>5. CASE Fail(r)
        BY <2>5, <1>7 DEF Fail, tableVars
  <2>6. ASSUME NEW b \in BOOLEAN, SetPublic(r, b)
        PROVE  NothingLeftBehind'
    <3>1. live' = live /\ era' = era
          BY <2>6, SameLife DEF SetPublic, tableVars
    <3>2. QED
          BY <2>6, <3>1, <1>7 DEF SetPublic, Acts
  <2>7. ASSUME NEW t \in Tokens,
               Create(r, t) \/ Rotate(r, t) \/ Revoke(r, t) \/ RevokeRefused(r, t)
        PROVE  NothingLeftBehind'
    <3>1. \E s : Answer(r, s)
          BY <2>7 DEF Create, Rotate, Revoke, RevokeRefused
    <3>2. ~live \/ (live' = live /\ era' = era)
          BY <2>7, SameLife DEF Create, Rotate, Revoke, RevokeRefused, tableVars
    <3>3. /\ pc[r] # "purge" /\ alias' = alias /\ leaked' = leaked
          BY <2>7 DEF Create, Rotate, Revoke, RevokeRefused, Acts
    <3>4. QED
          BY <3>1, <3>2, <3>3, <1>7
  <2>8. ASSUME NEW t \in Tokens, NEW P \in Grantable, Issue(r, t, P)
        PROVE  NothingLeftBehind'
    <3>1. live' = live /\ era' = era
          BY <2>8, SameLife DEF Issue
    <3>2. QED
          BY <2>8, <3>1, <1>7 DEF Issue, Acts
  \* The life that ends is the one the removal has all aliases of before it.
  <2>9. CASE Remove(r)
    <3>1. /\ alias' = alias /\ leaked' = leaked /\ live
          /\ pc'[r] = "purge" /\ gen'[r] = era /\ todo'[r] = Paths
          /\ \A q \in Requests : pc[q] = "purge" =>
                pc'[q] = "purge" /\ gen'[q] = gen[q] /\ todo'[q] = todo[q]
          BY <1>1, <2>9 DEF Remove, Acts, RequestsOK
    <3>2. QED
          BY <3>1 DEF NothingLeftBehind
  \* An alias that is still to unlink stays so until it is unlinked.
  <2>10. ASSUME NEW k \in Paths, Purge(r, k)
         PROVE  NothingLeftBehind'
    <3>1. /\ live' = live /\ era' = era /\ leaked' = leaked /\ pc' = pc /\ gen' = gen
          /\ alias'[k] = None
          /\ \A j \in Paths \ {k} : alias'[j] = alias[j]
          /\ \A j \in Paths \ {k}, q \in Requests : j \in todo[q] => j \in todo'[q]
          BY <1>1, <2>10 DEF Purge, RequestsOK, ObjectsOK, tableVars
    <3>2. QED
          BY <3>1 DEF NothingLeftBehind
  <2>11. CASE PurgeDone(r)
    <3>1. /\ alias' = alias /\ leaked' = leaked /\ live' = live /\ era' = era /\ todo[r] = {}
          /\ \A q \in Requests \ {r} : pc'[q] = pc[q] /\ gen'[q] = gen[q] /\ todo'[q] = todo[q]
          BY <1>1, <2>11 DEF PurgeDone, Answer, RequestsOK, tableVars
    <3>2. QED
          BY <3>1 DEF NothingLeftBehind
  <2>12. CASE PurgeFails(r)
    <3>1. /\ alias' = alias /\ leaked' = leaked \cup {gen[r]} /\ live' = live /\ era' = era
          /\ \A q \in Requests \ {r} : pc'[q] = pc[q] /\ gen'[q] = gen[q] /\ todo'[q] = todo[q]
          BY <1>1, <2>12 DEF PurgeFails, Answer, RequestsOK, tableVars
    <3>2. QED
          BY <3>1 DEF NothingLeftBehind
  <2>13. CASE SetIndex(r)
         BY <2>13, <1>7 DEF SetIndex, Acts
  <2>14. CASE FailUnsettled(r)
         BY <2>14, <1>7 DEF FailUnsettled
  <2>15. QED
         BY <1>8, <2>1, <2>2, <2>3, <2>4, <2>5, <2>6, <2>7, <2>8, <2>9, <2>10, <2>11, <2>12,
            <2>13, <2>14 DEF Act
<1>9. ASSUME NEW r \in Requests, Index(r)
      PROVE  NothingLeftBehind'
      BY <1>1, <1>9, NothingNew
      DEF Index, ListRoot, NoIndex, TryServeIndex, Becomes, Refuse, RequestsOK, tableVars
<1>10. QED
       BY <1>2, <1>3, <1>4, <1>5, <1>6, <1>8, <1>9 DEF Next

\* Whatever is found of an earlier life of the namespace has a reason: its upload
\* outlived that life, the removal is still at work or was cut short by an error or a
\* crash, or it had failed and a restart found it done.
THEOREM RemovalAccountsForObjects == Spec => []NothingLeftBehind
BY Typing, LeftBehindInit, LeftBehindStep, PTL DEF Spec

---------------------------------------------------------------------------
(* The gate's decisions are timely                                         *)

\* GateKnows for one request.
KnowsOf(r) ==
    pc[r] \in GateSteps =>
        /\ op[r] \in GatedOps
        /\ token[r] \in handed \cup {Root, Stranger, None}
        /\ Decision(op[r], token[r]) \in possible[r]
        /\ pc[r] = "root" <=> op[r] \in RootOps
        /\ pc[r] = "public" => op[r] = "get"
        /\ pc[r] \in {"rights"} \cup Permissions => token[r] # Root
        /\ pc[r] \in Permissions =>
              /\ op[r] \in {"list", "put", "delete"}
              /\ Needed[op[r]] \notin RightsOf(token[r])
              /\ pc[r] # "read" => "read" \notin RightsOf(token[r])
              /\ pc[r] = "delete" => "write" \notin RightsOf(token[r])

LEMMA KnowsSplit ==
    /\ GateKnows <=> \A r \in Requests : KnowsOf(r)
    /\ GateKnows' <=> \A r \in Requests : KnowsOf(r)'
BY DEF GateKnows, KnowsOf

\* What the gate looks at stays as it is.
SameTable == UNCHANGED <<live, owner, grants, public>>

LEMMA TableIsSame == UNCHANGED tableVars => SameTable
BY DEF tableVars, SameTable

\* A request the step does not concern knows what it knew: no table changes.
LEMMA KnowsKept ==
    ASSUME NEW r \in Requests, KnowsOf(r), SameTable, handed' = handed,
           pc'[r] = pc[r], op'[r] = op[r], token'[r] = token[r], possible'[r] = possible[r]
    PROVE  KnowsOf(r)'
<1>1. Decision(op[r], token[r])' = Decision(op[r], token[r])
      BY DEF Decision, RightsOf, SameTable
<1>2. RightsOf(token[r])' = RightsOf(token[r])
      BY DEF RightsOf, SameTable
<1>3. QED
      BY <1>1, <1>2 DEF KnowsOf

\* A mutation of the table teaches every request at the gate the new decision, and
\* gives no token that a request may hold a right it had not.
LEMMA KnowsMore ==
    ASSUME GateKnows, TypeOK, Observe,
           \A r \in Requests : pc'[r] \in GateSteps =>
              pc'[r] = pc[r] /\ op'[r] = op[r] /\ token'[r] = token[r],
           handed \subseteq handed',
           \A t \in handed : grants'[t] \subseteq grants[t]
    PROVE  GateKnows'
<1> SUFFICES ASSUME NEW r \in Requests, pc'[r] \in GateSteps PROVE KnowsOf(r)'
    BY KnowsSplit DEF KnowsOf
<1>1. KnowsOf(r) /\ pc'[r] = pc[r] /\ op'[r] = op[r] /\ token'[r] = token[r]
      BY KnowsSplit
<1>2. possible'[r] = possible[r] \cup {Decision(op[r], token[r])'}
      BY <1>1 DEF Observe
<1>3. RightsOf(token[r])' \subseteq RightsOf(token[r])
      BY <1>1, CredentialFacts DEF KnowsOf, RightsOf
<1>4. QED
      BY <1>1, <1>2, <1>3 DEF KnowsOf

LEMMA KnowsInit == Init => GateKnows
BY DEF Init, GateKnows, GateSteps, Permissions

\* The step after a question that answered nothing.
LEMMA KnowsAsk ==
    ASSUME TypeOK, GateKnows, NEW r \in Requests, NEW p, Ask(r, p),
           pc[r] \in GateSteps \ {"root"}, p \in GateSteps \ {"root", "public"},
           p \in {"rights"} \cup Permissions => token[r] # Root,
           p \in Permissions =>
              /\ op[r] \in {"list", "put", "delete"}
              /\ Needed[op[r]] \notin RightsOf(token[r])
              /\ p # "read" => "read" \notin RightsOf(token[r])
              /\ p = "delete" => "write" \notin RightsOf(token[r])
    PROVE  GateKnows'
<1>1. RequestsOK
      BY TypeSplit
<1>2. ASSUME NEW q \in Requests, q # r PROVE KnowsOf(q)'
      BY <1>1, <1>2, KnowsSplit, KnowsKept, TableIsSame DEF Ask, RequestsOK
<1>3. KnowsOf(r)'
  <2>1. pc'[r] = p /\ UNCHANGED <<tableVars, handed, op, token, possible>>
        BY <1>1 DEF Ask, RequestsOK
  <2>2. Decision(op[r], token[r])' = Decision(op[r], token[r])
        BY <2>1 DEF Decision, RightsOf, tableVars
  <2>3. RightsOf(token[r])' = RightsOf(token[r])
        BY <2>1 DEF RightsOf, tableVars
  <2>4. KnowsOf(r)
        BY KnowsSplit
  <2>5. QED
        BY <2>1, <2>2, <2>3, <2>4 DEF KnowsOf, GateSteps, Permissions
<1>4. QED
      BY <1>2, <1>3, KnowsSplit

\* The step that leaves the gate, or takes place elsewhere.
LEMMA KnowsLeave ==
    ASSUME GateKnows, NEW r \in Requests, pc'[r] \notin GateSteps,
           SameTable, handed' = handed,
           \A q \in Requests \ {r} :
              pc'[q] = pc[q] /\ op'[q] = op[q] /\ token'[q] = token[q]
              /\ possible'[q] = possible[q]
    PROVE  GateKnows'
<1>1. ASSUME NEW q \in Requests, q # r PROVE KnowsOf(q)'
      BY <1>1, KnowsSplit, KnowsKept
<1>2. KnowsOf(r)'
      BY DEF KnowsOf
<1>3. QED
      BY <1>1, <1>2, KnowsSplit

LEMMA LeaveTheGate ==
    ASSUME TypeOK, GateKnows, NEW r \in Requests, (\E s : Refuse(r, s)) \/ Grant(r)
    PROVE  GateKnows'
<1>1. RequestsOK
      BY TypeSplit
<1>2. QED
      BY <1>1, KnowsLeave, TableIsSame DEF Refuse, Grant, RequestsOK, GateSteps, Permissions

LEMMA KnowsGate ==
    ASSUME TypeOK, GateKnows, NEW r \in Requests, Gate(r)
    PROVE  GateKnows'
<1>1. KnowsOf(r) /\ RequestsOK
      BY KnowsSplit, TypeSplit
<1>2. CASE ReadPublic(r)
      BY <1>1, <1>2, KnowsAsk, LeaveTheGate DEF ReadPublic, GateSteps, Permissions
<1>3. CASE RequireRoot(r)
      BY <1>3, LeaveTheGate DEF RequireRoot
<1>4. CASE Exists(r)
      BY <1>1, <1>4, KnowsAsk, LeaveTheGate DEF Exists, GateSteps, Permissions
<1>5. CASE Authorize(r)
  <2>1. CASE Ask(r, "read")
    <3>1. /\ op[r] \in GatedOps /\ op[r] \notin RootOps \cup AdminOps \cup {"get"}
          /\ Needed[op[r]] \notin RightsOf(token[r]) /\ token[r] # Root /\ pc[r] = "rights"
          BY <1>1, <1>5, <2>1 DEF Authorize, KnowsOf, GateSteps, Ask, Refuse, Grant, RequestsOK, RootOps
    <3>2. op[r] \in {"list", "put", "delete"}
          BY <3>1 DEF GatedOps, ObjectOps
    <3>3. QED
          BY <2>1, <3>1, <3>2, KnowsAsk DEF GateSteps, Permissions
  <2>2. CASE (\E s : Refuse(r, s)) \/ Grant(r)
        BY <2>2, LeaveTheGate
  <2>3. QED
        BY <1>5, <2>1, <2>2 DEF Authorize
<1>6. ASSUME NEW p \in Permissions, Probe(r, p)
      PROVE  GateKnows'
  <2>1. CASE \E s : Refuse(r, s)
        BY <2>1, LeaveTheGate
  <2>2. CASE p = "read" /\ p \notin RightsOf(token[r]) /\ Ask(r, "write")
        BY <1>1, <1>6, <2>2, KnowsAsk DEF Probe, KnowsOf, GateSteps, Permissions
  <2>3. CASE p = "write" /\ p \notin RightsOf(token[r]) /\ Ask(r, "delete")
        BY <1>1, <1>6, <2>3, KnowsAsk DEF Probe, KnowsOf, GateSteps, Permissions
  <2>4. QED
        BY <1>6, <2>1, <2>2, <2>3 DEF Probe, Permissions
<1>7. QED
      BY <1>2, <1>3, <1>4, <1>5, <1>6 DEF Gate

\* A directory has become an object or a listing: the gate knows the new decision.
LEMMA KnowsIndex ==
    ASSUME TypeOK, GateKnows, TokensAreKnown, NEW r \in Requests, Index(r)
    PROVE  GateKnows'
<1>1. RequestsOK
      BY TypeSplit
<1>2. ASSUME NEW o \in {"get", "list"}, NEW k \in Paths \cup {None},
             Becomes(r, o, k, IF o = "get" THEN "public" ELSE "exists")
      PROVE  GateKnows'
  <2>1. ASSUME NEW q \in Requests, q # r PROVE KnowsOf(q)'
        BY <1>1, <1>2, <2>1, KnowsSplit, KnowsKept, TableIsSame DEF Becomes, RequestsOK
  <2>2. /\ pc'[r] = IF o = "get" THEN "public" ELSE "exists"
        /\ op'[r] = o /\ token' = token /\ possible'[r] = {Decision(o, token[r])}
        /\ UNCHANGED <<tableVars, handed>>
        BY <1>1, <1>2 DEF Becomes, RequestsOK
  <2>3. Decision(op[r], token[r])' = Decision(o, token[r])
        BY <2>2 DEF Decision, RightsOf, tableVars
  <2>4. KnowsOf(r)'
        BY <2>2, <2>3 DEF KnowsOf, TokensAreKnown, Permissions, GatedOps, ObjectOps, RootOps
  <2>5. QED
        BY <2>1, <2>4, KnowsSplit
<1>3. CASE ListRoot(r)
      BY <1>2, <1>3 DEF ListRoot
<1>4. CASE NoIndex(r)
      BY <1>4, LeaveTheGate DEF NoIndex
<1>5. ASSUME NEW k \in Paths, TryServeIndex(r, k)
      PROVE  GateKnows'
      BY <1>2, <1>5 DEF TryServeIndex
<1>6. QED
      BY <1>3, <1>4, <1>5 DEF Index

LEMMA KnowsStep == TypeOK /\ GateKnows /\ TokensAreKnown /\ [Next]_vars => GateKnows'
<1> SUFFICES ASSUME TypeOK, GateKnows, TokensAreKnown, [Next]_vars PROVE GateKnows'
    OBVIOUS
<1>1. RequestsOK /\ TableOK
      BY TypeSplit
<1>2. CASE UNCHANGED vars
  <2>1. \A r \in Requests : KnowsOf(r)'
        BY <1>2, KnowsSplit, KnowsKept, TableIsSame DEF vars, requestVars
  <2>2. QED
        BY <2>1, KnowsSplit
<1>3. CASE Kill \/ PowerLoss
      BY <1>3 DEF Kill, PowerLoss, Stop, GateKnows, GateSteps, Permissions
<1>4. ASSUME NEW r \in Requests, NEW o \in Operations, NEW k \in Paths \cup {None},
             NEW t \in Tokens \cup {Root, Stranger, None}, Arrive(r, o, t, k)
      PROVE  GateKnows'
  <2>1. ASSUME NEW q \in Requests, q # r PROVE KnowsOf(q)'
        BY <1>1, <1>4, <2>1, KnowsSplit, KnowsKept, TableIsSame DEF Arrive, RequestsOK
  <2>2. /\ op'[r] = o /\ token'[r] = t
        /\ o \notin DirectoryOps => possible'[r] = {Decision(o, t)}
        /\ UNCHANGED <<tableVars, handed>> /\ t \in handed \cup {Root, Stranger, None}
        /\ pc'[r] = CASE o = "get" -> "public" [] o \in RootOps -> "root"
                      [] o \in DirectoryOps -> "index" [] OTHER -> "exists"
        BY <1>1, <1>4 DEF Arrive, RequestsOK
  <2>3. Decision(op[r], token[r])' = Decision(o, t)
        BY <2>2 DEF Decision, RightsOf, tableVars
  <2>4. KnowsOf(r)'
        BY <2>2, <2>3 DEF KnowsOf, GateSteps, Permissions, Operations, RootOps, DirectoryOps
  <2>5. QED
        BY <2>1, <2>4, KnowsSplit
<1>5. ASSUME NEW r \in Requests, Gate(r)
      PROVE  GateKnows'
      BY <1>5, KnowsGate
<1>6. ASSUME NEW r \in Requests, Reply(r)
      PROVE  GateKnows'
      BY <1>1, <1>6, KnowsLeave, TableIsSame DEF Reply, RequestsOK, GateSteps, Permissions
<1>7. ASSUME NEW r \in Requests, Act(r)
      PROVE  GateKnows'
  \* Actions that leave the table as it is.
  <2>1. ASSUME NEW s, Answer(r, s), SameTable, UNCHANGED <<handed, possible>>
        PROVE  GateKnows'
        BY <1>1, <2>1, KnowsLeave DEF Answer, RequestsOK, GateSteps, Permissions
  <2>2. CASE \/ Upload(r) \/ Delete(r) \/ Read(r) \/ Missing(r)
             \/ PurgeDone(r) \/ PurgeFails(r) \/ Fail(r)
             \/ \E t \in Tokens : RevokeRefused(r, t)
        BY <2>1, <2>2, TableIsSame
        DEF Upload, Delete, Read, Missing, PurgeDone, PurgeFails, Fail, RevokeRefused
  <2>12. CASE SetIndex(r) \/ FailUnsettled(r)
        BY <2>1, <2>12 DEF SetIndex, FailUnsettled, SameTable
  <2>3. CASE \E k \in Paths : Purge(r, k)
        BY <2>3, KnowsLeave, TableIsSame DEF Purge, GateSteps, Permissions
  \* Actions that change it.
  <2>4. ASSUME NEW s, Answer(r, s), Observe, handed \subseteq handed',
               \A t \in handed : grants'[t] \subseteq grants[t]
        PROVE  GateKnows'
        BY <1>1, <2>4, KnowsMore DEF Answer, RequestsOK, GateSteps, Permissions
  <2>5. ASSUME NEW b \in BOOLEAN, SetPublic(r, b)
        PROVE  GateKnows'
    <3>1. grants' = grants
          BY <2>5 DEF SetPublic, Stores, Shows, Published, Table, tableVars
    <3>2. QED
          BY <2>4, <2>5, <3>1 DEF SetPublic
  <2>6. CASE Remove(r)
    <3>1. \A q \in Requests : pc'[q] \in GateSteps =>
              pc'[q] = pc[q] /\ op'[q] = op[q] /\ token'[q] = token[q]
          BY <1>1, <2>6 DEF Remove, RequestsOK, GateSteps, Permissions
    <3>2. \A t \in handed : grants'[t] \subseteq grants[t]
          BY <1>1, <2>6 DEF Remove, TableOK, Stores, Shows, NoNamespace
    <3>3. QED
          BY <2>6, <3>1, <3>2, KnowsMore DEF Remove
  <2>7. ASSUME NEW t \in Tokens, Create(r, t)
        PROVE  GateKnows'
    <3>1. \A u \in handed : grants'[u] \subseteq grants[u]
          BY <1>1, <2>7 DEF Create, TableOK, Stores, Shows, Created, Fresh
    <3>2. QED
          BY <2>4, <2>7, <3>1 DEF Create
  <2>8. ASSUME NEW t \in Tokens, Rotate(r, t)
        PROVE  GateKnows'
    <3>1. \A u \in handed : grants'[u] \subseteq grants[u]
          BY <1>1, <2>8 DEF Rotate, TableOK, Stores, Shows, Rotated, Table, Fresh
    <3>2. QED
          BY <2>4, <2>8, <3>1 DEF Rotate
  <2>9. ASSUME NEW t \in Tokens, Revoke(r, t)
        PROVE  GateKnows'
    <3>1. \A u \in handed : grants'[u] \subseteq grants[u]
          BY <1>1, <2>9 DEF Revoke, TableOK, Stores, Shows, Granted, Table
    <3>2. \E s : Answer(r, s)
          BY <2>9 DEF Revoke
    <3>3. QED
          BY <2>4, <2>9, <3>1, <3>2 DEF Revoke
  <2>10. ASSUME NEW t \in Tokens, NEW P \in Grantable, Issue(r, t, P)
         PROVE  GateKnows'
    <3>1. \A u \in handed : grants'[u] \subseteq grants[u]
          BY <1>1, <2>10 DEF Issue, TableOK, Stores, Shows, Granted, Table, Fresh
    <3>2. QED
          BY <2>4, <2>10, <3>1 DEF Issue
  <2>11. QED
         BY <1>7, <2>2, <2>3, <2>5, <2>6, <2>7, <2>8, <2>9, <2>10, <2>12 DEF Act
<1>8. ASSUME NEW r \in Requests, Index(r)
      PROVE  GateKnows'
      BY <1>8, KnowsIndex
<1>9. QED
      BY <1>2, <1>3, <1>4, <1>5, <1>6, <1>7, <1>8 DEF Next

LEMMA TokensInit == Init => TokensAreKnown
BY DEF Init, TokensAreKnown

\* A request keeps its token, drops it, or arrives with one that was issued.
LEMMA TokensStep == TypeOK /\ TokensAreKnown /\ [Next]_vars => TokensAreKnown'
<1> SUFFICES ASSUME TypeOK, TokensAreKnown, [Next]_vars PROVE TokensAreKnown'
    OBVIOUS
<1>1. RequestsOK
      BY TypeSplit
<1>2. CASE Kill \/ PowerLoss \/ UNCHANGED vars
      BY <1>2 DEF Kill, PowerLoss, Stop, vars, requestVars, TokensAreKnown
<1>3. ASSUME NEW r \in Requests, NEW o \in Operations, NEW k \in Paths \cup {None},
             NEW t \in Tokens \cup {Root, Stranger, None}, Arrive(r, o, t, k)
      PROVE  TokensAreKnown'
      BY <1>1, <1>3 DEF Arrive, RequestsOK, TokensAreKnown
<1>4. ASSUME NEW r \in Requests, (\E p : Ask(r, p)) \/ (\E s : Refuse(r, s)) \/ Grant(r)
      PROVE  TokensAreKnown'
      BY <1>1, <1>4 DEF Ask, Refuse, Grant, RequestsOK, TokensAreKnown
<1>5. ASSUME NEW r \in Requests, Gate(r)
      PROVE  TokensAreKnown'
      BY <1>4, <1>5 DEF Gate, ReadPublic, RequireRoot, Exists, Authorize, Probe, Permissions
<1>6. ASSUME NEW r \in Requests, Index(r)
      PROVE  TokensAreKnown'
  <2>1. CASE NoIndex(r)
        BY <1>4, <2>1 DEF NoIndex
  <2>2. CASE ListRoot(r) \/ \E k \in Paths : TryServeIndex(r, k)
        BY <2>2 DEF ListRoot, TryServeIndex, Becomes, TokensAreKnown
  <2>3. QED
        BY <1>6, <2>1, <2>2 DEF Index
<1>7. ASSUME NEW r \in Requests, Act(r)
      PROVE  TokensAreKnown'
  <2>1. token' = token /\ handed \subseteq handed'
        BY <1>7 DEF Act, Upload, Delete, Read, Missing, Remove, PurgeDone, PurgeFails,
           SetPublic, SetIndex, Fail, FailUnsettled, Purge, Create, Rotate, Revoke,
           RevokeRefused, Issue, Answer
  <2>2. QED
        BY <2>1 DEF TokensAreKnown
<1>8. ASSUME NEW r \in Requests, Reply(r)
      PROVE  TokensAreKnown'
      BY <1>8 DEF Reply, TokensAreKnown
<1>9. QED
      BY <1>2, <1>3, <1>5, <1>6, <1>7, <1>8 DEF Next

\* The invariant of this module.
THEOREM Inductive == Spec => []IInv
<1>1. Init => TypeOK /\ IInv
      BY TypeInit, KnowsInit, TokensInit, LeftBehindInit DEF IInv
<1>2. TypeOK /\ IInv /\ [Next]_vars => (TypeOK /\ IInv)'
      BY TypeStep, KnowsStep, TokensStep, LeftBehindStep DEF IInv
<1>3. QED
      BY <1>1, <1>2, PTL DEF Spec

---------------------------------------------------------------------------

Timely(r) ==
    pc[r] \in GateSteps /\ pc'[r] \in {"act", "reply"} =>
        \/ Outcome(r)' \in possible[r]
        \/ op[r] = "get" /\ Outcome(r)' = "401"

\* The answer of the gate is the decision of the table it looked at last.
LEMMA GateIsTimely ==
    ASSUME TypeOK, GateKnows, NEW r \in Requests, Gate(r)
    PROVE  Timely(r)
<1> USE CredentialFacts
<1>1. RequestsOK /\ TableOK /\ KnowsOf(r)
      BY KnowsSplit, TypeSplit
<1>2. SUFFICES ASSUME pc[r] \in GateSteps, pc'[r] \in {"act", "reply"}
               PROVE  \/ Outcome(r)' = Decision(op[r], token[r])
                      \/ op[r] = "get" /\ Outcome(r)' = "401"
      BY <1>1, <1>2 DEF Timely, KnowsOf
<1>3. /\ Grant(r) => Outcome(r)' = "granted"
      /\ \A s : Refuse(r, s) => Outcome(r)' = s
      /\ \A p \in GateSteps : ~Ask(r, p)
      BY <1>1, <1>2 DEF Grant, Refuse, Ask, Outcome, RequestsOK, GateSteps, Permissions
<1>4. \A t \in Tokens : grants[t] # {} => live
      BY <1>1, TableFacts
<1>5. ~live => ~public /\ owner = None
      BY <1>1, TableFacts
<1>6. op[r] \in GatedOps /\ (op[r] \in AdminOps \cup RootOps => op[r] # "get")
      BY <1>1, <1>2 DEF KnowsOf, AdminOps, RootOps
<1>7. CASE ReadPublic(r)
      BY <1>1, <1>2, <1>3, <1>7 DEF ReadPublic, KnowsOf, Decision, GateSteps, RootOps
<1>8. CASE RequireRoot(r)
      BY <1>1, <1>2, <1>3, <1>8 DEF RequireRoot, KnowsOf, Decision
<1>9. CASE Exists(r)
  <2>1. op[r] \notin RootOps
        BY <1>1, <1>2, <1>9 DEF Exists, KnowsOf
  <2>2. CASE token[r] = None
        BY <1>3, <1>6, <1>9, <2>1, <2>2 DEF Exists, Decision, RightsOf
  <2>3. CASE token[r] = Root
        BY <1>3, <1>5, <1>6, <1>9, <2>1, <2>3 DEF Exists, Decision, GateSteps
  <2>4. CASE token[r] \notin {None, Root}
    <3>1. ~live /\ Outcome(r)' = "401" /\ ~public /\ RightsOf(token[r]) = {}
          BY <1>3, <1>4, <1>5, <1>9, <2>4 DEF Exists, RightsOf, GateSteps
    <3>2. QED
          BY <1>5, <2>1, <2>4, <3>1 DEF Decision
  <2>5. QED
        BY <2>2, <2>3, <2>4
<1>10. CASE Authorize(r)
  <2>1. op[r] \notin RootOps /\ token[r] # Root
        BY <1>1, <1>2, <1>10 DEF Authorize, KnowsOf
  <2>2. QED
        BY <1>3, <1>6, <1>10, <2>1 DEF Authorize, Decision, GateSteps, Permissions, AdminOps
<1>11. ASSUME NEW p \in Permissions, Probe(r, p)
       PROVE  Outcome(r)' = Decision(op[r], token[r])
  <2>1. /\ op[r] \in {"list", "put", "delete"} /\ token[r] # Root
        /\ Needed[op[r]] \notin RightsOf(token[r])
        /\ p # "read" => "read" \notin RightsOf(token[r])
        /\ p = "delete" => "write" \notin RightsOf(token[r])
        BY <1>1, <1>2, <1>11 DEF Probe, KnowsOf
  <2>2. RightsOf(token[r]) \subseteq Permissions
        BY <1>1 DEF TableOK, RightsOf
  <2>3. Decision(op[r], token[r]) = IF RightsOf(token[r]) = {} THEN "401" ELSE "403"
        BY <2>1 DEF Decision, RootOps, AdminOps
  <2>4. CASE p \in RightsOf(token[r])
        BY <1>3, <1>11, <2>3, <2>4 DEF Probe
  <2>5. CASE p \notin RightsOf(token[r])
    <3>1. p = "delete" /\ Refuse(r, "401")
          BY <1>3, <1>11, <2>5 DEF Probe, GateSteps, Permissions
    <3>2. RightsOf(token[r]) = {}
          BY <2>1, <2>2, <2>5, <3>1 DEF Permissions
    <3>3. QED
          BY <1>3, <2>3, <3>1, <3>2
  <2>6. QED
        BY <2>4, <2>5
<1>12. QED
       BY <1>7, <1>8, <1>9, <1>10, <1>11, Gate(r) DEF Gate

\* No other step takes a request out of the gate.
LEMMA TimelyStep ==
    ASSUME TypeOK, GateKnows, Next, NEW r \in Requests
    PROVE  Timely(r)
<1>1. RequestsOK
      BY TypeSplit
<1> SUFFICES ASSUME pc[r] \in GateSteps, pc'[r] \in {"act", "reply"}, ~Gate(r)
             PROVE  FALSE
    BY GateIsTimely DEF Timely
<1>2. pc'[r] # pc[r]
      BY DEF GateSteps, Permissions
<1>3. CASE Kill \/ PowerLoss
      BY <1>3 DEF Kill, PowerLoss, Stop
<1>4. ASSUME NEW q \in Requests, NEW o \in Operations, NEW k \in Paths \cup {None},
             NEW t \in Tokens \cup {Root, Stranger, None}, Arrive(q, o, t, k)
      PROVE  FALSE
      BY <1>1, <1>2, <1>4 DEF Arrive, RequestsOK, GateSteps, Permissions
<1>5. ASSUME NEW q \in Requests, Gate(q)
      PROVE  FALSE
  <2>1. \/ \E p : Ask(q, p)
        \/ \E s : Refuse(q, s)
        \/ Grant(q)
        BY <1>5 DEF Gate, ReadPublic, RequireRoot, Exists, Authorize, Probe, Permissions
  <2>2. QED
        BY <1>1, <1>2, <1>5, <2>1 DEF Ask, Refuse, Grant, RequestsOK
<1>6. ASSUME NEW q \in Requests, Reply(q)
      PROVE  FALSE
      BY <1>1, <1>2, <1>6 DEF Reply, RequestsOK
<1>7. ASSUME NEW q \in Requests, Act(q)
      PROVE  FALSE
  <2>1. pc[q] \in {"act", "purge"}
        BY <1>7 DEF Act, Acts, Upload, Delete, Read, Missing, Remove, PurgeDone, PurgeFails,
           SetPublic, SetIndex, Fail, FailUnsettled, Purge, Create, Rotate, Revoke,
           RevokeRefused, Issue
  <2>2. q # r
        BY <2>1 DEF GateSteps, Permissions
  <2>3. CASE \E s : Answer(q, s)
        BY <1>1, <1>2, <2>2, <2>3 DEF Answer, RequestsOK
  <2>4. CASE Remove(q)
        BY <1>1, <1>2, <2>2, <2>4 DEF Remove, RequestsOK
  <2>5. CASE \E k \in Paths : Purge(q, k)
        BY <1>2, <2>5 DEF Purge
  <2>6. QED
        BY <1>7, <2>3, <2>4, <2>5 DEF Act, Upload, Delete, Read, Missing, PurgeDone,
           PurgeFails, SetPublic, SetIndex, Fail, FailUnsettled, Create, Rotate, Revoke,
           RevokeRefused, Issue
<1>8. ASSUME NEW q \in Requests, Index(q)
      PROVE  FALSE
      BY <1>1, <1>2, <1>8
      DEF Index, ListRoot, NoIndex, TryServeIndex, Becomes, Refuse, RequestsOK, GateSteps,
          Permissions
<1>9. QED
      BY <1>3, <1>4, <1>5, <1>6, <1>7, <1>8 DEF Next

\* The gate's answer, put together from several looks at a table that changes in
\* between, is one that was right at some moment of the request; a read may also be
\* refused.
THEOREM GateDecidesTimely == Spec => DecisionIsTimely
<1>1. TypeOK /\ IInv /\ [Next]_vars =>
          [\A r \in Requests :
              pc[r] \in GateSteps /\ pc'[r] \in {"act", "reply"} =>
                  \/ Outcome(r)' \in possible[r]
                  \/ op[r] = "get" /\ Outcome(r)' = "401"]_vars
      BY TimelyStep DEF IInv, Timely
<1>2. QED
      BY <1>1, Typing, Inductive, PTL DEF Spec, DecisionIsTimely
=============================================================================
