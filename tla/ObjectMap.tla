----------------------------- MODULE ObjectMap -----------------------------
(***************************************************************************)
(* What the object store promises its clients: a map from object paths to  *)
(* contents.  A request takes effect at one instant between its call and   *)
(* its return (linearizability), at most once, and its answer says what    *)
(* happened at that instant.  An error answer promises nothing: the        *)
(* request has taken effect once, or not at all.  A server that stops      *)
(* forgets the requests it serves and nothing else.  While contents are    *)
(* collected, a read may lose the content it has found before it is        *)
(* answered; it is then told that there is none.                           *)
(*                                                                         *)
(* The removal of a namespace's objects is not atomic: they disappear one  *)
(* by one before the request is answered.                                  *)
(***************************************************************************)
CONSTANTS
    Keys,        \* object paths, each in its namespace
    Groups,      \* the sets of keys that can be dropped: the namespaces
    Values,      \* contents
    Clients,
    NoValue,     \* the object does not exist
    Collected    \* whether anyone collects contents

VARIABLES
    map,     \* the content of each object, NoValue when there is none
    call     \* each client's request

vars == <<map, call>>

Call == [phase: {"idle", "pending", "settled"},
         op: {"none", "put", "get", "delete", "drop"},
         scope: SUBSET Keys,     \* the objects it has still to act on
         value: Values \cup {NoValue},
         result: {"none", "ok", "notfound", "error"}]

NoCall == [phase |-> "idle", op |-> "none", scope |-> {}, value |-> NoValue, result |-> "none"]

Pending(o, S, v) == [phase |-> "pending", op |-> o, scope |-> S, value |-> v, result |-> "none"]

Settled(o, v, r) == [phase |-> "settled", op |-> o, scope |-> {}, value |-> v, result |-> r]

TypeOK ==
    /\ map \in [Keys -> Values \cup {NoValue}]
    /\ call \in [Clients -> Call]

Init ==
    /\ map = [k \in Keys |-> NoValue]
    /\ call = [c \in Clients |-> NoCall]

Issue(c, r) ==
    /\ call[c] = NoCall
    /\ call' = [call EXCEPT ![c] = r]
    /\ UNCHANGED map

Invoke(c) ==
    \/ \E k \in Keys, v \in Values : Issue(c, Pending("put", {k}, v))
    \/ \E k \in Keys : Issue(c, Pending("get", {k}, NoValue))
    \/ \E k \in Keys : Issue(c, Pending("delete", {k}, NoValue))
    \/ \E S \in Groups : Issue(c, Pending("drop", S, NoValue))

\* The request has yet to act on k.
Waiting(c, o, k) == call[c].phase = "pending" /\ call[c].op = o /\ k \in call[c].scope

Found(k) == IF map[k] = NoValue THEN "notfound" ELSE "ok"

Put(c, k) ==
    /\ Waiting(c, "put", k)
    /\ map' = [map EXCEPT ![k] = call[c].value]
    /\ \E r \in {"ok", "error"} : call' = [call EXCEPT ![c] = Settled("put", NoValue, r)]

\* Settles with the content there is, or with its absence.
Get(c, k) ==
    /\ Waiting(c, "get", k)
    /\ call' = [call EXCEPT ![c] = Settled("get", map[k], Found(k))]
    /\ UNCHANGED map

Delete(c, k) ==
    /\ Waiting(c, "delete", k)
    /\ call' = [call EXCEPT ![c] = Settled("delete", NoValue, Found(k))]
    /\ map' = [map EXCEPT ![k] = NoValue]

DropOne(c, k) ==
    /\ Waiting(c, "drop", k)
    /\ map' = [map EXCEPT ![k] = NoValue]
    /\ call' = [call EXCEPT ![c] = Pending("drop", call[c].scope \ {k}, NoValue)]

Dropped(c) ==
    /\ call[c] = Pending("drop", {}, NoValue)
    /\ call' = [call EXCEPT ![c] = Settled("drop", NoValue, "ok")]
    /\ UNCHANGED map

\* A request fails without an effect; a read may still fail once it has settled.
Fail(c) ==
    /\ call[c].phase = "pending" \/ (call[c].phase = "settled" /\ call[c].op = "get")
    /\ call' = [call EXCEPT ![c] = Settled(call[c].op, NoValue, "error")]
    /\ UNCHANGED map

\* The collector takes the content between the read and its answer.
Lose(c) ==
    /\ Collected
    /\ call[c] = Settled("get", call[c].value, "ok")
    /\ call' = [call EXCEPT ![c] = Settled("get", NoValue, "notfound")]
    /\ UNCHANGED map

Return(c) ==
    /\ call[c].phase = "settled"
    /\ call' = [call EXCEPT ![c] = NoCall]
    /\ UNCHANGED map

Stop ==
    /\ call' = [c \in Clients |-> NoCall]
    /\ UNCHANGED map

Next ==
    \/ \E c \in Clients :
          \/ Invoke(c) \/ Dropped(c) \/ Fail(c) \/ Lose(c) \/ Return(c)
          \/ \E k \in Keys : Put(c, k) \/ Get(c, k) \/ Delete(c, k) \/ DropOne(c, k)
    \/ Stop

Spec == Init /\ [][Next]_vars
=============================================================================
