----------------------------- MODULE TokenTable -----------------------------
(***************************************************************************)
(* What the authorization store promises the server: a table of namespaces *)
(* that changes by one mutation at a time and outlives restarts.  A        *)
(* mutation that succeeds is durable at once and settles what earlier      *)
(* failures of its namespace left open.  A mutation that fails is not in   *)
(* the table, but a restart may show it.  A restart shows nothing that was *)
(* never attempted and nothing that a later success has replaced.  The one *)
(* exception is a table that is new: until it is settled it may be         *)
(* forgotten as a whole.                                                   *)
(***************************************************************************)
CONSTANTS
    Names,      \* namespaces
    Tokens,
    Settings,   \* the public flag and the index
    Default,    \* the settings of a new namespace
    None        \* "no such namespace", "no mutation under way"

Namespace == [owner: Tokens, tokens: SUBSET Tokens, settings: Settings]
Entry == Namespace \cup {None}

VARIABLES
    table,      \* the namespaces requests are authorized from, or will be after the start
    after,      \* for each namespace, the entries a restart may show
    settled,    \* the table will not be forgotten
    pending,    \* the mutation under way, None when there is none
    up          \* the server runs

vars == <<table, after, settled, pending, up>>

Init ==
    /\ table = [n \in Names |-> None]
    /\ after = [n \in Names |-> {None}]
    /\ settled \in BOOLEAN
    /\ pending = None
    /\ up = TRUE

Lists(e, t) == e # None /\ t \in e.tokens

\* No request is granted by t, now or after a restart.
Fresh(t) == \A n \in Names : \A e \in after[n] \cup {table[n]} : ~Lists(e, t)

---------------------------------------------------------------------------
(* What may become of the namespace n                                      *)

Creates(n, e) ==
    /\ table[n] = None
    /\ \E t \in Tokens : Fresh(t) /\ e = [owner |-> t, tokens |-> {t}, settings |-> Default]

Deletes(n, e) == table[n] # None /\ e = None

Rotates(n, e) ==
    /\ table[n] # None
    /\ \E t \in Tokens :
          /\ Fresh(t)
          /\ e = [owner |-> t, tokens |-> (table[n].tokens \ {table[n].owner}) \cup {t},
                  settings |-> table[n].settings]

\* A token comes or goes; the owner's token does neither.
Issues(n, e) ==
    /\ table[n] # None
    /\ \E t \in Tokens : Fresh(t) /\ e = [table[n] EXCEPT !.tokens = @ \cup {t}]

Revokes(n, e) ==
    /\ table[n] # None
    /\ \E t \in table[n].tokens \ {table[n].owner} : e = [table[n] EXCEPT !.tokens = @ \ {t}]

Configures(n, e) ==
    /\ table[n] # None
    /\ \E s \in Settings \ {table[n].settings} : e = [table[n] EXCEPT !.settings = s]

Mutates(n, e) ==
    \/ Creates(n, e) \/ Deletes(n, e) \/ Rotates(n, e)
    \/ Issues(n, e) \/ Revokes(n, e) \/ Configures(n, e)

---------------------------------------------------------------------------
(* Steps                                                                   *)

Attempt ==
    /\ up /\ pending = None
    /\ pending' \in [name: Names, entry: Entry]
    /\ Mutates(pending'.name, pending'.entry)
    /\ after' = [after EXCEPT ![pending'.name] = @ \cup {pending'.entry}]
    /\ UNCHANGED <<table, settled, up>>

\* Some of what is left open may be settled, for one or the other outcome.
Narrows == \A n \in Names : after'[n] \in (SUBSET after[n]) \ {{}}

Succeed ==
    /\ up /\ pending # None
    /\ pending' = None
    /\ table' = [table EXCEPT ![pending.name] = pending.entry]
    /\ after' \in [Names -> SUBSET Entry]
    /\ Narrows
    /\ after'[pending.name] = {pending.entry}
    /\ UNCHANGED <<settled, up>>

Fail ==
    /\ up /\ pending # None
    /\ pending' = None
    /\ UNCHANGED <<table, after, settled, up>>

\* A kill or a power loss: the next server will find one of the entries left open.
Crash ==
    /\ up
    /\ up' = FALSE
    /\ pending' = None
    /\ table' \in [Names -> Entry]
    /\ after' \in [Names -> SUBSET Entry]
    /\ Narrows
    /\ \A n \in Names : table'[n] \in after'[n]
    /\ UNCHANGED settled

\* A power loss that takes a new table, and all that was attempted in it.
Forget ==
    /\ up /\ ~settled
    /\ up' = FALSE
    /\ pending' = None
    /\ table' = [n \in Names |-> None]
    /\ after' = [n \in Names |-> {None}]
    /\ UNCHANGED settled

Settle ==
    /\ ~settled
    /\ settled' = TRUE
    /\ UNCHANGED <<table, after, pending, up>>

\* The server starts again, on what it finds.
Restart ==
    /\ ~up
    /\ up' = TRUE
    /\ UNCHANGED <<table, after, settled, pending>>

Next == Attempt \/ Succeed \/ Fail \/ Crash \/ Forget \/ Settle \/ Restart

Spec == Init /\ [][Next]_vars
=============================================================================
