--------------------------- MODULE AuthStoreTable ---------------------------
(***************************************************************************)
(* AuthStore implements TokenTable.  The table is the map in memory, or    *)
(* the files while the server is down; what a restart may show are the     *)
(* files a power loss may leave; a mutation is attempted when its file is  *)
(* renamed (or removed), and succeeds when the table has followed.  The    *)
(* table is settled when the directory of the files is.                    *)
(***************************************************************************)
EXTENDS AuthStore

\* A namespace as its clients see it: kinds only tell the owner's token apart.
View(e) ==
    IF e = None THEN None
    ELSE [owner |-> e.owner, tokens |-> TokensOf(e), settings |-> <<e.public, e.index>>]

ShownTable == [n \in Names |-> View(IF up THEN mem[n] ELSE disk[n])]

ShownAfter == [n \in Names |-> {View(e) : e \in durable[n]}]

\* Before the rename a mutation has left no trace.
ShownPending ==
    IF jpc = "sync" THEN [name |-> jname, entry |-> View(jnew)] ELSE None

Table == INSTANCE TokenTable WITH
    Settings <- BOOLEAN \X Indexes, Default <- <<TRUE, Default>>,
    table <- ShownTable, after <- ShownAfter, settled <- rooted, pending <- ShownPending

ASSUME NoneIsNoRecord ==
    None \notin Table!Namespace /\ None \notin [name: Names, entry: Table!Entry]

\* Mutations are atomic and durable (auth.go:186): each takes place once or not at
\* all, and no restart shows a state that no mutation of the namespace has built, but
\* for a power loss that takes the directory before it is on the disk.
ImplementsTable == Table!Spec

\* What a mutation is about to write follows from the table, and a token it adds
\* is neither in the table nor in any file a crash may leave.
WriteIsLegal == jpc = "write" => Table!Mutates(jname, View(jnew))
=============================================================================
