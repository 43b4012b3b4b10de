--------------------------- MODULE ServerMailbox ---------------------------
(***************************************************************************)
(* The server, with its tables, handlers, connections and restarts,        *)
(* implements the abstract Mailbox.                                        *)
(***************************************************************************)
EXTENDS Server

\* The row with that id.
messageRow(n) == CHOOSE row \in messages : row.ID = n

accountsOf == [id \in {row.ID : row \in clients} |->
                 [name |-> getUsername(id), key |-> getPublicKey(id)]]

logOf == [n \in 1..autoinc |->
            [to |-> messageRow(n).ToClient, from |-> messageRow(n).FromClient,
             type |-> messageRow(n).Type, content |-> messageRow(n).Content]]

Store == INSTANCE Mailbox
           WITH Callers <- Conns, accounts <- accountsOf, log <- logOf,
                calls <- rx, answers <- tx

\* Every step of the server, among clients that send anything, and every
\* restart is a step of the mailbox or leaves it as it is: each request takes
\* effect at once and whole, at most one time, and the answer is computed from
\* the tables of that moment.
MailboxSpec == Store!Spec

=============================================================================
