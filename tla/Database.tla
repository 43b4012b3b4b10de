------------------------------ MODULE Database ------------------------------
(***************************************************************************)
(* server/database.py: the tables clients and messages of defensive.db and *)
(* the statements the server runs on them.  A table is a set of rows.      *)
(* Each function opens a connection, runs its statements and commits, so   *)
(* what it writes survives a restart of the server.                        *)
(***************************************************************************)
EXTENDS Protocol

VARIABLES
  clients,   \* rows of the table clients
  messages,  \* rows of the table messages
  autoinc    \* the AUTOINCREMENT counter of messages (sqlite_sequence)

dbVars == <<clients, messages, autoinc>>

\* Of LastSeen only its writer is kept: the registration or a later request.
ClientRows ==
  [ID : UUIDs, UserName : Names, PublicKey : KeyPairs, LastSeen : {"register", "request"}]

MessageRows ==
  {row \in [ID : 1..MaxRowId, ToClient : UUIDs, FromClient : UUIDs,
            Type : MessageTypes, Content : Contents] :
     row.Content \in ContentsOf(row.Type)}

DatabaseTypeOK ==
  /\ clients \subseteq ClientRows
  /\ messages \subseteq MessageRows
  /\ autoinc \in 0..MaxRowId

initialize_database ==
  /\ clients = {}
  /\ messages = {}
  /\ autoinc = 0

-----------------------------------------------------------------------------
(* Queries. *)

\* userCheck(ID): its first component.
idExists(id) == \E row \in clients : row.ID = id

\* Mutant: compares the stripped name with the padded ones that are stored.
usernameNeverExists(name) == FALSE

\* userCheck(ID, UserName): its second component.
usernameExists(name) == \E row \in clients : row.UserName = name

\* The row a SELECT ... WHERE ID = ? fetches.
clientRow(id) == CHOOSE row \in clients : row.ID = id

\* Mutant: the SELECT without its WHERE clause.
getAnyPublicKey(id) == (CHOOSE row \in clients : TRUE).PublicKey

getPublicKey(id) == clientRow(id).PublicKey

getUsername(id) == clientRow(id).UserName

\* ID, UserName of every other client.
getAllUsers(id) ==
  {[ID |-> row.ID, UserName |-> row.UserName] :
     row \in {other \in clients : other.ID # id /\ other.UserName # getUsername(id)}}

getAllMessages(id) == {row \in messages : row.ToClient = id}

-----------------------------------------------------------------------------
(* Updates. *)

register_user(id, username, publicKey) ==
  clients' = clients \cup {[ID |-> id, UserName |-> username,
                            PublicKey |-> publicKey, LastSeen |-> "register"]}

\* Mutant: compares the pair that userCheck returns with None.
updateLastSeenNeverRaises(id) == FALSE

\* updateLastSeen looks the user up before it updates, and raises without one.
updateLastSeenRaises(id) == ~idExists(id)

updateLastSeen(id) ==
  clients' = {[row EXCEPT !.LastSeen = IF row.ID = id THEN "request" ELSE @] :
                row \in clients}

\* Mutant: off by one.
rowIdFitsOffByOne == autoinc <= MaxRowId

\* The id packs into 4 bytes or struct.pack raises before the commit.
rowIdFits == autoinc + 1 <= MaxRowId

\* The INSERT never looks at clients: foreign keys are declared, but SQLite
\* enforces them only on a connection that asks for it.
sendMessageToTarget(to, from, type, content) ==
  /\ autoinc' = autoinc + 1
  /\ messages' = messages \cup {[ID |-> autoinc + 1, ToClient |-> to, FromClient |-> from,
                                 Type |-> type, Content |-> content]}

\* Mutant: the counter survives the rollback.
insertLeavesGap ==
  /\ ~rowIdFits
  /\ autoinc' = autoinc + 1
  /\ UNCHANGED messages

\* sendMessageToTarget raises: the connection closes without a commit, and the
\* INSERT is rolled back together with the AUTOINCREMENT counter.
insertRolledBack ==
  /\ ~rowIdFits
  /\ UNCHANGED <<messages, autoinc>>

\* Mutant: DROP TABLE messages first.
recreate_database ==
  /\ messages' = {}
  /\ autoinc' = 0

\* initialize_database on a file that has the tables: IF NOT EXISTS.
reopen_database == UNCHANGED <<messages, autoinc>>

=============================================================================
