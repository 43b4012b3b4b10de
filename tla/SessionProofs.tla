--------------------------- MODULE SessionProofs ---------------------------
(***************************************************************************)
(* Theorems about the sessions of the clients: what their member lists,    *)
(* keys and files have to do with the accounts and messages of the server, *)
(* for every set of processes, connections, users, keys and messages.      *)
(***************************************************************************)
EXTENDS AppProofs

-----------------------------------------------------------------------------
(* What is true of an entry or a message, given the accounts and messages. *)

\* The entry says of its member what the account says.
Listed(accounts, u, data) ==
  \E account \in accounts : /\ account.ID = u
                            /\ account.UserName = data.username
                            /\ data.public_key \in {NoKey, account.PublicKey}

\* from has asked to for a symmetric key.
Asked(rows, from, to) ==
  \E row \in rows : /\ row.Type = "REQ_SYMMETRIC_KEY"
                    /\ row.FromClient = from
                    /\ row.ToClient = to

\* One of the two has sent the other that key.
Shared(rows, a, b, key) ==
  \E row \in rows : /\ row.Type = "SEND_SYMMETRIC_KEY"
                    /\ {row.FromClient, row.ToClient} = {a, b}
                    /\ row.Content.key = key

\* A message that may come after these.
Sound(accounts, rows, type, from, to, content) ==
  /\ type = "SEND_SYMMETRIC_KEY" =>
       /\ \E account \in accounts : account.ID = to /\ account.PublicKey = content.pub
       /\ Asked(rows, to, from)
  /\ type \in {"SEND_TEXT_MSG", "SEND_FILE"} => Shared(rows, from, to, content.key)

-----------------------------------------------------------------------------
(* The inductive invariant. *)

Earlier(row) == {other \in messages : other.ID < row.ID}

\* Every message was sound when it was stored.
MessagesSound ==
  \A row \in messages :
    Sound(Accounts, Earlier(row), row.Type, row.FromClient, row.ToClient, row.Content)

\* p made the key it has for u and sent it, or would have if the connection had
\* not been lost: nothing else can be sent before the key's message is stored.
KeyOnItsWay(p, u) ==
  \/ conn[sock[p]] = "closed"
  \/ /\ tx[sock[p]] = NoResponse
     /\ rx[sock[p]].op = "REQ_MESSAGE_TO_USER"
     /\ rx[sock[p]].type = "SEND_SYMMETRIC_KEY"
     /\ rx[sock[p]].target = u
     /\ rx[sock[p]].content.key = members[p][u].symmetric_key

\* What p believes of u.
EntrySound(p, u) ==
  /\ Listed(Accounts, u, members[p][u])
  /\ members[p][u].requested => Asked(messages, u, user[p].uuid)
  /\ members[p][u].symmetric_key # NoKey =>
       Shared(messages, user[p].uuid, u, members[p][u].symmetric_key) \/ KeyOnItsWay(p, u)

\* Who has a member list has an account, and does not register any more.
ListOwner(p) ==
  DOMAIN members[p] # {} =>
    /\ pc[p] \notin {"off", "REQ_REGISTER"}
    /\ \E account \in Accounts : account.ID = user[p].uuid

\* A request speaks for the user of its process.
RequestOwner(p) ==
  pc[p] # "off" /\ rx[sock[p]] # NoRequest =>
    IF pc[p] = "REQ_REGISTER"
    THEN rx[sock[p]].username = user[p].name /\ rx[sock[p]].publicKey = user[p].key
    ELSE rx[sock[p]].UUID = user[p].uuid

\* FileMatchesAccount for p.
FileSound(p) ==
  me_info[p].lines = 3 =>
    \E account \in Accounts : /\ account.ID = me_info[p].user.uuid
                              /\ account.UserName = me_info[p].user.name
                              /\ account.PublicKey = me_info[p].user.key

ProcessSound(p) ==
  /\ \A u \in DOMAIN members[p] : EntrySound(p, u)
  /\ ListOwner(p)
  /\ RequestOwner(p)
  /\ FileSound(p)

\* A message under way is sound, whoever else sends in the meantime.
RequestSound(c) ==
  rx[c].op = "REQ_MESSAGE_TO_USER" =>
    Sound(Accounts, messages, rx[c].type, rx[c].UUID, rx[c].target, rx[c].content)

\* A member list is only sent to those who have an account.
ListForAccount(c) ==
  tx[c].op = "RESP_USER_LIST" => \E account \in Accounts : account.ID = rx[c].UUID

SessionInv ==
  /\ MessagesSound
  /\ \A c \in Conns : RequestSound(c) /\ ListForAccount(c)
  /\ \A p \in Procs : ProcessSound(p)

\* What it is inductive relative to.
KnownInv == AppInv /\ UniqueAccounts /\ DenseMessageIds

-----------------------------------------------------------------------------
(* Accounts and messages only grow, and what was sound stays so. *)

LEMMA ListedStays ==
  ASSUME NEW accounts, NEW more, accounts \subseteq more, NEW u, NEW data,
         Listed(accounts, u, data)
  PROVE  Listed(more, u, data)
BY DEF Listed

LEMMA AskedStays ==
  ASSUME NEW rows, NEW more, rows \subseteq more, NEW from, NEW to, Asked(rows, from, to)
  PROVE  Asked(more, from, to)
BY DEF Asked

LEMMA SharedStays ==
  ASSUME NEW rows, NEW more, rows \subseteq more, NEW a, NEW b, NEW key, Shared(rows, a, b, key)
  PROVE  Shared(more, a, b, key)
BY DEF Shared

LEMMA SoundStays ==
  ASSUME NEW accounts, NEW moreAccounts, accounts \subseteq moreAccounts,
         NEW rows, NEW more, rows \subseteq more,
         NEW type, NEW from, NEW to, NEW content, Sound(accounts, rows, type, from, to, content)
  PROVE  Sound(moreAccounts, more, type, from, to, content)
<1>1. type = "SEND_SYMMETRIC_KEY" => Asked(more, to, from)
  BY AskedStays DEF Sound
<1>2. type \in {"SEND_TEXT_MSG", "SEND_FILE"} => Shared(more, from, to, content.key)
  BY SharedStays DEF Sound
<1> QED BY <1>1, <1>2 DEF Sound

\* An account is a row of the table, and a row an account.
AccountOf(row) == [ID |-> row.ID, UserName |-> row.UserName, PublicKey |-> row.PublicKey]

LEMMA AccountRow ==
  /\ \A account \in Accounts : \E row \in clients : account = AccountOf(row)
  /\ \A row \in clients : AccountOf(row) \in Accounts
BY DEF Accounts, AccountOf

\* Accounts with one UUID are one.
LEMMA OneAccount ==
  ASSUME UniqueAccounts, NEW account \in Accounts, NEW other \in Accounts, account.ID = other.ID
  PROVE  account = other
BY DEF UniqueAccounts, Accounts

-----------------------------------------------------------------------------
(* The steps of the server. *)

\* The row that c's request asks for.
RequestedRow(c) ==
  [ID |-> autoinc + 1, ToClient |-> rx[c].target, FromClient |-> rx[c].UUID,
   Type |-> rx[c].type, Content |-> rx[c].content]

\* A message is stored because a request asks for it.
LEMMA StoredAsRequested ==
  ASSUME ServerSteps
  PROVE  \/ messages' = messages
         \/ \E c \in Conns : /\ rx[c].op = "REQ_MESSAGE_TO_USER"
                             /\ messages' = messages \cup {RequestedRow(c)}
<1>1. ASSUME NEW c \in Conns, messageToUserRequest(c)
      PROVE  \/ messages' = messages
             \/ /\ rx[c].op = "REQ_MESSAGE_TO_USER"
                /\ messages' = messages \cup {RequestedRow(c)}
  BY <1>1 DEF messageToUserRequest, dbVars, insertRolledBack, sendMessageToTarget, RequestedRow
<1>2. ASSUME NEW c \in Conns, handle_client(c), ~messageToUserRequest(c)
      PROVE  messages' = messages
  BY <1>2 DEF handle_client, handle_request, registerRequest, userlistRequest,
     publicKeyRequest, collectMsgsRequest, dbVars
<1>3. CASE Restart
  BY <1>3 DEF Restart, reopen_database
<1> QED BY <1>1, <1>2, <1>3 DEF ServerSteps

\* How the callback leaves the connections.
LEMMA HandlerEnds ==
  ASSUME NEW d \in Conns, handle_client(d)
  PROVE  (\E response : SendAll(d, response)) \/ DisconnectClient(d) \/ Unregister(d)
BY DEF handle_client, handle_request, registerRequest, registerRaises, sendGeneralError,
   userlistRequest, publicKeyRequest, messageToUserRequest, collectMsgsRequest, flushRaises

\* The message of a registered sender whose connection lives is stored, or its
\* connection closed, or it is still to be read: an error is never answered.
LEMMA SenderNotRefused ==
  ASSUME ServerTypeOK, ServerSteps, NEW c \in Conns, conn[c] = "open", tx[c] = NoResponse,
         rx[c].op = "REQ_MESSAGE_TO_USER", idExists(rx[c].UUID)
  PROVE  \/ tx'[c] = NoResponse /\ rx'[c] = rx[c]
         \/ conn'[c] = "closed"
         \/ RequestedRow(c) \in messages'
<1> USE DEF ServerTypeOK, LinkTypeOK
<1>1. CASE Restart
  <2>1. conn'[c] = "closed"
    BY <1>1 DEF Restart
  <2> QED BY <2>1
<1>2. ASSUME NEW d \in Conns, handle_client(d), d # c
      PROVE  tx'[c] = NoResponse /\ rx'[c] = rx[c]
  BY <1>2, HandlerEnds DEF SendAll, DisconnectClient, Unregister
<1>3. ASSUME handle_client(c)
      PROVE  conn'[c] = "closed" \/ RequestedRow(c) \in messages'
  <2>1. messageToUserRequest(c)
    BY <1>3 DEF handle_client, handle_request, registerRequest, userlistRequest,
       publicKeyRequest, collectMsgsRequest, Unregister
  <2>2. \/ flushRaises(c)
        \/ sendMessageToTarget(rx[c].target, rx[c].UUID, rx[c].type, rx[c].content)
    BY <2>1 DEF messageToUserRequest, updateLastSeenRaises
  <2> QED BY <2>2 DEF flushRaises, DisconnectClient, sendMessageToTarget, RequestedRow
<1> QED BY <1>1, <1>2, <1>3 DEF ServerSteps

LEMMA ServerKeepsMessagesSound ==
  ASSUME KnownInv, SessionInv, ServerSteps,
         messages \subseteq messages', Accounts \subseteq Accounts'
  PROVE  MessagesSound'
<1>1. ASSUME NEW row \in messages
      PROVE  Sound(Accounts, Earlier(row), row.Type, row.FromClient, row.ToClient, row.Content)'
  <2>1. Sound(Accounts, Earlier(row), row.Type, row.FromClient, row.ToClient, row.Content)
    BY DEF SessionInv, MessagesSound
  <2>2. Earlier(row) \subseteq Earlier(row)'
    BY DEF Earlier
  <2> QED BY <2>1, <2>2, SoundStays
<1>2. ASSUME NEW c \in Conns, rx[c].op = "REQ_MESSAGE_TO_USER",
             messages' = messages \cup {RequestedRow(c)}
      PROVE  MessagesSound'
  <2> DEFINE row == RequestedRow(c)
  <2>1. Sound(Accounts, messages, row.Type, row.FromClient, row.ToClient, row.Content)
    BY <1>2 DEF SessionInv, RequestSound, RequestedRow
  <2>2. \A other \in messages : other.ID < row.ID
    BY ProtocolAssumption DEF KnownInv, DenseMessageIds, AppInv, ServerTypeOK, DatabaseTypeOK,
       RequestedRow
  <2> HIDE DEF row
  <2>3. \A r : r = row =>
          Sound(Accounts', {m \in messages' : m.ID < r.ID}, r.Type, r.FromClient, r.ToClient, r.Content)
    <3>1. messages \subseteq {m \in messages' : m.ID < row.ID}
      BY <2>2
    <3> QED BY <2>1, <3>1, SoundStays
  <2>4. \A r \in messages' : r \in messages \/ r = row
    BY <1>2 DEF row
  <2> QED BY <1>1, <2>3, <2>4 DEF MessagesSound, Earlier
<1>3. CASE messages' = messages
  BY <1>1, <1>3 DEF MessagesSound
<1> QED BY <1>2, <1>3, StoredAsRequested

\* A new member list goes to a request of a registered user.
LEMMA ListAnswers ==
  ASSUME ServerTypeOK, ServerSteps, NEW d \in Conns, tx'[d].op = "RESP_USER_LIST"
  PROVE  rx'[d] = rx[d] /\ (tx'[d] = tx[d] \/ idExists(rx[d].UUID))
<1> USE DEF ServerTypeOK
<1>1. ASSUME NothingNew(d)
      PROVE  rx'[d] = rx[d] /\ tx'[d] = tx[d]
  BY <1>1 DEF NothingNew, NoResponse
<1>2. ASSUME NEW c \in Conns, Readable(c),
             \/ flushRaises(c)
             \/ \E response : SendAll(c, response) /\ response.op # "RESP_USER_LIST"
      PROVE  rx'[d] = rx[d] /\ tx'[d] = tx[d]
  BY <1>1, <1>2, SendAllAnswers, FlushAnswersNobody
<1>3. ASSUME NEW c \in Conns, handle_request(c), ~userlistRequest(c)
      PROVE  /\ Readable(c)
             /\ \/ flushRaises(c)
                \/ \E response : SendAll(c, response) /\ response.op # "RESP_USER_LIST"
  <2> USE DEF GeneralError, RegisterResp, PublicKeyResp, MessageSentResp, AwaitingResp,
      sendGeneralError
  <2>1. CASE registerRequest(c)
    BY <2>1 DEF registerRequest, registerRaises
  <2>2. CASE publicKeyRequest(c) \/ collectMsgsRequest(c)
    BY <2>2 DEF publicKeyRequest, collectMsgsRequest
  <2>3. CASE messageToUserRequest(c)
    BY <2>3 DEF messageToUserRequest
  <2> QED BY <1>3, <2>1, <2>2, <2>3 DEF handle_request
<1>4. ASSUME NEW c \in Conns, userlistRequest(c)
      PROVE  rx'[d] = rx[d] /\ (tx'[d] = tx[d] \/ idExists(rx[d].UUID))
  <2>1. Readable(c)
    BY <1>4 DEF userlistRequest
  <2>2. CASE flushRaises(c)
    BY <1>2, <2>1, <2>2
  <2>3. CASE /\ idExists(rx[c].UUID)
             /\ SendAll(c, UserListResp(getAllUsers(rx[c].UUID)))
    <3>1. NothingNew(d) \/ (d = c /\ rx'[d] = rx[c])
      BY <2>1, <2>3, SendAllAnswers
    <3> QED BY <1>1, <2>3, <3>1
  <2> QED BY <1>4, <2>2, <2>3 DEF userlistRequest, updateLastSeenRaises
<1>5. ASSUME NEW c \in Conns, Unregister(c)
      PROVE  rx'[d] = rx[d] /\ tx'[d] = tx[d]
  BY <1>5 DEF Unregister
<1>6. CASE Restart
  <2>1. NothingNew(d)
    BY <1>6 DEF Restart, NothingNew
  <2> QED BY <1>1, <2>1
<1> QED BY <1>2, <1>3, <1>4, <1>5, <1>6 DEF ServerSteps, handle_client

\* A connection the server closed stays so until its client drops it.
LEMMA ClosedStays ==
  ASSUME ServerTypeOK, ServerSteps, NEW c \in Conns, conn[c] = "closed"
  PROVE  conn'[c] = "closed"
<1>1. CASE Restart
  BY <1>1 DEF Restart
<1>2. ASSUME NEW d \in Conns, handle_client(d) PROVE conn'[c] = "closed"
  BY <1>2, HandlerEnds DEF SendAll, DisconnectClient, Unregister, ServerTypeOK, LinkTypeOK
<1> QED BY <1>1, <1>2 DEF ServerSteps

\* What p believes of u survives what the server does, the key of a message
\* that is stored by becoming a shared one.
LEMMA ServerKeepsEntry ==
  ASSUME KnownInv, SessionInv, ServerSteps, ServerTouches,
         messages \subseteq messages', Accounts \subseteq Accounts',
         NEW p \in Procs, NEW u \in DOMAIN members[p]
  PROVE  EntrySound(p, u)'
<1> DEFINE key == members[p][u].symmetric_key
           id == user[p].uuid
           c == sock[p]
<1>1. UNCHANGED <<pc, sock, user, members>>
  BY DEF ServerSteps, clientVars
<1>2. EntrySound(p, u)
  BY DEF SessionInv, ProcessSound
<1>3. Listed(Accounts, u, members[p][u])'
  <2>1. Listed(Accounts, u, members[p][u])
    BY <1>2 DEF EntrySound
  <2> QED BY <1>1, <2>1, ListedStays
<1>4. (members[p][u].requested => Asked(messages, u, user[p].uuid))'
  BY <1>1, <1>2, AskedStays DEF EntrySound
<1>5. ASSUME Shared(messages, id, u, key)
      PROVE  Shared(messages, id, u, key)'
  BY <1>1, <1>5, SharedStays
<1>6. ASSUME KeyOnItsWay(p, u)
      PROVE  KeyOnItsWay(p, u)' \/ Shared(messages, id, u, key)'
  <2>1. /\ pc[p] # "off" /\ c \in Conns /\ conn[c] \in {"open", "closed"}
        /\ \E account \in Accounts : account.ID = id
    <3>1. pc[p] # "off" /\ \E account \in Accounts : account.ID = id
      BY DEF SessionInv, ProcessSound, ListOwner
    <3> QED BY <3>1 DEF KnownInv, AppInv, ClientInv, LinksInv, SocketInv
  <2>2. CASE conn[c] = "closed"
    BY <1>1, <2>1, <2>2, ClosedStays DEF KeyOnItsWay, KnownInv, AppInv
  <2>3. CASE conn[c] = "open"
    <3>1. /\ tx[c] = NoResponse
          /\ rx[c].op = "REQ_MESSAGE_TO_USER" /\ rx[c].type = "SEND_SYMMETRIC_KEY"
          /\ rx[c].target = u /\ rx[c].content.key = key
      BY <1>6, <2>3 DEF KeyOnItsWay
    <3>2. rx[c].UUID = id
      <4>1. rx[c] # NoRequest
        BY <3>1 DEF NoRequest
      <4>2. pc[p] = "REQ_MESSAGE_TO_USER"
        BY <2>1, <3>1, <4>1 DEF KnownInv, AppInv, ClientInv, LinksInv, RequestInv
      <4> QED BY <2>1, <4>1, <4>2 DEF SessionInv, ProcessSound, RequestOwner
    <3>3. idExists(rx[c].UUID)
      BY <2>1, <3>2, AccountRow DEF idExists, AccountOf
    <3>4. CASE tx'[c] = NoResponse /\ rx'[c] = rx[c]
      BY <1>1, <3>1, <3>4 DEF KeyOnItsWay
    <3>5. CASE conn'[c] = "closed"
      BY <1>1, <3>5 DEF KeyOnItsWay
    <3>6. CASE RequestedRow(c) \in messages'
      <4>1. Shared(messages', id, u, key)
        BY <3>1, <3>2, <3>6 DEF RequestedRow, Shared
      <4> QED BY <1>1, <4>1
    <3> QED BY <2>1, <2>3, <3>1, <3>3, <3>4, <3>5, <3>6, SenderNotRefused DEF KnownInv, AppInv
  <2> QED BY <2>1, <2>2, <2>3
<1>7. EntrySound(p, u)'
  BY <1>1, <1>2, <1>3, <1>4, <1>5, <1>6 DEF EntrySound
<1> QED BY <1>7

LEMMA ServerKeepsSessionInv ==
  ASSUME KnownInv, SessionInv, ServerSteps
  PROVE  SessionInv'
<1>1. messages \subseteq messages' /\ Accounts \subseteq Accounts'
  BY TablesGrow DEF KnownInv, AppInv, ServerSteps, ServerNext
<1>2. ServerTouches
  BY HandlerTouches, RestartTouches DEF KnownInv, AppInv, ClientInv, LinksInv, ServerSteps
<1>3. MessagesSound'
  BY <1>1, ServerKeepsMessagesSound
<1>4. ASSUME NEW c \in Conns PROVE RequestSound(c)'
  <2>1. RequestSound(c)
    BY DEF SessionInv
  <2>2. CASE rx'[c] = rx[c]
    BY <1>1, <2>1, <2>2, SoundStays DEF RequestSound
  <2>3. CASE rx'[c] = NoRequest
    BY <2>3 DEF RequestSound, NoRequest
  <2> QED BY <1>2, <2>2, <2>3 DEF ServerTouches
<1>5. ASSUME NEW c \in Conns PROVE ListForAccount(c)'
  <2> SUFFICES ASSUME tx'[c].op = "RESP_USER_LIST"
               PROVE  \E account \in Accounts' : account.ID = rx'[c].UUID
    BY DEF ListForAccount
  <2>1. rx'[c] = rx[c] /\ (tx'[c] = tx[c] \/ idExists(rx[c].UUID))
    BY ListAnswers DEF KnownInv, AppInv
  <2>2. \E account \in Accounts : account.ID = rx[c].UUID
    BY <2>1, AccountRow DEF SessionInv, ListForAccount, idExists, AccountOf
  <2> QED BY <1>1, <2>1, <2>2
<1>6. ASSUME NEW p \in Procs PROVE ProcessSound(p)'
  <2>1. ProcessSound(p) /\ UNCHANGED <<pc, sock, user, members, me_info>>
    BY DEF SessionInv, ServerSteps, clientVars
  <2>2. \A u \in DOMAIN members'[p] : EntrySound(p, u)'
    BY <1>1, <1>2, <2>1, ServerKeepsEntry
  <2>3. ListOwner(p)' /\ FileSound(p)'
    BY <1>1, <2>1 DEF ProcessSound, ListOwner, FileSound
  <2>4. RequestOwner(p)'
    <3>1. pc[p] # "off" => sock[p] \in Conns
      BY DEF KnownInv, AppInv, ClientInv, LinksInv, SocketInv
    <3> QED BY <1>2, <2>1, <3>1 DEF ServerTouches, ProcessSound, RequestOwner
  <2> QED BY <2>2, <2>3, <2>4 DEF ProcessSound
<1> QED BY <1>3, <1>4, <1>5, <1>6 DEF SessionInv

-----------------------------------------------------------------------------
(* The steps of a client: what they leave alone. *)

\* Only p acts: of the others nothing changes, nor on their connections.
OnlyActs(p) ==
  /\ UNCHANGED dbVars
  /\ \A q \in Procs \ {p} :
       /\ pc'[q] = pc[q]
       /\ sock'[q] = sock[q]
       /\ user'[q] = user[q]
       /\ members'[q] = members[q]
       /\ me_info'[q] = me_info[q]
       /\ pc[q] # "off" => /\ conn'[sock[q]] = conn[sock[q]]
                           /\ rx'[sock[q]] = rx[sock[q]]
                           /\ tx'[sock[q]] = tx[sock[q]]

LEMMA OthersSound ==
  ASSUME SessionInv, NEW p \in Procs, OnlyActs(p), NEW q \in Procs \ {p}
  PROVE  ProcessSound(q)'
<1>1. ProcessSound(q) /\ Accounts' = Accounts /\ messages' = messages
  BY DEF SessionInv, OnlyActs, dbVars, Accounts
<1>2. ASSUME NEW u \in DOMAIN members'[q] PROVE EntrySound(q, u)'
  <2>1. u \in DOMAIN members[q] /\ pc[q] # "off" /\ EntrySound(q, u)
    BY <1>1 DEF OnlyActs, ProcessSound, ListOwner
  <2> QED BY <1>1, <2>1 DEF OnlyActs, EntrySound, KeyOnItsWay
<1>3. ListOwner(q)' /\ FileSound(q)' /\ RequestOwner(q)'
  BY <1>1 DEF OnlyActs, ProcessSound, ListOwner, FileSound, RequestOwner
<1> QED BY <1>2, <1>3 DEF ProcessSound

\* So it is enough to look at p and at what it puts on its connection.
LEMMA OwnStep ==
  ASSUME SessionInv, NEW p \in Procs, OnlyActs(p), ProcessSound(p)',
         \A c \in Conns : /\ NothingNew(c)
                          /\ rx'[c] \in {rx[c], NoRequest} \/ RequestSound(c)'
  PROVE  SessionInv'
<1>1. Accounts' = Accounts /\ messages' = messages
  BY DEF OnlyActs, dbVars, Accounts
<1>2. MessagesSound'
  BY <1>1 DEF SessionInv, MessagesSound, Earlier
<1>3. ASSUME NEW c \in Conns PROVE RequestSound(c)' /\ ListForAccount(c)'
  BY <1>1 DEF SessionInv, NothingNew, RequestSound, ListForAccount, NoRequest, NoResponse
<1>4. ASSUME NEW q \in Procs PROVE ProcessSound(q)'
  BY OthersSound
<1> QED BY <1>2, <1>3, <1>4 DEF SessionInv

\* A step that changes nothing the invariant is about.
LEMMA NothingHappens ==
  ASSUME SessionInv, UNCHANGED <<dbVars, linkVars, pc, sock, user, members, me_info>>
  PROVE  SessionInv'
<1> USE DEF dbVars, linkVars
<1>1. MessagesSound'
  BY DEF SessionInv, MessagesSound, Earlier, Accounts
<1>2. \A c \in Conns : RequestSound(c)' /\ ListForAccount(c)'
  BY DEF SessionInv, RequestSound, ListForAccount, Accounts
<1>3. ASSUME NEW p \in Procs PROVE ProcessSound(p)'
  <2>1. ProcessSound(p) /\ Accounts' = Accounts
    BY DEF SessionInv, Accounts
  <2>2. \A u \in DOMAIN members'[p] : EntrySound(p, u)'
    BY <2>1 DEF ProcessSound, EntrySound, KeyOnItsWay
  <2>3. ListOwner(p)' /\ RequestOwner(p)' /\ FileSound(p)'
    BY <2>1 DEF ProcessSound, ListOwner, RequestOwner, FileSound
  <2> QED BY <2>2, <2>3 DEF ProcessSound
<1> QED BY <1>1, <1>2, <1>3 DEF SessionInv

\* Without a request there is no answer.
LEMMA NoStrayAnswer ==
  ASSUME AnswersTruthful, NEW c \in Conns, rx[c] = NoRequest
  PROVE  tx[c] = NoResponse
BY DEF AnswersTruthful, Truthful, NoRequest

\* A process at the menu, or with an answer, has no key on its way: each key in
\* its list is shared, or the connection it would be used on is lost.
LEMMA KeySettled ==
  ASSUME KnownInv, SessionInv, NEW p \in Procs, NEW u \in DOMAIN members[p],
         pc[p] = "ready" \/ tx[sock[p]] # NoResponse \/ conn[sock[p]] = "closed",
         members[p][u].symmetric_key # NoKey
  PROVE  \/ Shared(messages, user[p].uuid, u, members[p][u].symmetric_key)
         \/ conn[sock[p]] = "closed"
<1>1. EntrySound(p, u)
  BY DEF SessionInv, ProcessSound
<1>2. pc[p] = "ready" => rx[sock[p]].op \in {"NONE", "ready"}
  BY DEF KnownInv, AppInv, ClientInv, LinksInv, RequestInv, NoRequest
<1> QED BY <1>1, <1>2 DEF EntrySound, KeyOnItsWay

\* So an entry that does not change stays sound.
LEMMA EntryStays ==
  ASSUME KnownInv, SessionInv, NEW p \in Procs, NEW u \in DOMAIN members[p],
         pc[p] = "ready" \/ tx[sock[p]] # NoResponse \/ conn[sock[p]] = "closed",
         UNCHANGED dbVars, members'[p][u] = members[p][u], user'[p].uuid = user[p].uuid,
         sock'[p] = sock[p], conn'[sock[p]] = conn[sock[p]]
  PROVE  EntrySound(p, u)'
<1>1. Accounts' = Accounts /\ messages' = messages
  BY DEF dbVars, Accounts
<1>2. EntrySound(p, u)
  BY DEF SessionInv, ProcessSound
<1> QED BY <1>1, <1>2, KeySettled DEF EntrySound, KeyOnItsWay

-----------------------------------------------------------------------------
(* Starting and stopping. *)

LEMMA StartSession ==
  ASSUME KnownInv, SessionInv, NEW p \in Procs, NEW c \in Conns, UNCHANGED dbVars,
         Start(p, c) \/ FailedStart(p, c)
  PROVE  SessionInv'
<1> USE DEF Connect, ConnectAndLeave, clientVars
<1>1. /\ conn \in [Conns -> {"free", "open", "closed", "eof"}]
      /\ pc \in [Procs -> {"off", "ready"} \cup RequestOps]
      /\ sock \in [Procs -> Conns \cup {NoConn}]
      /\ user \in [Procs -> Users \cup {NoUser}]
  BY DEF KnownInv, AppInv, ServerTypeOK, LinkTypeOK, ClientInv, ClientTypeOK
<1>2. conn[c] = "free" /\ rx[c] = NoRequest /\ pc[p] = "off" /\ UNCHANGED <<rx, tx, members, me_info>>
  BY DEF Start, FailedStart, KnownInv, AppInv, ClientInv, LinksInv, LinkInv
<1>3. \A q \in Procs : pc[q] # "off" => sock[q] # c /\ conn[sock[q]] # "free"
  BY <1>2 DEF KnownInv, AppInv, ClientInv, LinksInv, SocketInv
<1>4. OnlyActs(p)
  <2> SUFFICES ASSUME NEW q \in Procs \ {p}
               PROVE  /\ pc'[q] = pc[q] /\ sock'[q] = sock[q] /\ user'[q] = user[q]
                      /\ pc[q] # "off" => conn'[sock[q]] = conn[sock[q]]
    BY <1>2 DEF OnlyActs
  <2>1. CASE Start(p, c)
    BY <1>1, <1>3, <2>1 DEF Start
  <2>2. CASE FailedStart(p, c)
    BY <1>1, <1>3, <2>2 DEF FailedStart
  <2> QED BY <2>1, <2>2
<1>5. ProcessSound(p)'
  <2>1. ProcessSound(p) /\ DOMAIN members[p] = {} /\ Accounts' = Accounts
    BY <1>2 DEF SessionInv, ProcessSound, ListOwner, dbVars, Accounts
  <2>2. ListOwner(p)' /\ FileSound(p)'
    BY <1>2, <2>1 DEF ProcessSound, ListOwner, FileSound
  <2>3. RequestOwner(p)'
    BY <1>1, <1>2 DEF RequestOwner, Start, FailedStart
  <2> QED BY <1>2, <2>1, <2>2, <2>3 DEF ProcessSound
<1> QED BY <1>2, <1>4, <1>5, OwnStep DEF NothingNew

LEMMA StopSession ==
  ASSUME KnownInv, SessionInv, NEW p \in Procs, UNCHANGED dbVars, pc[p] # "off",
         StopProcess(p), FileSound(p)', \A q \in Procs \ {p} : me_info'[q] = me_info[q]
  PROVE  SessionInv'
<1> USE DEF StopProcess, Drop
<1>1. /\ conn \in [Conns -> {"free", "open", "closed", "eof"}]
      /\ DOMAIN rx = Conns /\ DOMAIN tx = Conns
      /\ DOMAIN pc = Procs /\ DOMAIN sock = Procs /\ DOMAIN user = Procs /\ DOMAIN members = Procs
  BY DEF KnownInv, AppInv, ServerTypeOK, LinkTypeOK, ClientInv, ClientTypeOK
<1>2. /\ sock[p] \in Conns
      /\ \A q \in Procs \ {p} : pc[q] # "off" => sock[q] \in Conns /\ sock[q] # sock[p]
  BY DEF KnownInv, AppInv, ClientInv, LinksInv, SocketInv
<1>3. OnlyActs(p)
  <2> SUFFICES ASSUME NEW q \in Procs \ {p}
               PROVE  /\ pc'[q] = pc[q] /\ sock'[q] = sock[q]
                      /\ user'[q] = user[q] /\ members'[q] = members[q]
                      /\ pc[q] # "off" => /\ conn'[sock[q]] = conn[sock[q]]
                                          /\ rx'[sock[q]] = rx[sock[q]]
                                          /\ tx'[sock[q]] = tx[sock[q]]
    BY DEF OnlyActs
  <2>1. /\ pc'[q] = pc[q] /\ sock'[q] = sock[q]
        /\ user'[q] = user[q] /\ members'[q] = members[q]
    BY <1>1
  <2>2. ASSUME pc[q] # "off"
        PROVE  /\ conn'[sock[q]] = conn[sock[q]]
               /\ rx'[sock[q]] = rx[sock[q]]
               /\ tx'[sock[q]] = tx[sock[q]]
    BY <1>1, <1>2, <2>2
  <2> QED BY <2>1, <2>2
<1>4. members'[p] = NoMembers /\ pc'[p] = "off"
  BY <1>1
<1>5. ProcessSound(p)'
  BY <1>4 DEF ProcessSound, NoMembers, ListOwner, RequestOwner
<1>6. \A c \in Conns : NothingNew(c) /\ rx'[c] \in {rx[c], NoRequest}
  BY <1>1, <1>2 DEF NothingNew
<1> QED BY <1>3, <1>5, <1>6, OwnStep

-----------------------------------------------------------------------------
(* messageHandler. *)

\* What p may ask for: itself, and a message that is sound.
Askable(p, r) ==
  /\ IF r.op = "REQ_REGISTER"
     THEN /\ DOMAIN members[p] = {}
          /\ r.username = user'[p].name /\ r.publicKey = user'[p].key
     ELSE r.UUID = user[p].uuid /\ user'[p] = user[p]
  /\ r.op = "REQ_MESSAGE_TO_USER" =>
       Sound(Accounts, messages, r.type, r.UUID, r.target, r.content)

LEMMA SendSession ==
  ASSUME KnownInv, SessionInv, NEW p \in Procs, NEW r \in Requests, UNCHANGED dbVars,
         pc[p] = "ready", Send(p, r), UNCHANGED <<sock, me_info>>, Askable(p, r),
         DOMAIN members'[p] = DOMAIN members[p],
         \A u \in DOMAIN members[p] : EntrySound(p, u)',
         \A q \in Procs \ {p} : user'[q] = user[q] /\ members'[q] = members[q]
  PROVE  SessionInv'
<1>1. /\ DOMAIN rx = Conns /\ DOMAIN pc = Procs
      /\ Accounts' = Accounts /\ messages' = messages
  BY DEF KnownInv, AppInv, ServerTypeOK, LinkTypeOK, ClientInv, ClientTypeOK, dbVars, Accounts
<1>2. /\ sock[p] \in Conns
      /\ \A q \in Procs \ {p} : pc[q] # "off" => sock[q] \in Conns /\ sock[q] # sock[p]
  BY DEF KnownInv, AppInv, ClientInv, LinksInv, SocketInv
<1>3. ProcessSound(p)
  BY DEF SessionInv
<1>4. FileSound(p)'
  BY <1>1, <1>3 DEF ProcessSound, FileSound
<1>5. CASE SendRequest(sock[p], r) /\ pc' = [pc EXCEPT ![p] = r.op]
  <2> USE DEF SendRequest
  <2>1. /\ rx[sock[p]] = NoRequest /\ rx'[sock[p]] = r /\ pc'[p] = r.op
        /\ \A c \in Conns \ {sock[p]} : rx'[c] = rx[c]
        /\ \A q \in Procs \ {p} : pc'[q] = pc[q]
        /\ UNCHANGED <<conn, tx>>
    BY <1>1, <1>2, <1>5
  <2>2. OnlyActs(p)
    BY <1>2, <2>1 DEF OnlyActs
  <2>3. r.op \notin {"off", "ready"}
    BY RequestOp DEF RequestOps
  <2>4. ListOwner(p)' /\ RequestOwner(p)'
    BY <1>1, <1>3, <2>1, <2>3 DEF ProcessSound, ListOwner, RequestOwner, Askable
  <2>5. ASSUME NEW c \in Conns
        PROVE  NothingNew(c) /\ (rx'[c] \in {rx[c], NoRequest} \/ RequestSound(c)')
    <3>1. CASE c = sock[p]
      <4>1. tx'[c] = NoResponse
        BY <2>1, <3>1, NoStrayAnswer DEF KnownInv, AppInv
      <4>2. RequestSound(c)'
        BY <1>1, <2>1, <3>1 DEF RequestSound, Askable
      <4> QED BY <4>1, <4>2 DEF NothingNew
    <3>2. CASE c # sock[p]
      BY <2>1, <3>2 DEF NothingNew
    <3> QED BY <3>1, <3>2
  <2>6. ProcessSound(p)'
    BY <1>4, <2>4 DEF ProcessSound
  <2> QED BY <2>2, <2>5, <2>6, OwnStep
<1>6. CASE UNCHANGED <<linkVars, pc>>
  <2> USE <1>6 DEF linkVars
  <2>1. OnlyActs(p)
    BY DEF OnlyActs
  <2>2. ListOwner(p)' /\ RequestOwner(p)'
    \* Nothing is on the connection of a process at the menu.
    <3>1. rx[sock[p]] = NoRequest
      <4>1. rx[sock[p]] \in Requests \cup {NoRequest}
        BY <1>2 DEF KnownInv, AppInv, ServerTypeOK, LinkTypeOK
      <4>2. rx[sock[p]] = NoRequest \/ rx[sock[p]].op = "ready"
        BY DEF KnownInv, AppInv, ClientInv, LinksInv, RequestInv
      <4> QED BY <4>1, <4>2, RequestOp DEF RequestOps
    <3> QED BY <1>1, <1>3, <3>1 DEF ProcessSound, ListOwner, RequestOwner, Askable
  <2>3. ProcessSound(p)'
    BY <1>4, <2>2 DEF ProcessSound
  <2> QED BY <2>1, <2>3, OwnStep DEF NothingNew
<1> QED BY <1>5, <1>6 DEF Send

LEMMA RegisterSession ==
  ASSUME KnownInv, SessionInv, NEW p \in Procs, UNCHANGED dbVars,
         NEW name \in Names, NEW key \in KeyPairs, Register(p, name, key)
  PROVE  SessionInv'
<1> DEFINE r == RegisterReq(name, key)
<1>1. r \in Requests /\ r.op = "REQ_REGISTER" /\ r.username = name /\ r.publicKey = key
  BY RequestTypes DEF RegisterReq
<1>2. /\ pc[p] = "ready" /\ user[p] = NoUser /\ Send(p, r)
      /\ user' = [user EXCEPT ![p] = User(name, UnsetUUID, key)]
      /\ UNCHANGED <<sock, me_info, members>>
  BY DEF Register, hasUser
<1> HIDE DEF r
<1>3. /\ user'[p].name = name /\ user'[p].key = key
      /\ \A q \in Procs \ {p} : user'[q] = user[q]
  BY <1>2 DEF KnownInv, AppInv, ClientInv, ClientTypeOK, User
\* Nobody has an account without a UUID, nor a member list without an account.
<1>4. DOMAIN members[p] = {}
  <2>1. user[p].uuid = UnsetUUID
    BY <1>2 DEF NoUser
  <2>2. \A account \in Accounts : account.ID # UnsetUUID
    BY ProtocolAssumption DEF Accounts, KnownInv, AppInv, ServerTypeOK, DatabaseTypeOK, ClientRows
  <2> QED BY <2>1, <2>2 DEF SessionInv, ProcessSound, ListOwner
<1>5. Askable(p, r)
  BY <1>1, <1>3, <1>4 DEF Askable
<1> QED BY <1>1, <1>2, <1>3, <1>4, <1>5, SendSession

\* Choices that change no entry.
LEMMA PlainSession ==
  ASSUME KnownInv, SessionInv, NEW p \in Procs, NEW r \in Requests, UNCHANGED dbVars,
         pc[p] = "ready", Send(p, r), UNCHANGED <<sock, user, members, me_info>>,
         r.op # "REQ_REGISTER", r.UUID = user[p].uuid,
         r.op = "REQ_MESSAGE_TO_USER" =>
           Sound(Accounts, messages, r.type, r.UUID, r.target, r.content)
  PROVE  SessionInv'
<1>1. conn' = conn
  BY DEF Send, SendRequest, linkVars
<1>2. \A u \in DOMAIN members[p] : EntrySound(p, u)'
  BY <1>1, EntryStays
<1>3. Askable(p, r)
  BY DEF Askable
<1> QED BY <1>2, <1>3, SendSession

\* 152: the key is fresh, so only its own message can make it shared.
LEMMA SendKeySession ==
  ASSUME KnownInv, SessionInv, NEW p \in Procs, UNCHANGED dbVars,
         NEW u \in UUIDs, NEW key \in SymKeys, "SEND_SYMMETRIC_KEY" \in MessageTypes,
         SendSymmetricKey(p, u, key)
  PROVE  SessionInv'
<1> DEFINE data == members[p][u]
           r == MessageReq(user[p].uuid, u, "SEND_SYMMETRIC_KEY", Rsa(data.public_key, key))
<1>1. /\ pc[p] = "ready" /\ hasUser(p) /\ u \in DOMAIN members[p] /\ Send(p, r)
      /\ data.public_key # NoKey /\ data.requested
      /\ members' = [members EXCEPT ![p] = [members[p] EXCEPT ![u] = setSymmetric(data, key)]]
      /\ UNCHANGED <<sock, user, me_info>>
  BY DEF SendSymmetricKey, getMember
<1>2. members \in [Procs -> MemberLists] /\ data \in MemberData
  BY <1>1, MemberEntry DEF KnownInv, AppInv, ClientInv, ClientTypeOK
<1>3. EntrySound(p, u) /\ Accounts' = Accounts /\ messages' = messages
  BY <1>1 DEF SessionInv, ProcessSound, dbVars, Accounts
<1>4. /\ r \in Requests
      /\ r.op = "REQ_MESSAGE_TO_USER" /\ r.type = "SEND_SYMMETRIC_KEY" /\ r.UUID = user[p].uuid
      /\ r.target = u /\ r.content.key = key /\ r.content.pub = data.public_key
  <2>1. user[p].uuid \in ClientIDs
    BY <1>1, UserFields DEF KnownInv, AppInv, ClientInv
  <2>2. Rsa(data.public_key, key) \in ContentsOf("SEND_SYMMETRIC_KEY")
    BY <1>1, <1>2 DEF ContentsOf, MemberData
  <2>3. r \in Requests
    BY <2>1, <2>2, RequestTypes
  <2> QED BY <2>3 DEF MessageReq, Rsa
<1>5. Askable(p, r)
  <2>1. Listed(Accounts, u, data) /\ Asked(messages, u, user[p].uuid)
    BY <1>1, <1>3 DEF EntrySound
  <2>2. \E account \in Accounts : account.ID = u /\ account.PublicKey = r.content.pub
    BY <1>1, <1>4, <2>1 DEF Listed
  <2> HIDE DEF r
  <2> QED BY <1>1, <1>4, <2>1, <2>2 DEF Askable, Sound
<1> HIDE DEF r
<1>6. PICK new : new = setSymmetric(data, key)
  OBVIOUS
<1>7. /\ members'[p] = [members[p] EXCEPT ![u] = new]
      /\ DOMAIN members'[p] = DOMAIN members[p]
      /\ \A v \in DOMAIN members[p] \ {u} : members'[p][v] = members[p][v]
      /\ members'[p][u] = new
      /\ \A q \in Procs \ {p} : members'[q] = members[q]
  <2>1. members'[p] = [members[p] EXCEPT ![u] = new]
    BY <1>1, <1>2, <1>6
  <2>2. \A q \in Procs \ {p} : members'[q] = members[q]
    BY <1>1, <1>2
  <2>3. DOMAIN [members[p] EXCEPT ![u] = new] = DOMAIN members[p]
    OBVIOUS
  <2> QED BY <1>1, <2>1, <2>2, <2>3
<1>8. /\ new.username = data.username /\ new.public_key = data.public_key
      /\ new.requested = data.requested /\ new.symmetric_key = key
  BY <1>2, <1>6 DEF setSymmetric, MemberData
<1>9. conn' = conn
  BY <1>1 DEF Send, SendRequest, linkVars
<1>10. EntrySound(p, u)'
  <2>1. KeyOnItsWay(p, u)'
    <3>1. sock[p] \in Conns /\ conn[sock[p]] \in {"open", "closed"} /\ DOMAIN rx = Conns
      BY <1>1 DEF KnownInv, AppInv, ClientInv, LinksInv, SocketInv, ServerTypeOK, LinkTypeOK
    <3>2. CASE SendRequest(sock[p], r)
      <4>1. tx'[sock[p]] = NoResponse /\ rx'[sock[p]] = r
        BY <3>1, <3>2, NoStrayAnswer DEF SendRequest, KnownInv, AppInv
      <4> QED BY <1>1, <1>4, <1>7, <1>8, <4>1 DEF KeyOnItsWay
    <3>3. CASE conn[sock[p]] = "closed"
      BY <1>1, <1>9, <3>3 DEF KeyOnItsWay
    <3> QED BY <1>1, <3>2, <3>3 DEF Send
  <2>2. Listed(Accounts, u, new) /\ Asked(messages, u, user[p].uuid)
    BY <1>1, <1>3, <1>8 DEF EntrySound, Listed
  <2> QED BY <1>1, <1>3, <1>7, <2>1, <2>2 DEF EntrySound
<1>11. ASSUME NEW v \in DOMAIN members[p] PROVE EntrySound(p, v)'
  BY <1>1, <1>7, <1>9, <1>10, EntryStays
<1> QED BY <1>1, <1>4, <1>5, <1>7, <1>11, SendSession

LEMMA MessageHandlerSession ==
  ASSUME KnownInv, SessionInv, NEW p \in Procs, messageHandler(p), UNCHANGED dbVars
  PROVE  SessionInv'
<1>0. /\ ClientTypeOK /\ members \in [Procs -> MemberLists]
      /\ UNCHANGED me_info
  BY DEF KnownInv, AppInv, ClientInv, ClientTypeOK, messageHandler, Register, RequestUserList,
     PullMessages, RequestPublicKey, RequestSymmetricKey, SendSymmetricKey, SendEncrypted
<1>1. CASE RequestUserList(p) \/ PullMessages(p)
  <2> DEFINE r == IF RequestUserList(p) THEN UserListReq(user[p].uuid) ELSE AwaitingReq(user[p].uuid)
  <2>1. /\ r \in Requests /\ r.UUID = user[p].uuid
        /\ r.op \notin {"REQ_REGISTER", "REQ_MESSAGE_TO_USER"}
    BY <1>0, <1>1, UserFields, RequestTypes DEF RequestUserList, PullMessages, UserListReq, AwaitingReq
  <2>2. pc[p] = "ready" /\ Send(p, r) /\ UNCHANGED <<sock, user, members, me_info>>
    BY <1>1 DEF RequestUserList, PullMessages
  <2> HIDE DEF r
  <2> QED BY <2>1, <2>2, PlainSession
<1>2. ASSUME NEW u \in UUIDs, RequestPublicKey(p, u) PROVE SessionInv'
  <2> DEFINE r == PublicKeyReq(user[p].uuid, u)
  <2>1. /\ r \in Requests /\ r.UUID = user[p].uuid
        /\ r.op \notin {"REQ_REGISTER", "REQ_MESSAGE_TO_USER"}
    BY <1>0, <1>2, UserFields, RequestTypes DEF RequestPublicKey, getMember, PublicKeyReq
  <2>2. pc[p] = "ready" /\ Send(p, r) /\ UNCHANGED <<sock, user, members, me_info>>
    BY <1>2 DEF RequestPublicKey, getMember
  <2> HIDE DEF r
  <2> QED BY <2>1, <2>2, PlainSession
<1>3. ASSUME NEW u \in UUIDs, NEW type \in MessageTypes, NEW content \in ContentsOf(type),
             getMember(p, u), Send(p, MessageReq(user[p].uuid, u, type, content)),
             UNCHANGED <<sock, user, members, me_info>>,
             Sound(Accounts, messages, type, user[p].uuid, u, content)
      PROVE  SessionInv'
  <2> DEFINE r == MessageReq(user[p].uuid, u, type, content)
  <2>1. r \in Requests
    BY <1>0, <1>3, UserFields, RequestTypes DEF getMember
  <2>2. /\ r.op = "REQ_MESSAGE_TO_USER" /\ r.UUID = user[p].uuid /\ r.target = u
        /\ r.type = type /\ r.content = content
    BY DEF MessageReq
  <2>3. pc[p] = "ready" /\ Send(p, r)
    BY <1>3 DEF getMember
  <2> HIDE DEF r
  <2> QED BY <1>3, <2>1, <2>2, <2>3, PlainSession
<1>4. ASSUME NEW u \in UUIDs, "REQ_SYMMETRIC_KEY" \in MessageTypes, RequestSymmetricKey(p, u)
      PROVE  SessionInv'
  <2>1. NoContent \in ContentsOf("REQ_SYMMETRIC_KEY")
    BY DEF ContentsOf
  <2>2. Sound(Accounts, messages, "REQ_SYMMETRIC_KEY", user[p].uuid, u, NoContent)
    BY DEF Sound
  <2> QED BY <1>3, <1>4, <2>1, <2>2 DEF RequestSymmetricKey
<1>5. ASSUME NEW u \in UUIDs, NEW type \in MessageTypes \cap {"SEND_TEXT_MSG", "SEND_FILE"},
             SendEncrypted(p, u, type)
      PROVE  SessionInv'
  <2> DEFINE key == members[p][u].symmetric_key
  <2>1. /\ pc[p] = "ready" /\ u \in DOMAIN members[p] /\ key # NoKey
        /\ Send(p, MessageReq(user[p].uuid, u, type, Aes(key)))
        /\ UNCHANGED <<sock, user, members, me_info>>
    BY <1>5 DEF SendEncrypted, getMember
  <2>2. Aes(key) \in ContentsOf(type) /\ Aes(key).key = key
    <3>1. members[p][u] \in MemberData
      BY <1>0, <2>1, MemberEntry
    <3> QED BY <2>1, <3>1, <1>5 DEF ContentsOf, Aes, MemberData
  <2>3. CASE Shared(messages, user[p].uuid, u, key)
    <3>1. Sound(Accounts, messages, type, user[p].uuid, u, Aes(key))
      BY <1>5, <2>2, <2>3 DEF Sound
    <3> QED BY <1>3, <1>5, <2>1, <2>2, <3>1 DEF SendEncrypted
  <2>4. CASE conn[sock[p]] = "closed"
    \* Nothing is sent on a connection that is lost.
    <3>1. UNCHANGED <<linkVars, pc>>
      BY <2>1, <2>4 DEF Send, SendRequest
    <3> QED BY <2>1, <3>1, NothingHappens
  <2> QED BY <2>1, <2>3, <2>4, KeySettled
<1> QED BY <1>1, <1>2, <1>4, <1>5, RegisterSession, SendKeySession DEF messageHandler

-----------------------------------------------------------------------------
(* responseHandler. *)

\* Back to the menu.  A key in the list is settled, as there is an answer.
LEMMA ReturnSession ==
  ASSUME KnownInv, SessionInv, NEW p \in Procs, UNCHANGED dbVars, pc[p] \in RequestOps, Return(p),
         \A u \in DOMAIN members'[p] : EntrySound(p, u)', ListOwner(p)', FileSound(p)',
         \A q \in Procs \ {p} : /\ user'[q] = user[q] /\ members'[q] = members[q]
                                /\ me_info'[q] = me_info[q]
  PROVE  SessionInv'
<1>1. /\ DOMAIN rx = Conns /\ DOMAIN tx = Conns /\ DOMAIN pc = Procs
      /\ sock[p] \in Conns
      /\ \A q \in Procs \ {p} : pc[q] # "off" => sock[q] \in Conns /\ sock[q] # sock[p]
  BY DEF KnownInv, AppInv, ServerTypeOK, LinkTypeOK, ClientInv, ClientTypeOK, LinksInv, SocketInv,
     RequestOps
<1>2. /\ rx'[sock[p]] = NoRequest /\ tx'[sock[p]] = NoResponse
      /\ \A c \in Conns \ {sock[p]} : rx'[c] = rx[c] /\ tx'[c] = tx[c]
      /\ \A q \in Procs \ {p} : pc'[q] = pc[q]
      /\ UNCHANGED <<conn, sock>>
  BY <1>1 DEF Return, ReadAnswer
<1>3. OnlyActs(p)
  BY <1>1, <1>2 DEF OnlyActs
<1>4. ProcessSound(p)'
  BY <1>2 DEF ProcessSound, RequestOwner
<1>5. \A c \in Conns : NothingNew(c) /\ rx'[c] \in {rx[c], NoRequest}
  BY <1>2 DEF NothingNew
<1> QED BY <1>3, <1>4, <1>5, OwnStep

\* The answer is true of the tables, for the request the process waits for.
LEMMA AnswerTrue ==
  ASSUME KnownInv, SessionInv, NEW p \in Procs, answer(p).op # "NONE"
  PROVE  /\ pc[p] \in RequestOps /\ sock[p] \in Conns /\ answer(p) \in Responses
         /\ answer(p) = tx[sock[p]] /\ tx[sock[p]] # NoResponse
         /\ Truthful(rx[sock[p]], answer(p))
         /\ rx[sock[p]] # NoRequest /\ rx[sock[p]].op = pc[p]
         /\ pc[p] # "REQ_REGISTER" => rx[sock[p]].UUID = user[p].uuid
<1>1. /\ pc[p] \in RequestOps /\ sock[p] \in Conns
      /\ answer(p) = tx[sock[p]] /\ answer(p) \in Responses
  BY AnswerTypes DEF KnownInv, AppInv
<1>2. tx[sock[p]] # NoResponse
  BY <1>1 DEF NoResponse
<1>3. Truthful(rx[sock[p]], answer(p)) /\ rx[sock[p]] # NoRequest
  BY <1>1, <1>2, NoStrayAnswer DEF KnownInv, AppInv, AnswersTruthful
<1>4. pc[p] # "off"
  BY <1>1 DEF RequestOps
<1>5. rx[sock[p]].op = pc[p]
  BY <1>3, <1>4 DEF KnownInv, AppInv, ClientInv, LinksInv, RequestInv
<1>6. pc[p] # "REQ_REGISTER" => rx[sock[p]].UUID = user[p].uuid
  BY <1>3, <1>4 DEF SessionInv, ProcessSound, RequestOwner
<1> QED BY <1>1, <1>2, <1>3, <1>5, <1>6

\* An answer that changes neither user, list nor file.
LEMMA PlainReturn ==
  ASSUME KnownInv, SessionInv, NEW p \in Procs, UNCHANGED dbVars, answer(p).op # "NONE", Return(p),
         UNCHANGED <<user, members, me_info>>
  PROVE  SessionInv'
<1>1. pc[p] \in RequestOps /\ tx[sock[p]] # NoResponse
  BY AnswerTrue
<1>2. \A u \in DOMAIN members'[p] : EntrySound(p, u)'
  BY <1>1, EntryStays DEF Return, ReadAnswer
<1>3. pc'[p] = "ready" /\ Accounts' = Accounts
  BY DEF KnownInv, AppInv, ClientInv, ClientTypeOK, Return, dbVars, Accounts
<1>4. ListOwner(p)' /\ FileSound(p)'
  BY <1>3 DEF SessionInv, ProcessSound, ListOwner, FileSound
<1> QED BY <1>1, <1>2, <1>4, ReturnSession

\* 2100: the user that signed up is the one whose account was made, and has no
\* member list yet.
LEMMA RegisteredAccount ==
  ASSUME KnownInv, SessionInv, NEW p \in Procs, answer(p).op = "RESP_REGISTER_SUCCESSFULL"
  PROVE  /\ pc[p] = "REQ_REGISTER" /\ DOMAIN members[p] = {}
         /\ \E account \in Accounts : /\ account.ID = registered(p).uuid
                                      /\ account.UserName = registered(p).name
                                      /\ account.PublicKey = registered(p).key
<1>1. /\ pc[p] \in RequestOps /\ Truthful(rx[sock[p]], answer(p))
      /\ rx[sock[p]] # NoRequest /\ rx[sock[p]].op = pc[p]
  BY AnswerTrue
<1>2. pc[p] = "REQ_REGISTER"
  BY <1>1 DEF Truthful
<1>3. DOMAIN members[p] = {}
  BY <1>2 DEF SessionInv, ProcessSound, ListOwner
<1>4. rx[sock[p]].username = user[p].name /\ rx[sock[p]].publicKey = user[p].key
  BY <1>1, <1>2 DEF SessionInv, ProcessSound, RequestOwner
<1>5. /\ registered(p).uuid = answer(p).UUID
      /\ registered(p).name = user[p].name
      /\ registered(p).key = user[p].key
  <2>1. user[p] \in Users
    BY RegistersWhenRegistered DEF KnownInv
  <2> QED BY <2>1 DEF registered, Users, User
<1>6. PICK row \in clients : /\ row.ID = answer(p).UUID
                             /\ row.UserName = rx[sock[p]].username
                             /\ row.PublicKey = rx[sock[p]].publicKey
  BY <1>1 DEF Truthful
<1>7. AccountOf(row) \in Accounts
  BY AccountRow
<1> QED BY <1>2, <1>3, <1>4, <1>5, <1>6, <1>7 DEF AccountOf

LEMMA RegisteredSession ==
  ASSUME KnownInv, SessionInv, NEW p \in Procs, UNCHANGED dbVars, OnRegistered(p)
  PROVE  SessionInv'
<1>1. /\ DOMAIN user = Procs /\ DOMAIN me_info = Procs /\ DOMAIN members = Procs
      /\ Accounts' = Accounts
  BY DEF KnownInv, AppInv, ClientInv, ClientTypeOK, dbVars, Accounts
<1>2. /\ pc[p] = "REQ_REGISTER" /\ DOMAIN members[p] = {}
      /\ \E account \in Accounts : /\ account.ID = registered(p).uuid
                                   /\ account.UserName = registered(p).name
                                   /\ account.PublicKey = registered(p).key
  BY RegisteredAccount DEF OnRegistered
<1>3. Return(p) /\ members' = members /\ me_info' = [me_info EXCEPT ![p] = MeInfo(3, registered(p))]
  BY DEF OnRegistered
<1>4. FileSound(p)'
  <2>1. me_info'[p].user = registered(p)
    BY <1>1, <1>3 DEF MeInfo
  <2> QED BY <1>1, <1>2, <2>1 DEF FileSound
<1>5. ListOwner(p)' /\ DOMAIN members'[p] = {}
  BY <1>2, <1>3 DEF ListOwner
<1>6. \A q \in Procs \ {p} : user'[q] = user[q] /\ me_info'[q] = me_info[q]
  BY <1>1 DEF OnRegistered
<1> QED BY <1>2, <1>3, <1>4, <1>5, <1>6, ReturnSession DEF RequestOps

\* A file cut short by a crash is not complete.
LEMMA RegisteredCrashSession ==
  ASSUME KnownInv, SessionInv, NEW p \in Procs, UNCHANGED dbVars, NEW lines \in 0..2,
         OnRegisteredCrash(p, lines)
  PROVE  SessionInv'
<1>1. DOMAIN me_info = Procs
  BY DEF KnownInv, AppInv, ClientInv, ClientTypeOK
<1>2. pc[p] # "off"
  BY RegisteredAccount DEF OnRegisteredCrash
<1>3. FileSound(p)' /\ \A q \in Procs \ {p} : me_info'[q] = me_info[q]
  BY <1>1 DEF OnRegisteredCrash, FileSound, MeInfo
<1> QED BY <1>2, <1>3, StopSession DEF OnRegisteredCrash

\* 2101: the list holds accounts, and belongs to one.
LEMMA UserListSession ==
  ASSUME KnownInv, SessionInv, NEW p \in Procs, UNCHANGED dbVars, OnUserList(p)
  PROVE  SessionInv'
<1> DEFINE users == answer(p).users
           name(u) == (CHOOSE entry \in users : entry.ID = u).UserName
           list == [u \in {entry.ID : entry \in users} |-> NewMember(name(u))]
<1>1. /\ answer(p).op = "RESP_USER_LIST" /\ Return(p) /\ UNCHANGED <<user, me_info>>
      /\ users = {} => members' = members
      /\ users # {} => members' = [members EXCEPT ![p] = list]
  BY DEF OnUserList
<1>2. CASE users = {}
  BY <1>1, <1>2, PlainReturn
<1>3. CASE users # {}
  <2>1. /\ pc[p] \in RequestOps /\ sock[p] \in Conns /\ Truthful(rx[sock[p]], answer(p))
        /\ rx[sock[p]].op = pc[p] /\ answer(p) = tx[sock[p]]
        /\ pc[p] # "REQ_REGISTER" => rx[sock[p]].UUID = user[p].uuid
    BY <1>1, AnswerTrue
  <2>2. /\ rx[sock[p]].op = "REQ_USER_LIST"
        /\ \A entry \in users : \E row \in clients : row.ID = entry.ID /\ row.UserName = entry.UserName
    BY <1>1, <2>1 DEF Truthful
  <2> HIDE DEF users
  <2>3. DOMAIN members = Procs /\ DOMAIN pc = Procs /\ Accounts' = Accounts
    BY DEF KnownInv, AppInv, ClientInv, ClientTypeOK, dbVars, Accounts
  <2>4. \A u \in DOMAIN list : \E account \in Accounts : account.ID = u /\ account.UserName = name(u)
    <3> SUFFICES ASSUME NEW u \in DOMAIN list
                 PROVE  \E account \in Accounts : account.ID = u /\ account.UserName = name(u)
      OBVIOUS
    <3>1. PICK entry \in users : entry.ID = u /\ name(u) = entry.UserName
      OBVIOUS
    <3>2. PICK row \in clients : row.ID = u /\ row.UserName = name(u)
      BY <2>2, <3>1
    <3> HIDE DEF name
    <3> QED BY <3>2, AccountRow DEF AccountOf
  <2>5. \A u \in DOMAIN list : list[u] = NewMember(name(u))
    OBVIOUS
  <2> HIDE DEF list, name
  <2>6. members'[p] = list /\ \A q \in Procs \ {p} : members'[q] = members[q]
    BY <1>1, <1>3, <2>3
  <2>7. ASSUME NEW u \in DOMAIN members'[p] PROVE EntrySound(p, u)'
    BY <2>3, <2>4, <2>5, <2>6, <2>7 DEF EntrySound, Listed, NewMember
  <2>8. ListOwner(p)'
    <3>1. \E account \in Accounts : account.ID = user[p].uuid
      BY <1>1, <2>1, <2>2 DEF SessionInv, ListForAccount
    <3>2. pc'[p] = "ready"
      BY <1>1, <2>3 DEF Return
    <3> QED BY <1>1, <2>3, <3>1, <3>2 DEF ListOwner
  <2>9. FileSound(p)'
    BY <1>1, <2>3 DEF SessionInv, ProcessSound, FileSound
  <2> QED BY <1>1, <2>1, <2>6, <2>7, <2>8, <2>9, ReturnSession
<1> QED BY <1>2, <1>3

\* An answer that changes the entry of one member to data.
LEMMA EntrySession ==
  ASSUME KnownInv, SessionInv, NEW p \in Procs, UNCHANGED dbVars, answer(p).op # "NONE", Return(p),
         UNCHANGED <<user, me_info>>, NEW u \in DOMAIN members[p], NEW data,
         members' = [members EXCEPT ![p] = [members[p] EXCEPT ![u] = data]],
         Listed(Accounts, u, data),
         data.requested => Asked(messages, u, user[p].uuid),
         data.symmetric_key \in {NoKey, members[p][u].symmetric_key}
           \/ Shared(messages, user[p].uuid, u, data.symmetric_key)
  PROVE  SessionInv'
<1>1. pc[p] \in RequestOps /\ tx[sock[p]] # NoResponse
  BY AnswerTrue
<1>2. /\ DOMAIN members = Procs /\ DOMAIN pc = Procs
      /\ Accounts' = Accounts /\ messages' = messages
  BY DEF KnownInv, AppInv, ClientInv, ClientTypeOK, dbVars, Accounts
<1>3. /\ members'[p][u] = data
      /\ DOMAIN members'[p] = DOMAIN members[p]
      /\ \A v \in DOMAIN members[p] \ {u} : members'[p][v] = members[p][v]
      /\ \A q \in Procs \ {p} : members'[q] = members[q]
  BY <1>2
<1>4. EntrySound(p, u)'
  <2>1. data.symmetric_key # NoKey =>
          Shared(messages, user[p].uuid, u, data.symmetric_key) \/ conn[sock[p]] = "closed"
    BY <1>1, KeySettled
  <2>2. UNCHANGED <<conn, sock>>
    BY DEF Return, ReadAnswer
  <2> QED BY <1>2, <1>3, <2>1, <2>2 DEF EntrySound, KeyOnItsWay
<1>5. \A v \in DOMAIN members'[p] : EntrySound(p, v)'
  BY <1>1, <1>3, <1>4, EntryStays DEF Return, ReadAnswer
<1>6. ListOwner(p)' /\ FileSound(p)'
  <2>1. pc'[p] = "ready"
    BY <1>2 DEF Return
  <2> QED BY <1>2, <1>3, <2>1 DEF SessionInv, ProcessSound, ListOwner, FileSound
<1> QED BY <1>1, <1>3, <1>5, <1>6, ReturnSession

\* 2102: the key is that of the member's account, as no other has its UUID.
LEMMA PublicKeySession ==
  ASSUME KnownInv, SessionInv, NEW p \in Procs, UNCHANGED dbVars, OnPublicKey(p)
  PROVE  SessionInv'
<1> DEFINE u == answer(p).UUID
           data == setPublic(members[p][u], answer(p).publicKey)
<1>1. /\ answer(p).op = "RESP_PUBLIC_KEY" /\ Return(p) /\ UNCHANGED <<user, me_info>>
      /\ ~findUser(p, u) => members' = members
      /\ findUser(p, u) => members' = [members EXCEPT ![p] = [members[p] EXCEPT ![u] = data]]
  BY DEF OnPublicKey
<1>2. CASE ~findUser(p, u)
  BY <1>1, <1>2, PlainReturn
<1>3. CASE findUser(p, u)
  <2>1. u \in DOMAIN members[p] /\ members[p][u] \in MemberData
    BY <1>3, MemberEntry DEF findUser, KnownInv, AppInv, ClientInv, ClientTypeOK
  <2>2. /\ data.username = members[p][u].username
        /\ data.public_key = answer(p).publicKey
        /\ data.requested = members[p][u].requested
        /\ data.symmetric_key = members[p][u].symmetric_key
    BY <2>1 DEF setPublic, MemberData
  <2>3. EntrySound(p, u)
    BY <2>1 DEF SessionInv, ProcessSound
  <2>4. Listed(Accounts, u, data)
    <3>1. Truthful(rx[sock[p]], answer(p))
      BY <1>1, AnswerTrue
    <3>2. PICK row \in clients : row.ID = u /\ row.PublicKey = answer(p).publicKey
      BY <1>1, <3>1 DEF Truthful
    <3>3. PICK account \in Accounts : account.ID = u /\ account.UserName = members[p][u].username
      BY <2>3 DEF EntrySound, Listed
    <3>4. /\ AccountOf(row) \in Accounts
          /\ AccountOf(row).ID = u /\ AccountOf(row).PublicKey = answer(p).publicKey
      BY <3>2, AccountRow DEF AccountOf
    <3>5. account = AccountOf(row)
      BY <3>3, <3>4, OneAccount DEF KnownInv
    <3> HIDE DEF u, data
    <3> QED BY <2>2, <3>3, <3>4, <3>5 DEF Listed
  <2> HIDE DEF u, data
  <2> QED BY <1>1, <1>3, <2>1, <2>2, <2>3, <2>4, EntrySession DEF EntrySound
<1> QED BY <1>2, <1>3

\* 2104: a request or a key counts as the message that brought it says.
LEMMA WaitingMessagesSession ==
  ASSUME KnownInv, SessionInv, NEW p \in Procs, UNCHANGED dbVars, OnWaitingMessages(p)
  PROVE  SessionInv'
<1> DEFINE message == answer(p).message
           u == message.FromClient
           data == received(p, members[p][u], message)
<1>1. /\ answer(p).op = "RESP_AWAITING_MESSAGES" /\ Return(p) /\ UNCHANGED <<user, me_info>>
      /\ ~findUser(p, u) => members' = members
      /\ findUser(p, u) => members' = [members EXCEPT ![p] = [members[p] EXCEPT ![u] = data]]
  BY DEF OnWaitingMessages
<1>2. CASE ~findUser(p, u)
  BY <1>1, <1>2, PlainReturn
<1>3. CASE findUser(p, u)
  <2>1. u \in DOMAIN members[p] /\ members[p][u] \in MemberData
    BY <1>3, MemberEntry DEF findUser, KnownInv, AppInv, ClientInv, ClientTypeOK
  <2>2. EntrySound(p, u)
    BY <2>1 DEF SessionInv, ProcessSound
  <2>3. \E row \in messages : /\ row.ToClient = user[p].uuid /\ row.FromClient = u
                              /\ row.Type = message.Type /\ row.Content = message.Content
    <3>1. /\ Truthful(rx[sock[p]], answer(p))
          /\ rx[sock[p]].op = pc[p]
          /\ pc[p] # "REQ_REGISTER" => rx[sock[p]].UUID = user[p].uuid
      BY <1>1, AnswerTrue
    <3> QED BY <1>1, <3>1 DEF Truthful
  <2> HIDE DEF u, message
  <2>4. CASE message.Type = "REQ_SYMMETRIC_KEY" /\ ~members[p][u].requested
    <3>1. /\ data.username = members[p][u].username
          /\ data.public_key = members[p][u].public_key
          /\ data.symmetric_key = members[p][u].symmetric_key
      BY <2>1, <2>4 DEF received, setRequested, MemberData
    <3>2. Asked(messages, u, user[p].uuid)
      BY <2>3, <2>4 DEF Asked
    <3>3. Listed(Accounts, u, data)
      BY <2>2, <3>1 DEF EntrySound, Listed
    <3> HIDE DEF data
    <3> QED BY <1>1, <1>3, <2>1, <3>1, <3>2, <3>3, EntrySession
  <2>5. CASE message.Type = "SEND_SYMMETRIC_KEY" /\ decrypts(user[p].key, message.Content)
    <3>1. /\ data.username = members[p][u].username
          /\ data.public_key = members[p][u].public_key
          /\ data.requested = members[p][u].requested
          /\ data.symmetric_key = message.Content.key
      BY <2>1, <2>5 DEF received, setSymmetric, MemberData
    <3>2. Shared(messages, user[p].uuid, u, message.Content.key)
      BY <2>3, <2>5 DEF Shared
    <3>3. Listed(Accounts, u, data)
      BY <2>2, <3>1 DEF EntrySound, Listed
    <3> HIDE DEF data
    <3> QED BY <1>1, <1>3, <2>1, <2>2, <3>1, <3>2, <3>3, EntrySession DEF EntrySound
  <2>6. CASE /\ ~(message.Type = "REQ_SYMMETRIC_KEY" /\ ~members[p][u].requested)
             /\ ~(message.Type = "SEND_SYMMETRIC_KEY" /\ decrypts(user[p].key, message.Content))
    <3>1. data = members[p][u]
      BY <2>6 DEF received
    <3> HIDE DEF data
    <3> QED BY <1>1, <1>3, <2>1, <2>2, <3>1, EntrySession DEF EntrySound
  <2> QED BY <2>4, <2>5, <2>6
<1> QED BY <1>2, <1>3

\* 9000: only who registers loses its user, and has no member list yet.
LEMMA GeneralErrorSession ==
  ASSUME KnownInv, SessionInv, NEW p \in Procs, UNCHANGED dbVars, OnGeneralError(p)
  PROVE  SessionInv'
<1>1. /\ answer(p).op = "RESP_GENERAL_ERROR" /\ Return(p) /\ UNCHANGED <<members, me_info>>
      /\ user' = IF pc[p] = "REQ_REGISTER" THEN [user EXCEPT ![p] = NoUser] ELSE user
  BY DEF OnGeneralError
<1>2. CASE pc[p] # "REQ_REGISTER"
  BY <1>1, <1>2, PlainReturn
<1>3. CASE pc[p] = "REQ_REGISTER"
  <2>1. DOMAIN members[p] = {}
    BY <1>3 DEF SessionInv, ProcessSound, ListOwner
  <2>2. \A q \in Procs \ {p} : user'[q] = user[q]
    BY <1>1 DEF KnownInv, AppInv, ClientInv, ClientTypeOK
  <2>3. ListOwner(p)' /\ FileSound(p)'
    BY <1>1, <2>1 DEF SessionInv, ProcessSound, ListOwner, FileSound, dbVars, Accounts
  <2> QED BY <1>1, <1>3, <2>1, <2>2, <2>3, ReturnSession DEF RequestOps
<1> QED BY <1>2, <1>3

\* The server closed the connection, with the key or before it: lost either way.
LEMMA DisconnectSession ==
  ASSUME KnownInv, SessionInv, NEW p \in Procs, UNCHANGED dbVars, OnDisconnect(p)
  PROVE  SessionInv'
<1>1. /\ pc[p] \in RequestOps /\ conn[sock[p]] = "closed" /\ tx[sock[p]] = NoResponse
      /\ pc' = [pc EXCEPT ![p] = "ready"]
      /\ UNCHANGED <<conn, rx, tx, sock, user, members, me_info>>
  BY DEF OnDisconnect, linkVars
<1>2. DOMAIN pc = Procs /\ Accounts' = Accounts
  BY DEF KnownInv, AppInv, ClientInv, ClientTypeOK, dbVars, Accounts
<1>3. OnlyActs(p)
  BY <1>1, <1>2 DEF OnlyActs
<1>4. \A u \in DOMAIN members'[p] : EntrySound(p, u)'
  BY <1>1, EntryStays
<1>5. ListOwner(p)' /\ FileSound(p)'
  BY <1>1, <1>2 DEF SessionInv, ProcessSound, ListOwner, FileSound
<1>6. RequestOwner(p)'
  <2>1. pc[p] # "off" /\ sock[p] \in Conns
    BY <1>1 DEF RequestOps, KnownInv, AppInv, ClientInv, LinksInv, SocketInv
  <2>2. rx[sock[p]] = NoRequest
    BY <1>1, <2>1 DEF KnownInv, AppInv, ClientInv, LinksInv, LinkInv
  <2> QED BY <1>1, <2>2 DEF RequestOwner
<1> QED BY <1>1, <1>3, <1>4, <1>5, <1>6, OwnStep DEF ProcessSound, NothingNew

LEMMA ResponseHandlerSession ==
  ASSUME KnownInv, SessionInv, NEW p \in Procs, responseHandler(p), UNCHANGED dbVars
  PROVE  SessionInv'
<1>1. CASE OnRegisteredNoFile(p) \/ OnMessageSent(p)
  BY <1>1, PlainReturn DEF OnRegisteredNoFile, OnMessageSent
<1> QED BY <1>1, RegisteredSession, RegisteredCrashSession, UserListSession, PublicKeySession,
        WaitingMessagesSession, GeneralErrorSession, DisconnectSession DEF responseHandler

-----------------------------------------------------------------------------
(* The invariant, and what it says of the sessions. *)

LEMMA SessionStep ==
  ASSUME KnownInv, SessionInv, [Next]_vars
  PROVE  SessionInv'
<1>1. CASE UNCHANGED vars
  <2>1. UNCHANGED <<dbVars, linkVars, pc, sock, user, members, me_info>>
    BY <1>1 DEF vars, serverVars, clientVars, dbVars, linkVars
  <2> QED BY <2>1, NothingHappens
<1>2. CASE ServerSteps
  BY <1>2, ServerKeepsSessionInv
<1>3. CASE ClientSteps
  <2>1. UNCHANGED dbVars
    BY <1>3 DEF ClientSteps
  <2>2. ASSUME NEW p \in Procs, Exit(p)
        PROVE  SessionInv'
    <3>1. FileSound(p)'
      BY <2>1, <2>2 DEF SessionInv, ProcessSound, FileSound, Exit, dbVars, Accounts
    <3> QED BY <2>1, <2>2, <3>1, StopSession DEF Exit
  <2> QED BY <1>3, <2>1, <2>2, StartSession, MessageHandlerSession, ResponseHandlerSession
          DEF ClientSteps, ClientNext
<1> QED BY <1>1, <1>2, <1>3 DEF Next

LEMMA SessionInit == Init => SessionInv
<1> SUFFICES ASSUME Init PROVE SessionInv
  OBVIOUS
<1> USE DEF Init, ServerInit, ClientInit, LinkInit, initialize_database
<1>1. MessagesSound
  BY DEF MessagesSound
<1>2. \A c \in Conns : RequestSound(c) /\ ListForAccount(c)
  BY DEF RequestSound, ListForAccount, NoRequest, NoResponse
<1>3. \A p \in Procs : ProcessSound(p)
  BY DEF ProcessSound, NoMembers, ListOwner, RequestOwner, FileSound, NoFile, MeInfo
<1> QED BY <1>1, <1>2, <1>3 DEF SessionInv

LEMMA KnownInvariant == Spec => []KnownInv
BY AppInvariant, AppImplementsServer, AccountsAreUnique, MessageIdsAreDense, PTL DEF KnownInv

LEMMA SessionInvariant == Spec => []SessionInv
<1>1. KnownInv /\ SessionInv /\ [Next]_vars => SessionInv'
  BY SessionStep
<1> QED BY <1>1, SessionInit, KnownInvariant, PTL DEF Spec

\* A member list, fetched once and never refreshed, names accounts of the server
\* for the whole session, and each public key in it is the one that account
\* registered, whatever is registered, sent, lost or restarted in the meantime.
THEOREM MembersAreAccounts == Spec => []MembersMatchAccounts
<1>1. SessionInv => MembersMatchAccounts
  <2> SUFFICES ASSUME SessionInv, NEW p \in Procs, NEW u \in DOMAIN members[p]
               PROVE  \E row \in clients :
                        /\ row.ID = u
                        /\ row.UserName = members[p][u].username
                        /\ members[p][u].public_key \in {NoKey, row.PublicKey}
    BY DEF MembersMatchAccounts
  <2>1. EntrySound(p, u)
    BY DEF SessionInv, ProcessSound
  <2> QED BY <2>1, AccountRow DEF EntrySound, Listed, AccountOf
<1> QED BY <1>1, SessionInvariant, PTL

\* A complete me.info signs its user in to an existing account, with the pair
\* that account published, wherever client and server crashed since it was
\* written.
THEOREM FilesSignIn == Spec => []FileMatchesAccount
<1>1. SessionInv => FileMatchesAccount
  <2> SUFFICES ASSUME SessionInv, NEW p \in Procs, me_info[p].lines = 3
               PROVE  \E row \in clients : /\ row.ID = me_info[p].user.uuid
                                           /\ row.UserName = me_info[p].user.name
                                           /\ row.PublicKey = me_info[p].user.key
    BY DEF FileMatchesAccount
  <2>1. FileSound(p)
    BY DEF SessionInv, ProcessSound
  <2> QED BY <2>1, AccountRow DEF FileSound, AccountOf
<1> QED BY <1>1, SessionInvariant, PTL

\* A stored symmetric key is sealed under the public key of the account it is
\* addressed to: sendSymmetricKey takes the key from a list that may be old,
\* and the message may be stored long after.
THEOREM KeysAreSealed == Spec => []KeysSealedForRecipient
<1>1. SessionInv => KeysSealedForRecipient
  <2> SUFFICES ASSUME SessionInv, NEW row \in messages, row.Type = "SEND_SYMMETRIC_KEY"
               PROVE  \E account \in clients : /\ account.ID = row.ToClient
                                               /\ account.PublicKey = row.Content.pub
    BY DEF KeysSealedForRecipient
  <2>1. Sound(Accounts, Earlier(row), row.Type, row.FromClient, row.ToClient, row.Content)
    BY DEF SessionInv, MessagesSound
  <2> QED BY <2>1, AccountRow DEF Sound, AccountOf
<1> QED BY <1>1, SessionInvariant, PTL

\* Every stored symmetric key answers a request for one that its receiver sent
\* its sender, and that is stored before it.
THEOREM KeysAreRequested == Spec => []KeysWereRequested
<1>1. SessionInv => KeysWereRequested
  BY DEF SessionInv, MessagesSound, Sound, Asked, Earlier, KeysWereRequested
<1> QED BY <1>1, SessionInvariant, PTL

\* Every stored text or file is encrypted with a key that one of the two sent
\* the other in a message stored before it: the receiver could always have it.
THEOREM TextsComeAfterTheirKey == Spec => []TextsHaveTheirKey
<1>1. SessionInv => TextsHaveTheirKey
  BY DEF SessionInv, MessagesSound, Sound, Shared, Earlier, TextsHaveTheirKey
<1> QED BY <1>1, SessionInvariant, PTL

=============================================================================
