---------------------------- MODULE ServerProofs ----------------------------
(***************************************************************************)
(* Theorems about Server, for every set of connections, users, keys and    *)
(* messages and for every bound on row ids.                                *)
(***************************************************************************)
EXTENDS Server, Maxima, TLAPS

-----------------------------------------------------------------------------
(* A non-empty set of row ids has a largest one, so lastRow is a row. *)

\* The row collectMsgsRequest sends is one of the rows it selected, the newest.
LEMMA LastRowIsNewest ==
  ASSUME NEW rows, rows \subseteq MessageRows, rows # {}
  PROVE  lastRow(rows) \in rows /\ \A other \in rows : other.ID <= lastRow(rows).ID
<1> DEFINE ids == {row.ID : row \in rows}
<1>1. ids \in SUBSET (0..MaxRowId) /\ ids # {}
  <2>1. \A row \in rows : row.ID \in 0..MaxRowId
    BY ProtocolAssumption DEF MessageRows
  <2>2. PICK row \in rows : TRUE
    OBVIOUS
  <2> QED BY <2>1, <2>2
<1>2. PICK m \in ids : \A k \in ids : k <= m
  <2> HIDE DEF ids
  <2> QED BY <1>1, HasMaximum, ProtocolAssumption
<1>3. PICK row \in rows : row.ID = m
  BY <1>2
<1>4. \A other \in rows : other.ID <= row.ID
  BY <1>2, <1>3
<1> QED BY <1>3, <1>4 DEF lastRow

-----------------------------------------------------------------------------
(* The shapes of requests and responses. *)

\* What a request of each kind carries.
LEMMA RequestFields ==
  ASSUME NEW r \in Requests
  PROVE  /\ r.op = "REQ_REGISTER" => r.username \in Names /\ r.publicKey \in KeyPairs
         /\ r.op = "REQ_PUBLIC_KEY" => r.target \in UUIDs
         /\ r.op = "REQ_MESSAGE_TO_USER" =>
              r.target \in UUIDs /\ r.type \in MessageTypes /\ r.content \in ContentsOf(r.type)
<1>1. CASE r \in MessageReqs
  <2>1. PICK type \in MessageTypes : \E id \in ClientIDs, target \in UUIDs :
          \E content \in ContentsOf(type) : r = MessageReq(id, target, type, content)
    BY <1>1 DEF MessageReqs
  <2>2. PICK id \in ClientIDs, target \in UUIDs, content \in ContentsOf(type) :
          r = MessageReq(id, target, type, content)
    BY <2>1
  <2>3. r.op = "REQ_MESSAGE_TO_USER" /\ r.target = target /\ r.type = type /\ r.content = content
    BY <2>2 DEF MessageReq
  <2> QED BY <2>3
<1>2. CASE r \notin MessageReqs
  BY <1>2 DEF Requests, RegisterReq, UserListReq, PublicKeyReq, AwaitingReq
<1> QED BY <1>1, <1>2

\* Every response the handlers build is a response.
LEMMA ResponseTypes ==
  /\ \A id \in UUIDs : RegisterResp(id) \in Responses
  /\ \A users \in SUBSET Members : UserListResp(users) \in Responses
  /\ \A id \in UUIDs, key \in KeyPairs : PublicKeyResp(id, key) \in Responses
  /\ \A id \in UUIDs, row \in 1..MaxRowId : MessageSentResp(id, row) \in Responses
  /\ \A message \in WaitingMessages : AwaitingResp(message) \in Responses
  /\ GeneralError \in Responses
BY DEF Responses

-----------------------------------------------------------------------------
(* Type correctness, operation by operation. *)

\* sendall leaves well-formed connections behind.
LEMMA SendAllType ==
  ASSUME LinkTypeOK, NEW c \in Conns, NEW response \in Responses, SendAll(c, response)
  PROVE  LinkTypeOK'
BY DEF LinkTypeOK, SendAll

\* So do disconnect_client and both ways the except clause ends.
LEMMA DisconnectClientType ==
  ASSUME LinkTypeOK, NEW c \in Conns, DisconnectClient(c)
  PROVE  LinkTypeOK'
BY DEF LinkTypeOK, DisconnectClient

LEMMA ExceptClauseType ==
  ASSUME LinkTypeOK, NEW c \in Conns, flushRaises(c) \/ sendGeneralError(c)
  PROVE  LinkTypeOK'
BY SendAllType, DisconnectClientType, ResponseTypes DEF flushRaises, sendGeneralError

\* What a readable connection holds is a request.
LEMMA ReadableRequest ==
  ASSUME LinkTypeOK, NEW c \in Conns, Readable(c)
  PROVE  rx[c] \in Requests
BY DEF LinkTypeOK, Readable

\* The updates keep the rows of clients well formed.
LEMMA RegisterUserType ==
  ASSUME clients \subseteq ClientRows, NEW id \in UUIDs, NEW name \in Names,
         NEW key \in KeyPairs, register_user(id, name, key)
  PROVE  clients' \subseteq ClientRows
BY DEF ClientRows, register_user

LEMMA UpdateLastSeenType ==
  ASSUME clients \subseteq ClientRows, NEW id, updateLastSeen(id)
  PROVE  clients' \subseteq ClientRows
BY DEF ClientRows, updateLastSeen

\* Whoever has a row in clients has a UUID that the server issued.
LEMMA KnownIsUUID ==
  ASSUME clients \subseteq ClientRows, NEW id, idExists(id)
  PROVE  /\ id \in UUIDs
         /\ clientRow(id) \in clients
         /\ clientRow(id).ID = id
         /\ getPublicKey(id) \in KeyPairs
         /\ getUsername(id) \in Names
BY DEF ClientRows, idExists, clientRow, getPublicKey, getUsername

\* The member list sent is a set of members.
LEMMA UserListType ==
  ASSUME clients \subseteq ClientRows, NEW id
  PROVE  getAllUsers(id) \in SUBSET Members
BY DEF ClientRows, getAllUsers, Members

LEMMA SendMessageType ==
  ASSUME DatabaseTypeOK, rowIdFits, NEW to \in UUIDs, NEW from \in UUIDs,
         NEW type \in MessageTypes, NEW content \in ContentsOf(type),
         sendMessageToTarget(to, from, type, content)
  PROVE  messages' \subseteq MessageRows /\ autoinc' \in 0..MaxRowId
BY ProtocolAssumption DEF DatabaseTypeOK, MessageRows, Contents, rowIdFits,
   sendMessageToTarget

\* The waiting message sent is one.
LEMMA ByteMsgType ==
  ASSUME messages \subseteq MessageRows, NEW id, getAllMessages(id) # {}
  PROVE  /\ byte_msg(getAllMessages(id)) \in WaitingMessages
         /\ lastRow(getAllMessages(id)) \in getAllMessages(id)
<1>1. getAllMessages(id) \subseteq MessageRows
  BY DEF getAllMessages
<1>2. lastRow(getAllMessages(id)) \in getAllMessages(id)
  BY <1>1, LastRowIsNewest
<1>3. lastRow(getAllMessages(id)) \in MessageRows
  BY <1>1, <1>2
<1>4. byte_msg(getAllMessages(id)) \in WaitingMessages
  BY <1>3 DEF byte_msg, MessageRows, WaitingMessages
<1> QED BY <1>2, <1>4

-----------------------------------------------------------------------------
(* Type correctness of the handlers. *)

LEMMA RegisterType ==
  ASSUME ServerTypeOK, NEW c \in Conns, registerRequest(c)
  PROVE  ServerTypeOK'
<1> USE DEF ServerTypeOK, DatabaseTypeOK
<1>1. rx[c] \in Requests /\ rx[c].op = "REQ_REGISTER" /\ UNCHANGED <<messages, autoinc>>
  BY ReadableRequest DEF registerRequest
<1>2. PICK rndUUID \in UUIDs :
        \/ registerRaises(c, rndUUID)
        \/ /\ register_user(rndUUID, rx[c].username, rx[c].publicKey)
           /\ SendAll(c, RegisterResp(rndUUID))
  BY DEF registerRequest
<1>3. CASE registerRaises(c, rndUUID)
  BY <1>1, <1>3, ExceptClauseType DEF registerRaises
<1>4. CASE /\ register_user(rndUUID, rx[c].username, rx[c].publicKey)
           /\ SendAll(c, RegisterResp(rndUUID))
  <2>1. clients' \subseteq ClientRows
    BY <1>1, <1>4, RequestFields, RegisterUserType
  <2>2. LinkTypeOK'
    BY <1>4, SendAllType, ResponseTypes
  <2> QED BY <1>1, <2>1, <2>2
<1> QED BY <1>2, <1>3, <1>4

LEMMA UserListRequestType ==
  ASSUME ServerTypeOK, NEW c \in Conns, userlistRequest(c)
  PROVE  ServerTypeOK'
<1> USE DEF ServerTypeOK, DatabaseTypeOK
<1>1. UNCHANGED <<messages, autoinc>>
  BY DEF userlistRequest
<1>2. CASE flushRaises(c) /\ UNCHANGED clients
  BY <1>1, <1>2, ExceptClauseType
<1>3. CASE /\ updateLastSeen(rx[c].UUID)
           /\ SendAll(c, UserListResp(getAllUsers(rx[c].UUID)))
  <2>1. clients' \subseteq ClientRows
    BY <1>3, UpdateLastSeenType
  <2>2. UserListResp(getAllUsers(rx[c].UUID)) \in Responses
    BY UserListType, ResponseTypes
  <2>3. LinkTypeOK'
    BY <1>3, <2>2, SendAllType
  <2> QED BY <1>1, <2>1, <2>3
<1> QED BY <1>2, <1>3 DEF userlistRequest

LEMMA PublicKeyRequestType ==
  ASSUME ServerTypeOK, NEW c \in Conns, publicKeyRequest(c)
  PROVE  ServerTypeOK'
<1> USE DEF ServerTypeOK, DatabaseTypeOK
<1>1. UNCHANGED <<messages, autoinc>>
  BY DEF publicKeyRequest
<1>2. UNCHANGED clients \/ updateLastSeen(rx[c].UUID)
  BY DEF publicKeyRequest
<1>3. clients' \subseteq ClientRows
  BY <1>2, UpdateLastSeenType
<1>4. CASE flushRaises(c)
  BY <1>1, <1>3, <1>4, ExceptClauseType
<1>5. CASE /\ idExists(rx[c].target)
           /\ SendAll(c, PublicKeyResp(rx[c].target, getPublicKey(rx[c].target)))
  <2>1. PublicKeyResp(rx[c].target, getPublicKey(rx[c].target)) \in Responses
    BY <1>5, KnownIsUUID, ResponseTypes
  <2>2. LinkTypeOK'
    BY <1>5, <2>1, SendAllType
  <2> QED BY <1>1, <1>3, <2>2
<1> QED BY <1>4, <1>5 DEF publicKeyRequest

LEMMA MessageToUserRequestType ==
  ASSUME ServerTypeOK, NEW c \in Conns, messageToUserRequest(c)
  PROVE  ServerTypeOK'
<1> USE DEF ServerTypeOK, DatabaseTypeOK
<1>1. rx[c] \in Requests /\ rx[c].op = "REQ_MESSAGE_TO_USER"
  BY ReadableRequest DEF messageToUserRequest
<1>2. CASE UNCHANGED dbVars /\ (flushRaises(c) \/ sendGeneralError(c))
  BY <1>2, ExceptClauseType DEF dbVars
<1>3. CASE updateLastSeen(rx[c].UUID) /\ insertRolledBack /\ flushRaises(c)
  BY <1>3, ExceptClauseType, UpdateLastSeenType DEF insertRolledBack
<1>4. CASE /\ idExists(rx[c].UUID)
           /\ updateLastSeen(rx[c].UUID)
           /\ rowIdFits
           /\ sendMessageToTarget(rx[c].target, rx[c].UUID, rx[c].type, rx[c].content)
           /\ SendAll(c, MessageSentResp(rx[c].target, autoinc + 1))
  <2>1. clients' \subseteq ClientRows
    BY <1>4, UpdateLastSeenType
  <2>2. rx[c].UUID \in UUIDs
    BY <1>4, KnownIsUUID
  <2>3. messages' \subseteq MessageRows /\ autoinc' \in 0..MaxRowId
    BY <1>1, <1>4, <2>2, RequestFields, SendMessageType
  <2>4. autoinc + 1 \in 1..MaxRowId
    BY <1>4, ProtocolAssumption DEF rowIdFits
  <2>5. LinkTypeOK'
    BY <1>1, <1>4, <2>4, RequestFields, ResponseTypes, SendAllType
  <2> QED BY <2>1, <2>3, <2>5
<1> QED BY <1>2, <1>3, <1>4 DEF messageToUserRequest, updateLastSeenRaises

LEMMA CollectMsgsRequestType ==
  ASSUME ServerTypeOK, NEW c \in Conns, collectMsgsRequest(c)
  PROVE  ServerTypeOK'
<1> USE DEF ServerTypeOK, DatabaseTypeOK
<1>1. UNCHANGED <<messages, autoinc>>
  BY DEF collectMsgsRequest
<1>2. UNCHANGED clients \/ updateLastSeen(rx[c].UUID)
  BY DEF collectMsgsRequest
<1>3. clients' \subseteq ClientRows
  BY <1>2, UpdateLastSeenType
<1>4. CASE flushRaises(c)
  BY <1>1, <1>3, <1>4, ExceptClauseType
<1>5. CASE /\ getAllMessages(rx[c].UUID) # {}
           /\ SendAll(c, AwaitingResp(byte_msg(getAllMessages(rx[c].UUID))))
  <2>1. AwaitingResp(byte_msg(getAllMessages(rx[c].UUID))) \in Responses
    BY <1>5, ByteMsgType, ResponseTypes
  <2>2. LinkTypeOK'
    BY <1>5, <2>1, SendAllType
  <2> QED BY <1>1, <1>3, <2>2
<1> QED BY <1>4, <1>5 DEF collectMsgsRequest

-----------------------------------------------------------------------------
(* Type correctness of the other steps, and of the specification. *)

LEMMA RestartType ==
  ASSUME ServerTypeOK, Restart
  PROVE  ServerTypeOK'
<1> USE DEF ServerTypeOK, DatabaseTypeOK
<1>1. UNCHANGED <<messages, autoinc>>
  BY DEF Restart, reopen_database
<1>2. clients' \subseteq ClientRows
  BY UpdateLastSeenType DEF Restart
<1>3. LinkTypeOK'
  <2>1. conn' \in [Conns -> {"free", "open", "closed", "eof"}]
    BY DEF Restart, LinkTypeOK
  <2>2. PICK lost \in SUBSET Conns :
          /\ tx' = [c \in Conns |-> IF c \in lost THEN NoResponse ELSE tx[c]]
          /\ rx' = [c \in Conns |-> IF tx'[c] = NoResponse THEN NoRequest ELSE rx[c]]
    BY DEF Restart
  <2> QED BY <2>1, <2>2 DEF LinkTypeOK
<1> QED BY <1>1, <1>2, <1>3

LEMMA ClientEndType ==
  ASSUME ServerTypeOK, NEW c \in Conns, ClientEnd(c)
  PROVE  ServerTypeOK'
<1>1. DatabaseTypeOK'
  BY DEF ServerTypeOK, DatabaseTypeOK, ClientEnd, dbVars
<1>2. LinkTypeOK'
  <2> USE DEF ServerTypeOK, LinkTypeOK
  <2>1. CASE Connect(c) \/ ConnectAndLeave(c)
    BY <2>1 DEF Connect, ConnectAndLeave
  <2>2. CASE \E r \in Requests : SendRequest(c, r)
    BY <2>2 DEF SendRequest
  <2>3. CASE ReadAnswer(c)
    BY <2>3 DEF ReadAnswer
  <2>4. CASE Drop(c)
    BY <2>4 DEF Drop
  <2> QED BY <2>1, <2>2, <2>3, <2>4 DEF ClientEnd
<1> QED BY <1>1, <1>2 DEF ServerTypeOK

LEMMA ServerNextType ==
  ASSUME ServerTypeOK, [ServerNext]_serverVars
  PROVE  ServerTypeOK'
<1>1. CASE UNCHANGED serverVars
  BY <1>1 DEF serverVars, ServerTypeOK, DatabaseTypeOK, LinkTypeOK
<1>2. ASSUME NEW c \in Conns, handle_request(c) PROVE ServerTypeOK'
  BY <1>2, RegisterType, UserListRequestType, PublicKeyRequestType,
     MessageToUserRequestType, CollectMsgsRequestType DEF handle_request
<1>3. ASSUME NEW c \in Conns, Unregister(c), UNCHANGED dbVars PROVE ServerTypeOK'
  BY <1>3 DEF Unregister, dbVars, ServerTypeOK, DatabaseTypeOK, LinkTypeOK
<1>4. ASSUME NEW c \in Conns, ClientEnd(c) PROVE ServerTypeOK'
  BY <1>4, ClientEndType
<1>5. CASE Restart
  BY <1>5, RestartType
<1> QED BY <1>1, <1>2, <1>3, <1>4, <1>5 DEF ServerNext, handle_client

\* The server's tables, its connections and every request and answer on them
\* keep their types: a message is stored and delivered with a row id that fits
\* its 4 bytes, between accounts with UUIDs the server issued.
THEOREM TypeCorrect == ServerSpec => []ServerTypeOK
<1>1. ServerInit => ServerTypeOK
  BY ProtocolAssumption DEF ServerInit, initialize_database, LinkInit, ServerTypeOK,
     DatabaseTypeOK, LinkTypeOK
<1>2. ServerTypeOK /\ [ServerNext]_serverVars => ServerTypeOK'
  BY ServerNextType
<1> QED BY <1>1, <1>2, PTL DEF ServerSpec

-----------------------------------------------------------------------------
(* What a step does to the tables. *)

\* updateLastSeen changes no account, as the others know it.
LEMMA LastSeenKeepsAccounts ==
  ASSUME clients \subseteq ClientRows, NEW id, updateLastSeen(id)
  PROVE  /\ Accounts' = Accounts
         /\ \A x : idExists(x)' <=> idExists(x)
<1> DEFINE seen(row) == [row EXCEPT !.LastSeen = IF row.ID = id THEN "request" ELSE @]
<1>1. clients' = {seen(row) : row \in clients}
  BY DEF updateLastSeen
<1>2. \A row \in clients : /\ seen(row).ID = row.ID
                           /\ seen(row).UserName = row.UserName
                           /\ seen(row).PublicKey = row.PublicKey
  BY DEF ClientRows
<1> HIDE DEF seen
<1>3. Accounts' = Accounts
  BY <1>1, <1>2 DEF Accounts
<1>4. \A x : idExists(x)' <=> idExists(x)
  BY <1>1, <1>2 DEF idExists
<1> QED BY <1>3, <1>4

\* The table clients is left alone, or one user's last request is noted, or a
\* new UUID and a new name are registered.
ClientsStep ==
  \/ UNCHANGED clients
  \/ \E id : updateLastSeen(id)
  \/ \E id \in UUIDs, name \in Names, key \in KeyPairs :
       ~idExists(id) /\ ~usernameExists(name) /\ register_user(id, name, key)

\* The table messages is left alone, or a message of a known sender is added.
MessagesStep ==
  \/ UNCHANGED <<messages, autoinc>>
  \/ \E to \in UUIDs, from \in UUIDs, type \in MessageTypes : \E content \in ContentsOf(type) :
       idExists(from) /\ rowIdFits /\ sendMessageToTarget(to, from, type, content)

\* Every step of the server is one of these on each table.
LEMMA TablesStep ==
  ASSUME ServerTypeOK, ServerNext
  PROVE  ClientsStep /\ MessagesStep
<1> USE DEF ClientsStep, MessagesStep, ServerTypeOK, DatabaseTypeOK
<1>1. ASSUME NEW c \in Conns, registerRequest(c) PROVE ClientsStep /\ MessagesStep
  <2>1. rx[c].username \in Names /\ rx[c].publicKey \in KeyPairs
    BY <1>1, ReadableRequest, RequestFields DEF registerRequest
  <2> QED BY <1>1, <2>1 DEF registerRequest, registerRaises
<1>2. ASSUME NEW c \in Conns, messageToUserRequest(c) PROVE ClientsStep /\ MessagesStep
  <2>1. /\ rx[c].target \in UUIDs
        /\ rx[c].type \in MessageTypes
        /\ rx[c].content \in ContentsOf(rx[c].type)
    BY <1>2, ReadableRequest, RequestFields DEF messageToUserRequest
  <2>2. CASE UNCHANGED dbVars
    BY <2>2 DEF dbVars
  <2>3. CASE updateLastSeen(rx[c].UUID) /\ insertRolledBack
    BY <2>3 DEF insertRolledBack
  <2>4. CASE /\ idExists(rx[c].UUID)
             /\ updateLastSeen(rx[c].UUID)
             /\ rowIdFits
             /\ sendMessageToTarget(rx[c].target, rx[c].UUID, rx[c].type, rx[c].content)
    <3>1. rx[c].UUID \in UUIDs
      BY <2>4, KnownIsUUID
    <3> QED BY <2>1, <2>4, <3>1
  <2> QED BY <1>2, <2>2, <2>3, <2>4 DEF messageToUserRequest, updateLastSeenRaises
<1>3. ASSUME NEW c \in Conns,
             userlistRequest(c) \/ publicKeyRequest(c) \/ collectMsgsRequest(c)
      PROVE  ClientsStep /\ MessagesStep
  BY <1>3 DEF userlistRequest, publicKeyRequest, collectMsgsRequest
<1>4. ASSUME NEW c \in Conns, (Unregister(c) /\ UNCHANGED dbVars) \/ ClientEnd(c)
      PROVE  ClientsStep /\ MessagesStep
  BY <1>4 DEF ClientEnd, dbVars
<1>5. CASE Restart
  BY <1>5 DEF Restart, reopen_database
<1> QED BY <1>1, <1>2, <1>3, <1>4, <1>5 DEF ServerNext, handle_client, handle_request

\* Accounts and messages only grow.
LEMMA TablesGrow ==
  ASSUME ServerTypeOK, [ServerNext]_serverVars
  PROVE  /\ messages \subseteq messages'
         /\ Accounts \subseteq Accounts'
         /\ \A x : idExists(x) => idExists(x)'
<1>1. CASE UNCHANGED serverVars
  BY <1>1 DEF serverVars, Accounts, idExists
<1>2. CASE ServerNext
  <2>1. ClientsStep /\ MessagesStep
    BY <1>2, TablesStep
  <2>2. messages \subseteq messages'
    BY <2>1 DEF MessagesStep, sendMessageToTarget
  <2>3. CASE UNCHANGED clients
    BY <2>2, <2>3 DEF Accounts, idExists
  <2>4. CASE \E id : updateLastSeen(id)
    BY <2>2, <2>4, LastSeenKeepsAccounts DEF ServerTypeOK, DatabaseTypeOK
  <2>5. CASE \E id \in UUIDs, name \in Names, key \in KeyPairs : register_user(id, name, key)
    BY <2>2, <2>5 DEF register_user, Accounts, idExists
  <2> QED BY <2>1, <2>3, <2>4, <2>5 DEF ClientsStep
<1> QED BY <1>1, <1>2

-----------------------------------------------------------------------------
(* The invariants of the tables. *)

LEMMA UniqueAccountsStep ==
  ASSUME ServerTypeOK, UniqueAccounts, [ServerNext]_serverVars
  PROVE  UniqueAccounts'
<1>1. CASE UNCHANGED clients
  BY <1>1 DEF UniqueAccounts
<1>2. ASSUME NEW id, updateLastSeen(id) PROVE UniqueAccounts'
  <2> DEFINE seen(row) == [row EXCEPT !.LastSeen = IF row.ID = id THEN "request" ELSE @]
  <2>1. clients' = {seen(row) : row \in clients}
    BY <1>2 DEF updateLastSeen
  <2>2. \A row \in clients : seen(row).ID = row.ID /\ seen(row).UserName = row.UserName
    BY DEF ServerTypeOK, DatabaseTypeOK, ClientRows
  <2> HIDE DEF seen
  <2> QED BY <2>1, <2>2 DEF UniqueAccounts
<1>3. ASSUME NEW id, NEW name, NEW key,
             ~idExists(id), ~usernameExists(name), register_user(id, name, key)
      PROVE  UniqueAccounts'
  BY <1>3 DEF UniqueAccounts, register_user, idExists, usernameExists
<1> QED BY <1>1, <1>2, <1>3, TablesStep DEF ClientsStep, serverVars

LEMMA DenseMessageIdsStep ==
  ASSUME ServerTypeOK, DenseMessageIds, [ServerNext]_serverVars
  PROVE  DenseMessageIds'
<1>1. CASE UNCHANGED <<messages, autoinc>>
  BY <1>1 DEF DenseMessageIds
<1>2. ASSUME NEW to, NEW from, NEW type, NEW content,
             sendMessageToTarget(to, from, type, content)
      PROVE  DenseMessageIds'
  <2>1. autoinc \in Nat /\ autoinc' = autoinc + 1
    BY <1>2, ProtocolAssumption DEF sendMessageToTarget, ServerTypeOK, DatabaseTypeOK
  <2>2. 1..autoinc' = (1..autoinc) \cup {autoinc + 1}
    BY <2>1
  <2> DEFINE new == [ID |-> autoinc + 1, ToClient |-> to, FromClient |-> from,
                     Type |-> type, Content |-> content]
  <2>3. messages' = messages \cup {new} /\ new.ID = autoinc + 1
    BY <1>2 DEF sendMessageToTarget
  <2>4. {row.ID : row \in messages}' = {row.ID : row \in messages} \cup {autoinc + 1}
    <3> HIDE DEF new
    <3>1. {row.ID : row \in messages}' = {row.ID : row \in messages \cup {new}}
      BY <2>3
    <3> QED BY <2>3, <3>1
  <2>5. \A row \in messages : row.ID # autoinc + 1
    BY <2>1 DEF DenseMessageIds
  <2>6. \A row, other \in messages' : row.ID = other.ID => row = other
    BY <1>2, <2>5 DEF sendMessageToTarget, DenseMessageIds
  <2> QED BY <2>2, <2>4, <2>6 DEF DenseMessageIds
<1> QED BY <1>1, <1>2, TablesStep DEF MessagesStep, serverVars

LEMMA SendersRegisteredStep ==
  ASSUME ServerTypeOK, SendersRegistered, [ServerNext]_serverVars
  PROVE  SendersRegistered'
<1>1. \A x : idExists(x) => idExists(x)'
  BY TablesGrow
<1>2. \A row \in messages' : row \in messages \/ idExists(row.FromClient)
  BY TablesStep DEF MessagesStep, serverVars, sendMessageToTarget
<1> QED BY <1>1, <1>2 DEF SendersRegistered

\* No two accounts ever share a UUID or a name, whatever order registrations
\* arrive in and whatever uuid4 returns.
THEOREM AccountsAreUnique == ServerSpec => []UniqueAccounts
<1>1. ServerInit => UniqueAccounts
  BY DEF ServerInit, initialize_database, UniqueAccounts
<1>2. UniqueAccounts /\ ServerTypeOK /\ [ServerNext]_serverVars => UniqueAccounts'
  BY UniqueAccountsStep
<1> QED BY <1>1, <1>2, TypeCorrect, PTL DEF ServerSpec

\* Row ids are 1, 2, 3, ... without a gap or a repetition, also after an INSERT
\* was rolled back.
THEOREM MessageIdsAreDense == ServerSpec => []DenseMessageIds
<1>1. ServerInit => DenseMessageIds
  BY DEF ServerInit, initialize_database, DenseMessageIds
<1>2. DenseMessageIds /\ ServerTypeOK /\ [ServerNext]_serverVars => DenseMessageIds'
  BY DenseMessageIdsStep
<1> QED BY <1>1, <1>2, TypeCorrect, PTL DEF ServerSpec

\* Every stored message is of a registered sender.
THEOREM SendersAreRegistered == ServerSpec => []SendersRegistered
<1>1. ServerInit => SendersRegistered
  BY DEF ServerInit, initialize_database, SendersRegistered
<1>2. SendersRegistered /\ ServerTypeOK /\ [ServerNext]_serverVars => SendersRegistered'
  BY SendersRegisteredStep
<1> QED BY <1>1, <1>2, TypeCorrect, PTL DEF ServerSpec

\* No handler, restart or lost answer loses or alters an account, or a message
\* before it is sent to its recipient.  (TablesGrow has the reason, which is more
\* than callers are promised: no handler deletes at all.)
THEOREM MessagesAreKept == ServerSpec => KeptUntilDelivered
<1>1. ServerTypeOK /\ [ServerNext]_serverVars
        => [/\ \A row \in messages : row \in messages' \/ Delivered(row)'
            /\ Accounts \subseteq Accounts']_serverVars
  BY TablesGrow
<1> QED BY <1>1, TypeCorrect, PTL DEF ServerSpec, KeptUntilDelivered

-----------------------------------------------------------------------------
(* The answers. *)

\* What was truthful stays so while accounts and messages only grow.
LEMMA TruthfulStays ==
  ASSUME NEW request, NEW answer, Truthful(request, answer),
         messages \subseteq messages', Accounts \subseteq Accounts'
  PROVE  Truthful(request, answer)'
<1>1. \A id, name, key :
        (\E row \in clients : row.ID = id /\ row.UserName = name /\ row.PublicKey = key)
        => \E row \in clients' : row.ID = id /\ row.UserName = name /\ row.PublicKey = key
  <2> SUFFICES ASSUME NEW row \in clients
               PROVE  \E other \in clients' : /\ other.ID = row.ID
                                              /\ other.UserName = row.UserName
                                              /\ other.PublicKey = row.PublicKey
    OBVIOUS
  <2> DEFINE account(r) == [ID |-> r.ID, UserName |-> r.UserName, PublicKey |-> r.PublicKey]
  <2>1. account(row) \in Accounts'
    BY DEF Accounts
  <2>2. PICK other \in clients' : account(row) = account(other)
    BY <2>1 DEF Accounts
  <2> QED BY <2>2
<1> QED BY <1>1 DEF Truthful

\* A step that gives connection d no new answer.
NothingNew(d) == tx'[d] = NoResponse \/ (tx'[d] = tx[d] /\ rx'[d] = rx[d])

\* sendall puts the answer beside the request it is for, and nothing elsewhere.
LEMMA SendAllAnswers ==
  ASSUME LinkTypeOK, NEW c \in Conns, NEW response, Readable(c), SendAll(c, response)
  PROVE  \A d \in Conns : \/ NothingNew(d)
                          \/ d = c /\ tx'[d] = response /\ rx'[d] = rx[c]
BY DEF LinkTypeOK, Readable, SendAll, NothingNew

\* The flush that raises sends nothing to a client that could read it.
LEMMA FlushAnswersNobody ==
  ASSUME LinkTypeOK, NEW c \in Conns, Readable(c), flushRaises(c)
  PROVE  \A d \in Conns : NothingNew(d)
<1>1. CASE conn[c] = "open"
  BY <1>1 DEF flushRaises, DisconnectClient, LinkTypeOK, Readable, NothingNew
<1>2. CASE conn[c] # "open"
  BY <1>2 DEF flushRaises, SendAll, LinkTypeOK, Readable, NothingNew
<1> QED BY <1>1, <1>2

\* An invariant over the answers is kept by a step that lets the tables grow
\* and gives at most one connection a new answer, a truthful one.
LEMMA AnswersStayTruthful ==
  ASSUME AnswersTruthful, messages \subseteq messages', Accounts \subseteq Accounts',
         \A d \in Conns : NothingNew(d) \/ Truthful(rx[d], tx[d])'
  PROVE  AnswersTruthful'
<1> SUFFICES ASSUME NEW d \in Conns, tx'[d] # NoResponse
             PROVE  Truthful(rx[d], tx[d])'
  BY DEF AnswersTruthful
<1>1. CASE tx'[d] = tx[d] /\ rx'[d] = rx[d]
  <2>1. Truthful(rx[d], tx[d])
    BY <1>1 DEF AnswersTruthful
  <2>2. PICK request, answer : request = rx[d] /\ answer = tx[d]
    OBVIOUS
  <2>3. Truthful(request, answer)
    BY <2>1, <2>2
  <2>4. Truthful(request, answer)'
    BY <2>3, TruthfulStays
  <2> QED BY <1>1, <2>2, <2>4 DEF Truthful
<1> QED BY <1>1 DEF NothingNew

\* What the handlers that only read answer is true of the tables they read.
LEMMA ReadingAnswers ==
  ASSUME ServerTypeOK, NEW c \in Conns, NEW response,
         \/ /\ userlistRequest(c)
            /\ idExists(rx[c].UUID)
            /\ response = UserListResp(getAllUsers(rx[c].UUID))
         \/ /\ publicKeyRequest(c)
            /\ idExists(rx[c].target)
            /\ response = PublicKeyResp(rx[c].target, getPublicKey(rx[c].target))
         \/ /\ collectMsgsRequest(c)
            /\ getAllMessages(rx[c].UUID) # {}
            /\ response = AwaitingResp(byte_msg(getAllMessages(rx[c].UUID)))
  PROVE  Truthful(rx[c], response)
<1> USE DEF ServerTypeOK, DatabaseTypeOK
<1>1. CASE /\ userlistRequest(c)
           /\ response = UserListResp(getAllUsers(rx[c].UUID))
  BY <1>1 DEF userlistRequest, UserListResp, getAllUsers, Truthful
<1>2. CASE /\ publicKeyRequest(c)
           /\ idExists(rx[c].target)
           /\ response = PublicKeyResp(rx[c].target, getPublicKey(rx[c].target))
  BY <1>2, KnownIsUUID DEF publicKeyRequest, PublicKeyResp, getPublicKey, Truthful
<1>3. CASE /\ collectMsgsRequest(c)
           /\ getAllMessages(rx[c].UUID) # {}
           /\ response = AwaitingResp(byte_msg(getAllMessages(rx[c].UUID)))
  <2> DEFINE row == lastRow(getAllMessages(rx[c].UUID))
  <2>1. row \in messages /\ row.ToClient = rx[c].UUID
    BY <1>3, ByteMsgType DEF getAllMessages
  <2>2. /\ response.op = "RESP_AWAITING_MESSAGES"
        /\ response.message.ID = row.ID
        /\ response.message.FromClient = row.FromClient
        /\ response.message.Type = row.Type
        /\ response.message.Content = row.Content
    BY <1>3 DEF AwaitingResp, byte_msg
  <2>3. rx[c].op = "REQ_AWAITING_MESSAGES"
    BY <1>3 DEF collectMsgsRequest
  <2> HIDE DEF row
  <2> QED BY <2>1, <2>2, <2>3 DEF Truthful
<1> QED BY <1>1, <1>2, <1>3

\* What registerRequest and messageToUserRequest answer is true of the tables
\* they have just updated.
LEMMA RegisterAnswers ==
  ASSUME NEW c \in Conns, NEW id \in UUIDs, rx[c].op = "REQ_REGISTER",
         register_user(id, rx[c].username, rx[c].publicKey),
         NEW d \in Conns, tx'[d] = RegisterResp(id), rx'[d] = rx[c]
  PROVE  Truthful(rx[d], tx[d])'
<1> DEFINE new == [ID |-> id, UserName |-> rx[c].username, PublicKey |-> rx[c].publicKey,
                   LastSeen |-> "register"]
<1>1. new \in clients'
  BY DEF register_user
<1>2. /\ new.ID = id
      /\ new.UserName = rx[c].username
      /\ new.PublicKey = rx[c].publicKey
  OBVIOUS
<1>3. tx'[d].op = "RESP_REGISTER_SUCCESSFULL" /\ tx'[d].UUID = id
  BY DEF RegisterResp
<1> HIDE DEF new
<1> QED BY <1>1, <1>2, <1>3 DEF Truthful

LEMMA MessageSentAnswers ==
  ASSUME NEW c \in Conns, rx[c].op = "REQ_MESSAGE_TO_USER",
         sendMessageToTarget(rx[c].target, rx[c].UUID, rx[c].type, rx[c].content),
         NEW d \in Conns, tx'[d] = MessageSentResp(rx[c].target, autoinc + 1),
         rx'[d] = rx[c]
  PROVE  Truthful(rx[d], tx[d])'
<1> DEFINE new == [ID |-> autoinc + 1, ToClient |-> rx[c].target, FromClient |-> rx[c].UUID,
                   Type |-> rx[c].type, Content |-> rx[c].content]
<1>1. new \in messages'
  BY DEF sendMessageToTarget
<1>2. /\ new.ID = autoinc + 1
      /\ new.ToClient = rx[c].target
      /\ new.FromClient = rx[c].UUID
      /\ new.Type = rx[c].type
      /\ new.Content = rx[c].content
  OBVIOUS
<1>3. /\ tx'[d].op = "RESP_MSG_SENT_TO_USER"
      /\ tx'[d].UUID = rx[c].target
      /\ tx'[d].messageID = autoinc + 1
  BY DEF MessageSentResp
<1> HIDE DEF new
<1> QED BY <1>1, <1>2, <1>3 DEF Truthful

\* The general error goes to those who register or send a message.
LEMMA GeneralErrorAnswers ==
  ASSUME NEW d \in Conns, tx'[d] = GeneralError,
         rx'[d].op \in {"REQ_REGISTER", "REQ_MESSAGE_TO_USER"}
  PROVE  Truthful(rx[d], tx[d])'
BY DEF GeneralError, Truthful

\* A handler gives one connection a truthful answer, or none.
LEMMA HandlerAnswers ==
  ASSUME ServerTypeOK, AnswersTruthful, NEW c \in Conns, handle_request(c),
         messages \subseteq messages', Accounts \subseteq Accounts'
  PROVE  AnswersTruthful'
<1> USE DEF ServerTypeOK
<1>1. Readable(c)
  BY DEF handle_request, registerRequest, userlistRequest, publicKeyRequest,
     messageToUserRequest, collectMsgsRequest
<1>2. CASE flushRaises(c)
  BY <1>1, <1>2, FlushAnswersNobody, AnswersStayTruthful
<1>3. CASE registerRequest(c) \/ messageToUserRequest(c)
  <2>1. rx[c].op \in {"REQ_REGISTER", "REQ_MESSAGE_TO_USER"}
    BY <1>3 DEF registerRequest, messageToUserRequest
  <2>2. CASE sendGeneralError(c)
    BY <1>1, <2>1, <2>2, SendAllAnswers, GeneralErrorAnswers, AnswersStayTruthful
       DEF sendGeneralError
  <2>3. CASE /\ registerRequest(c)
             /\ \E id \in UUIDs : /\ register_user(id, rx[c].username, rx[c].publicKey)
                                  /\ SendAll(c, RegisterResp(id))
    <3>1. PICK id \in UUIDs : /\ register_user(id, rx[c].username, rx[c].publicKey)
                              /\ SendAll(c, RegisterResp(id))
      BY <2>3
    <3>2. rx[c].op = "REQ_REGISTER"
      BY <2>3 DEF registerRequest
    <3>3. \A d \in Conns : NothingNew(d) \/ (tx'[d] = RegisterResp(id) /\ rx'[d] = rx[c])
      BY <1>1, <3>1, SendAllAnswers
    <3>4. \A d \in Conns : NothingNew(d) \/ Truthful(rx[d], tx[d])'
      BY <3>1, <3>2, <3>3, RegisterAnswers
    <3> QED BY <3>4, AnswersStayTruthful
  <2>4. CASE /\ messageToUserRequest(c)
             /\ sendMessageToTarget(rx[c].target, rx[c].UUID, rx[c].type, rx[c].content)
             /\ SendAll(c, MessageSentResp(rx[c].target, autoinc + 1))
    <3>1. rx[c].op = "REQ_MESSAGE_TO_USER"
      BY <2>4 DEF messageToUserRequest
    <3>2. \A d \in Conns : \/ NothingNew(d)
                           \/ /\ tx'[d] = MessageSentResp(rx[c].target, autoinc + 1)
                              /\ rx'[d] = rx[c]
      BY <1>1, <2>4, SendAllAnswers
    <3>3. \A d \in Conns : NothingNew(d) \/ Truthful(rx[d], tx[d])'
      BY <2>4, <3>1, <3>2, MessageSentAnswers
    <3> QED BY <3>3, AnswersStayTruthful
  <2> QED BY <1>2, <1>3, <2>2, <2>3, <2>4
          DEF registerRequest, registerRaises, messageToUserRequest
<1>4. ASSUME NEW response, SendAll(c, response), Truthful(rx[c], response)
      PROVE  AnswersTruthful'
  <2>1. \A d \in Conns : NothingNew(d) \/ (tx'[d] = response /\ rx'[d] = rx[c])
    BY <1>1, <1>4, SendAllAnswers
  <2>2. PICK request, answer : request = rx[c] /\ answer = response
    OBVIOUS
  <2>3. Truthful(request, answer)'
    BY <1>4, <2>2, TruthfulStays
  <2>4. \A d \in Conns : NothingNew(d) \/ Truthful(rx[d], tx[d])'
    BY <2>1, <2>2, <2>3 DEF Truthful
  <2> QED BY <2>4, AnswersStayTruthful
<1>5. CASE userlistRequest(c)
  BY <1>2, <1>4, <1>5, ReadingAnswers DEF userlistRequest, updateLastSeenRaises
<1>6. CASE publicKeyRequest(c)
  BY <1>2, <1>4, <1>6, ReadingAnswers DEF publicKeyRequest
<1>7. CASE collectMsgsRequest(c)
  BY <1>2, <1>4, <1>7, ReadingAnswers DEF collectMsgsRequest
<1> QED BY <1>3, <1>5, <1>6, <1>7 DEF handle_request

LEMMA AnswersTruthfulStep ==
  ASSUME ServerTypeOK, AnswersTruthful, [ServerNext]_serverVars
  PROVE  AnswersTruthful'
<1>1. messages \subseteq messages' /\ Accounts \subseteq Accounts'
  BY TablesGrow
<1>2. ASSUME NEW c \in Conns, handle_request(c) PROVE AnswersTruthful'
  BY <1>1, <1>2, HandlerAnswers
<1>3. ASSUME \A d \in Conns : NothingNew(d) PROVE AnswersTruthful'
  BY <1>1, <1>3, AnswersStayTruthful
<1>4. CASE UNCHANGED serverVars
  BY <1>3, <1>4 DEF serverVars, NothingNew
<1>5. ASSUME NEW c \in Conns, Unregister(c) PROVE AnswersTruthful'
  BY <1>3, <1>5 DEF Unregister, NothingNew
<1>6. CASE Restart
  <2>1. PICK lost \in SUBSET Conns :
          /\ tx' = [c \in Conns |-> IF c \in lost THEN NoResponse ELSE tx[c]]
          /\ rx' = [c \in Conns |-> IF tx'[c] = NoResponse THEN NoRequest ELSE rx[c]]
    BY <1>6 DEF Restart
  <2>2. \A d \in Conns : NothingNew(d)
    BY <2>1 DEF NothingNew
  <2> QED BY <1>3, <2>2
<1>7. ASSUME NEW c \in Conns, ClientEnd(c) PROVE AnswersTruthful'
  <2> USE DEF ServerTypeOK, LinkTypeOK
  <2>1. CASE Connect(c) \/ ConnectAndLeave(c)
    BY <1>3, <2>1 DEF Connect, ConnectAndLeave, NothingNew
  <2>2. CASE \E r \in Requests : SendRequest(c, r)
    \* No answer waits on c: it would answer no request.
    <3>1. tx[c] = NoResponse
      <4>1. ~Truthful(NoRequest, tx[c])
        BY DEF Truthful, NoRequest
      <4>2. rx[c] = NoRequest
        BY <2>2 DEF SendRequest
      <4> QED BY <4>1, <4>2 DEF AnswersTruthful
    <3> QED BY <1>3, <2>2, <3>1 DEF SendRequest, NothingNew
  <2>3. CASE ReadAnswer(c)
    BY <1>3, <2>3 DEF ReadAnswer, NothingNew
  <2>4. CASE Drop(c)
    BY <1>3, <2>4 DEF Drop, NothingNew
  <2> QED BY <1>7, <2>1, <2>2, <2>3, <2>4 DEF ClientEnd
<1> QED BY <1>2, <1>4, <1>5, <1>6, <1>7 DEF ServerNext, handle_client

\* An answer is true when the client reads it: what it says of accounts and
\* messages was so when it was computed, and still is, whatever other clients
\* and restarts of the server did in between.
THEOREM AnswersAreTruthful == ServerSpec => []AnswersTruthful
<1>1. ServerInit => AnswersTruthful
  BY DEF ServerInit, LinkInit, AnswersTruthful
<1>2. AnswersTruthful /\ ServerTypeOK /\ [ServerNext]_serverVars => AnswersTruthful'
  BY AnswersTruthfulStep
<1> QED BY <1>1, <1>2, TypeCorrect, PTL DEF ServerSpec

-----------------------------------------------------------------------------
(* Refusals. *)

\* Connection d is refused in this step.
Refused(d) ==
  \/ tx'[d] # tx[d] /\ tx'[d] = GeneralError
  \/ conn[d] = "open" /\ conn'[d] = "closed"

\* sendall of anything but the general error refuses nobody.
LEMMA SendAllRefusesNobody ==
  ASSUME LinkTypeOK, NEW c \in Conns, NEW response, SendAll(c, response),
         response # GeneralError
  PROVE  \A d \in Conns : ~Refused(d)
BY DEF LinkTypeOK, SendAll, Refused

LEMMA RefusalStep ==
  ASSUME ServerTypeOK, ServerNext, NEW d \in Conns, Refused(d)
  PROVE  messages' = messages /\ Accounts' = Accounts
<1> USE DEF ServerTypeOK, DatabaseTypeOK
<1>1. ASSUME UNCHANGED messages, UNCHANGED clients \/ \E id : updateLastSeen(id)
      PROVE  messages' = messages /\ Accounts' = Accounts
  BY <1>1, LastSeenKeepsAccounts DEF Accounts
<1>2. ASSUME NEW c \in Conns, registerRequest(c)
      PROVE  messages' = messages /\ Accounts' = Accounts
  <2>1. ASSUME NEW id \in UUIDs, SendAll(c, RegisterResp(id)) PROVE FALSE
    <3>1. RegisterResp(id) # GeneralError
      BY DEF RegisterResp, GeneralError
    <3> QED BY <2>1, <3>1, SendAllRefusesNobody
  <2>2. UNCHANGED <<clients, messages>>
    BY <1>2, <2>1 DEF registerRequest, registerRaises
  <2> QED BY <1>1, <2>2
<1>3. ASSUME NEW c \in Conns, messageToUserRequest(c)
      PROVE  messages' = messages /\ Accounts' = Accounts
  <2>1. ~SendAll(c, MessageSentResp(rx[c].target, autoinc + 1))
    <3>1. MessageSentResp(rx[c].target, autoinc + 1) # GeneralError
      BY DEF MessageSentResp, GeneralError
    <3> QED BY <3>1, SendAllRefusesNobody
  <2>2. CASE UNCHANGED dbVars
    BY <1>1, <2>2 DEF dbVars
  <2>3. CASE updateLastSeen(rx[c].UUID) /\ insertRolledBack
    BY <1>1, <2>3 DEF insertRolledBack
  <2> QED BY <1>3, <2>1, <2>2, <2>3 DEF messageToUserRequest
<1>4. ASSUME NEW c \in Conns,
             userlistRequest(c) \/ publicKeyRequest(c) \/ collectMsgsRequest(c)
      PROVE  messages' = messages /\ Accounts' = Accounts
  BY <1>1, <1>4 DEF userlistRequest, publicKeyRequest, collectMsgsRequest
<1>5. ASSUME NEW c \in Conns, (Unregister(c) /\ UNCHANGED dbVars) \/ ClientEnd(c)
      PROVE  messages' = messages /\ Accounts' = Accounts
  BY <1>1, <1>5 DEF ClientEnd, dbVars
<1>6. CASE Restart
  BY <1>1, <1>6 DEF Restart, reopen_database
<1> QED BY <1>2, <1>3, <1>4, <1>5, <1>6 DEF ServerNext, handle_client, handle_request

\* A request that is refused leaves neither an account nor a message behind.
THEOREM RefusalsHaveNoTrace == ServerSpec => RefusalsLeaveNoTrace
<1>1. ServerTypeOK /\ [ServerNext]_serverVars
        => [\A c \in Conns :
              (tx'[c] # tx[c] /\ tx'[c] = GeneralError) \/ (conn[c] = "open" /\ conn'[c] = "closed")
                => messages' = messages /\ Accounts' = Accounts]_serverVars
  BY RefusalStep DEF Refused
<1> QED BY <1>1, TypeCorrect, PTL DEF ServerSpec, RefusalsLeaveNoTrace

=============================================================================
