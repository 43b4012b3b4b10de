------------------------------- MODULE Server -------------------------------
(***************************************************************************)
(* The server: server.py's selector loop and request.py's handlers.  One   *)
(* thread runs callback after callback, so a handler is one step: it reads *)
(* a request, updates the database and answers or drops the connection.    *)
(*                                                                         *)
(* A handler that raises lands in handle_request's except clause, which    *)
(* first reads the socket once more "to flush it".  The socket does not    *)
(* block: when nothing is left to read that recv raises in turn, the       *)
(* general error is not sent, and handle_client closes the connection.     *)
(***************************************************************************)
EXTENDS Database, Connections

serverVars == <<clients, messages, autoinc, conn, rx, tx>>

ServerTypeOK == DatabaseTypeOK /\ LinkTypeOK

ServerInit == initialize_database /\ LinkInit

-----------------------------------------------------------------------------
(* The except clause of handle_request. *)

\* Bytes of the request were still unread: the flush succeeds.  So it does
\* on a connection at end of file, where recv returns no bytes.
sendGeneralError(c) == SendAll(c, GeneralError)

\* Mutant: the exception of the flush is swallowed.
flushSwallowed(c) == UNCHANGED linkVars

\* The request was read to its end: the flush raises BlockingIOError.
flushRaises(c) ==
  IF conn[c] = "open" THEN DisconnectClient(c) ELSE SendAll(c, GeneralError)

-----------------------------------------------------------------------------
(* The handlers. *)

\* Mutant: inserts first and checks afterwards.
registerThenRaise(c, rndUUID) ==
  /\ idExists(rndUUID) \/ usernameExists(rx[c].username)
  /\ register_user(rndUUID, rx[c].username, rx[c].publicKey)
  /\ sendGeneralError(c)

\* A uuid4 that is taken leads to a call of an undefined userCheck; like a
\* taken name it raises while the public key is still unread.
registerRaises(c, rndUUID) ==
  /\ idExists(rndUUID) \/ usernameExists(rx[c].username)
  /\ UNCHANGED clients
  /\ sendGeneralError(c)

\* 600.
registerRequest(c) ==
  LET r == rx[c] IN
  /\ Readable(c)
  /\ r.op = "REQ_REGISTER"
  /\ \E rndUUID \in UUIDs :
       \/ registerRaises(c, rndUUID)
       \/ /\ ~idExists(rndUUID)
          /\ ~usernameExists(r.username)
          /\ register_user(rndUUID, r.username, r.publicKey)
          /\ SendAll(c, RegisterResp(rndUUID))
  /\ UNCHANGED <<messages, autoinc>>

\* 601.  userCheck returns a pair, never None, so only updateLastSeen
\* rejects an unknown sender, here and in the handlers below.
userlistRequest(c) ==
  LET r == rx[c] IN
  /\ Readable(c)
  /\ r.op = "REQ_USER_LIST"
  /\ \/ /\ updateLastSeenRaises(r.UUID)
        /\ flushRaises(c)
        /\ UNCHANGED clients
     \/ /\ ~updateLastSeenRaises(r.UUID)
        /\ updateLastSeen(r.UUID)
        /\ SendAll(c, UserListResp(getAllUsers(r.UUID)))
  /\ UNCHANGED <<messages, autoinc>>

\* 602.  An unknown target raises on len(None), after updateLastSeen.
publicKeyRequest(c) ==
  LET r == rx[c] IN
  /\ Readable(c)
  /\ r.op = "REQ_PUBLIC_KEY"
  /\ \/ /\ updateLastSeenRaises(r.UUID)
        /\ flushRaises(c)
        /\ UNCHANGED clients
     \/ /\ ~updateLastSeenRaises(r.UUID)
        /\ updateLastSeen(r.UUID)
        /\ \/ /\ ~idExists(r.target)
              /\ flushRaises(c)
           \/ /\ idExists(r.target)
              /\ SendAll(c, PublicKeyResp(r.target, getPublicKey(r.target)))
  /\ UNCHANGED <<messages, autoinc>>

\* 603.  The sender is checked before the content is read, the target never.
messageToUserRequest(c) ==
  LET r == rx[c] IN
  /\ Readable(c)
  /\ r.op = "REQ_MESSAGE_TO_USER"
  /\ \/ /\ updateLastSeenRaises(r.UUID)
        /\ IF r.type = "REQ_SYMMETRIC_KEY" THEN flushRaises(c) ELSE sendGeneralError(c)
        /\ UNCHANGED dbVars
     \/ /\ ~updateLastSeenRaises(r.UUID)
        /\ updateLastSeen(r.UUID)
        /\ \/ /\ insertRolledBack
              /\ flushRaises(c)
           \/ /\ rowIdFits
              /\ sendMessageToTarget(r.target, r.UUID, r.type, r.content)
              /\ SendAll(c, MessageSentResp(r.target, autoinc + 1))

\* Mutant: the oldest row.
firstRow(rows) == CHOOSE row \in rows : \A other \in rows : other.ID >= row.ID

\* The row a SELECT without ORDER BY, scanned in row id order, ends with.
lastRow(rows) == CHOOSE row \in rows : \A other \in rows : other.ID <= row.ID

\* What the loop over the rows leaves in byte_msg: it assigns byte_msg anew
\* for every row, so the last row is all that is sent.
byte_msg(rows) ==
  LET row == lastRow(rows)
  IN [ID |-> row.ID, FromClient |-> row.FromClient, Type |-> row.Type, Content |-> row.Content]

\* Mutant: deletes the rows it fetched, of which only the last one is sent.
collectAndDelete(c) ==
  LET rows == getAllMessages(rx[c].UUID) IN
  /\ Readable(c)
  /\ rx[c].op = "REQ_AWAITING_MESSAGES"
  /\ ~updateLastSeenRaises(rx[c].UUID)
  /\ updateLastSeen(rx[c].UUID)
  /\ rows # {}
  /\ SendAll(c, AwaitingResp(byte_msg(rows)))
  /\ messages' = messages \ rows
  /\ UNCHANGED autoinc

\* 604.  Without rows build_message returns None and sendall raises.
collectMsgsRequest(c) ==
  LET r == rx[c] IN
  /\ Readable(c)
  /\ r.op = "REQ_AWAITING_MESSAGES"
  /\ \/ /\ updateLastSeenRaises(r.UUID)
        /\ flushRaises(c)
        /\ UNCHANGED clients
     \/ /\ ~updateLastSeenRaises(r.UUID)
        /\ updateLastSeen(r.UUID)
        /\ IF getAllMessages(r.UUID) = {}
           THEN flushRaises(c)
           ELSE SendAll(c, AwaitingResp(byte_msg(getAllMessages(r.UUID))))
  /\ UNCHANGED <<messages, autoinc>>

handle_request(c) ==
  \/ registerRequest(c)
  \/ userlistRequest(c)
  \/ publicKeyRequest(c)
  \/ messageToUserRequest(c)
  \/ collectMsgsRequest(c)

\* The selector loop calls handle_client on a readable connection.
handle_client(c) ==
  \/ handle_request(c)
  \/ Unregister(c) /\ UNCHANGED dbVars

\* The server process stops, at any point of a handler, and is started
\* again on the same database.  Requests it had not read are lost, and so
\* may be an answer whose updates were already committed; the handler it
\* was in may have committed updateLastSeen and nothing else.
Restart ==
  /\ conn' = [c \in Conns |-> CASE conn[c] = "open" -> "closed"
                                [] conn[c] = "eof"  -> "free"
                                [] OTHER            -> conn[c]]
  /\ \E lost \in SUBSET Conns :
       /\ tx' = [c \in Conns |-> IF c \in lost THEN NoResponse ELSE tx[c]]
       /\ rx' = [c \in Conns |-> IF tx'[c] = NoResponse THEN NoRequest ELSE rx[c]]
  /\ \/ UNCHANGED clients
     \/ \E c \in Conns :
          /\ Readable(c)
          /\ rx[c].op # "REQ_REGISTER"
          /\ ~updateLastSeenRaises(rx[c].UUID)
          /\ updateLastSeen(rx[c].UUID)
  /\ reopen_database

-----------------------------------------------------------------------------
(* Any client: it connects, sends any request, reads the answer, leaves. *)
ClientEnd(c) ==
  /\ \/ Connect(c)
     \/ ConnectAndLeave(c)
     \/ \E r \in Requests : SendRequest(c, r)
     \/ ReadAnswer(c)
     \/ Drop(c)
  /\ UNCHANGED dbVars

ServerNext ==
  \/ \E c \in Conns : handle_client(c) \/ ClientEnd(c)
  \/ Restart

ServerSpec == ServerInit /\ [][ServerNext]_serverVars

-----------------------------------------------------------------------------
(* Safety. *)

\* No two accounts share a UUID or a name, which registerRequest alone sees to:
\* the table has no constraint on UserName.
UniqueAccounts ==
  \A row, other \in clients :
    row.ID = other.ID \/ row.UserName = other.UserName => row = other

\* Row ids are given out once and without a gap: an INSERT that is rolled back
\* because its id does not fit leaves neither a row nor a hole.
DenseMessageIds ==
  /\ {row.ID : row \in messages} = 1..autoinc
  /\ \A row, other \in messages : row.ID = other.ID => row = other

\* Whatever the header says, a message is stored only for a sender that is
\* registered.
SendersRegistered == \A row \in messages : idExists(row.FromClient)

\* What answer a request may get, given the tables.
Truthful(request, answer) ==
  CASE answer.op = "RESP_REGISTER_SUCCESSFULL" ->
         /\ request.op = "REQ_REGISTER"
         /\ \E row \in clients : /\ row.ID = answer.UUID
                                 /\ row.UserName = request.username
                                 /\ row.PublicKey = request.publicKey
    [] answer.op = "RESP_USER_LIST" ->
         /\ request.op = "REQ_USER_LIST"
         /\ \A user \in answer.users :
              /\ user.ID # request.UUID
              /\ \E row \in clients : row.ID = user.ID /\ row.UserName = user.UserName
    [] answer.op = "RESP_PUBLIC_KEY" ->
         /\ request.op = "REQ_PUBLIC_KEY"
         /\ answer.UUID = request.target
         /\ \E row \in clients : row.ID = answer.UUID /\ row.PublicKey = answer.publicKey
    [] answer.op = "RESP_MSG_SENT_TO_USER" ->
         /\ request.op = "REQ_MESSAGE_TO_USER"
         /\ answer.UUID = request.target
         /\ \E row \in messages : /\ row.ID = answer.messageID
                                  /\ row.ToClient = request.target
                                  /\ row.FromClient = request.UUID
                                  /\ row.Type = request.type
                                  /\ row.Content = request.content
    [] answer.op = "RESP_AWAITING_MESSAGES" ->
         /\ request.op = "REQ_AWAITING_MESSAGES"
         /\ \E row \in messages : /\ row.ToClient = request.UUID
                                  /\ row.ID = answer.message.ID
                                  /\ row.FromClient = answer.message.FromClient
                                  /\ row.Type = answer.message.Type
                                  /\ row.Content = answer.message.Content
    [] OTHER -> request.op \in {"REQ_REGISTER", "REQ_MESSAGE_TO_USER"}

\* An answer answers the request it was computed for and says what the
\* database holds, still at the moment the client reads it: whatever other
\* clients registered or sent in between, and across a restart.
AnswersTruthful ==
  \A c \in Conns : tx[c] # NoResponse => Truthful(rx[c], tx[c])

Accounts ==
  {[ID |-> row.ID, UserName |-> row.UserName, PublicKey |-> row.PublicKey] : row \in clients}

\* An answer is on its way that brings row to the one it is addressed to.
Delivered(row) ==
  \E c \in Conns : /\ tx[c].op = "RESP_AWAITING_MESSAGES"
                    /\ tx[c].message.ID = row.ID
                    /\ rx[c].UUID = row.ToClient

\* Accounts stay as they were registered, and a message stays as it was stored
\* at least until it is delivered: no handler, restart or lost answer loses one
\* that its recipient has not been sent.
KeptUntilDelivered ==
  [][/\ \A row \in messages : row \in messages' \/ Delivered(row)'
     /\ Accounts \subseteq Accounts']_serverVars

\* A request that is refused, with the general error or by closing the
\* connection, has registered nobody and stored nothing: all of a handler's
\* checks precede its writes, or its writes are rolled back.
RefusalsLeaveNoTrace ==
  [][\A c \in Conns :
       (tx'[c] # tx[c] /\ tx'[c] = GeneralError) \/ (conn[c] = "open" /\ conn'[c] = "closed")
         => messages' = messages /\ Accounts' = Accounts]_serverVars

-----------------------------------------------------------------------------
(* Liveness. *)

\* No request is left lying: each is answered, refused by closing, or its
\* connection is gone.
RequestsServed == \A c \in Conns : Readable(c) ~> ~Readable(c)

\* The server ends up forgetting the socket of a client that left, also when
\* a request of that client was still to be handled.
DeadSocketsReleased == \A c \in Conns : conn[c] = "eof" ~> conn[c] = "free"

-----------------------------------------------------------------------------
(* What the repository's comments say, and the code does not do. *)

\* request.py:209 and database.py:19: a message is stored only for a target
\* that exists.  The check compares a pair with None and never fires, and
\* SQLite does not enforce the foreign keys.
RecipientsRegistered == \A row \in messages : idExists(row.ToClient)

\* request.py:86: every error of every request is answered with the general
\* error.  The flush before it raises when nothing is left to flush.
ErrorsAnswered ==
  [][\A c \in Conns : conn[c] = "open" /\ handle_request(c) => tx'[c] # NoResponse]_serverVars

\* README, server action 4 and response 2104: all queued messages are delivered,
\* and deleted after retrieval.  Then no message can be left waiting behind a
\* newer one that was retrieved and is stored still: it would never come up.
NoneLeftBehind ==
  [][\A c \in Conns :
       ReadAnswer(c) /\ tx[c].op = "RESP_AWAITING_MESSAGES"
         => ~\E older, retrieved \in messages' :
               /\ retrieved.ID = tx[c].message.ID
               /\ older.ID < retrieved.ID
               /\ older.ToClient = rx[c].UUID]_serverVars

=============================================================================
