--------------------------- MODULE MailboxProofs ---------------------------
(***************************************************************************)
(* The server implements the Mailbox, for every set of connections, users, *)
(* keys and messages and for every bound on row ids.                       *)
(***************************************************************************)
EXTENDS ServerMailbox, ServerProofs, SequenceTheorems

\* What the mapping from tables to accounts and log relies on.
MappingInv == ServerTypeOK /\ UniqueAccounts /\ DenseMessageIds

-----------------------------------------------------------------------------
(* The accounts. *)

\* With unique UUIDs, a SELECT by UUID finds the one row there is.
LEMMA ClientRowIsUnique ==
  ASSUME UniqueAccounts, NEW row \in clients
  PROVE  clientRow(row.ID) = row
BY DEF UniqueAccounts, clientRow

\* The mapped accounts are the rows of clients.
LEMMA AccountsAreRows ==
  ASSUME UniqueAccounts
  PROVE  /\ DOMAIN accountsOf = {row.ID : row \in clients}
         /\ \A row \in clients :
              accountsOf[row.ID] = [name |-> row.UserName, key |-> row.PublicKey]
<1>1. DOMAIN accountsOf = {row.ID : row \in clients}
  BY DEF accountsOf
<1>2. ASSUME NEW row \in clients
      PROVE  accountsOf[row.ID] = [name |-> row.UserName, key |-> row.PublicKey]
  <2>1. row.ID \in {other.ID : other \in clients}
    OBVIOUS
  <2>2. accountsOf[row.ID] = [name |-> getUsername(row.ID), key |-> getPublicKey(row.ID)]
    BY <2>1 DEF accountsOf
  <2> QED BY <2>2, ClientRowIsUnique DEF getUsername, getPublicKey
<1> QED BY <1>1, <1>2

\* The two checks of userCheck, in the words of the mailbox.
LEMMA ChecksMapped ==
  ASSUME UniqueAccounts
  PROVE  /\ \A id : Store!Known(id) <=> idExists(id)
         /\ \A name : Store!NameTaken(name) <=> usernameExists(name)
<1>1. \A id : Store!Known(id) <=> idExists(id)
  BY AccountsAreRows DEF Store!Known, idExists
<1>2. ASSUME NEW name PROVE Store!NameTaken(name) <=> usernameExists(name)
  <2>1. ASSUME NEW row \in clients
        PROVE  row.ID \in DOMAIN accountsOf /\ accountsOf[row.ID].name = row.UserName
    <3>1. row.ID \in {other.ID : other \in clients}
      OBVIOUS
    <3>2. accountsOf[row.ID] = [name |-> row.UserName, key |-> row.PublicKey]
      BY AccountsAreRows
    <3> QED BY <3>1, <3>2, AccountsAreRows
  <2>2. ASSUME NEW id \in DOMAIN accountsOf
        PROVE  \E row \in clients : row.ID = id
    BY AccountsAreRows
  <2> QED BY <2>1, <2>2 DEF Store!NameTaken, usernameExists
<1> QED BY <1>1, <1>2

\* LastSeen does not show in the accounts.
LEMMA LastSeenUnmapped ==
  ASSUME clients \subseteq ClientRows, UniqueAccounts, UniqueAccounts',
         UNCHANGED clients \/ \E id : updateLastSeen(id)
  PROVE  accountsOf' = accountsOf
<1>1. CASE UNCHANGED clients
  BY <1>1 DEF accountsOf, getUsername, getPublicKey, clientRow
<1>2. ASSUME NEW id, updateLastSeen(id) PROVE accountsOf' = accountsOf
  <2> DEFINE seen(row) == [row EXCEPT !.LastSeen = IF row.ID = id THEN "request" ELSE @]
  <2>1. clients' = {seen(row) : row \in clients}
    BY <1>2 DEF updateLastSeen
  <2>2. \A row \in clients : /\ seen(row).ID = row.ID
                             /\ seen(row).UserName = row.UserName
                             /\ seen(row).PublicKey = row.PublicKey
    BY DEF ClientRows
  <2> HIDE DEF seen
  <2> DEFINE ids == {row.ID : row \in clients}
  <2>3. ids' = ids
    BY <2>1, <2>2
  <2>4. ASSUME NEW row \in clients
        PROVE  /\ getUsername(row.ID)' = getUsername(row.ID)
               /\ getPublicKey(row.ID)' = getPublicKey(row.ID)
    <3>1. clientRow(row.ID) = row
      BY ClientRowIsUnique
    <3>2. seen(row) \in clients' /\ seen(row).ID = row.ID
      BY <2>1, <2>2
    <3>3. clientRow(row.ID)' = seen(row)
      BY <3>2 DEF clientRow, UniqueAccounts
    <3> QED BY <2>2, <3>1, <3>3 DEF getUsername, getPublicKey
  <2>5. \A id1 \in ids : /\ getUsername(id1)' = getUsername(id1)
                         /\ getPublicKey(id1)' = getPublicKey(id1)
    BY <2>4
  <2>6. accountsOf = [id1 \in ids |-> [name |-> getUsername(id1), key |-> getPublicKey(id1)]]
    BY DEF accountsOf
  <2>7. accountsOf' = [id1 \in ids' |-> [name |-> getUsername(id1)', key |-> getPublicKey(id1)']]
    BY DEF accountsOf
  <2> HIDE DEF ids
  <2> QED BY <2>3, <2>5, <2>6, <2>7
<1> QED BY <1>1, <1>2

\* The accounts and one more.
extended(id, account) ==
  [other \in DOMAIN accountsOf \cup {id} |-> IF other = id THEN account ELSE accountsOf[other]]

\* A row that is added is one more account.
LEMMA RegistrationMapped ==
  ASSUME UniqueAccounts, UniqueAccounts', NEW id, NEW username, NEW publicKey,
         ~idExists(id), register_user(id, username, publicKey)
  PROVE  accountsOf' = extended(id, [name |-> username, key |-> publicKey])
<1> DEFINE new == [ID |-> id, UserName |-> username, PublicKey |-> publicKey,
                   LastSeen |-> "register"]
<1>1. clients' = clients \cup {new}
  BY DEF register_user
<1>2. new.ID = id /\ new.UserName = username /\ new.PublicKey = publicKey
  OBVIOUS
<1> HIDE DEF new
<1> DEFINE ids == {row.ID : row \in clients}
<1>3. ids' = ids \cup {id} /\ id \notin ids
  BY <1>1, <1>2 DEF idExists
<1>4. clientRow(id)' = new
  BY <1>1, <1>2 DEF clientRow, UniqueAccounts
<1>5. ASSUME NEW row \in clients PROVE clientRow(row.ID)' = clientRow(row.ID)
  <2>1. clientRow(row.ID)' = row
    BY <1>1 DEF clientRow, UniqueAccounts
  <2> QED BY <2>1, ClientRowIsUnique
<1>6. \A other \in ids : clientRow(other)' = clientRow(other)
  BY <1>5
<1>7. accountsOf = [other \in ids |-> [name |-> clientRow(other).UserName,
                                       key |-> clientRow(other).PublicKey]]
  BY DEF accountsOf, getUsername, getPublicKey
<1>8. accountsOf' = [other \in ids' |-> [name |-> clientRow(other)'.UserName,
                                         key |-> clientRow(other)'.PublicKey]]
  BY DEF accountsOf, getUsername, getPublicKey
<1> HIDE DEF ids
<1> QED BY <1>2, <1>3, <1>4, <1>6, <1>7, <1>8 DEF extended

-----------------------------------------------------------------------------
(* The log. *)

\* A row of messages, as the log has it.
logged(row) == [to |-> row.ToClient, from |-> row.FromClient,
               type |-> row.Type, content |-> row.Content]

\* Row ids without a gap make the table a sequence.
LEMMA RowsAreNumbered ==
  ASSUME DenseMessageIds
  PROVE  /\ \A row \in messages : row.ID \in 1..autoinc /\ messageRow(row.ID) = row
         /\ \A n \in 1..autoinc : messageRow(n) \in messages /\ messageRow(n).ID = n
<1>1. ASSUME NEW row \in messages PROVE row.ID \in 1..autoinc /\ messageRow(row.ID) = row
  BY DEF DenseMessageIds, messageRow
<1>2. ASSUME NEW n \in 1..autoinc PROVE messageRow(n) \in messages /\ messageRow(n).ID = n
  <2>1. \E row \in messages : row.ID = n
    BY DEF DenseMessageIds
  <2> QED BY <2>1 DEF messageRow
<1> QED BY <1>1, <1>2

LEMMA LogIsASequence ==
  ASSUME autoinc \in Nat
  PROVE  /\ logOf = [n \in 1..autoinc |-> logged(messageRow(n))]
         /\ logOf \in Seq({logged(messageRow(n)) : n \in 1..autoinc})
         /\ Len(logOf) = autoinc
         /\ DOMAIN logOf = 1..autoinc
<1> DEFINE S == {logged(messageRow(n)) : n \in 1..autoinc}
<1>1. logOf = [n \in 1..autoinc |-> logged(messageRow(n))]
  BY DEF logOf, logged
<1>2. logOf \in [1..autoinc -> S]
  BY <1>1
<1> HIDE DEF S
<1>3. logOf \in Seq(S) /\ Len(logOf) = autoinc
  BY <1>2
<1> QED BY <1>1, <1>3 DEF S

LEMMA LogUnchanged ==
  ASSUME UNCHANGED <<messages, autoinc>>
  PROVE  logOf' = logOf
BY DEF logOf, messageRow

LEMMA AppendIsAFunction ==
  ASSUME NEW S, NEW seq \in Seq(S), NEW elt
  PROVE  Append(seq, elt) =
           [n \in 1..(Len(seq) + 1) |-> IF n = Len(seq) + 1 THEN elt ELSE seq[n]]
<1> DEFINE T == S \cup {elt}
           longer == Append(seq, elt)
<1>1. seq \in Seq(T) /\ elt \in T /\ Len(seq) \in Nat
  <2>1. \A n \in 1..Len(seq) : seq[n] \in T
    BY ElementOfSeq
  <2> QED BY <2>1, SeqDef, LenProperties
<1> HIDE DEF T
<1>2. /\ longer \in Seq(T)
      /\ Len(longer) = Len(seq) + 1
      /\ \A n \in 1..Len(seq) : longer[n] = seq[n]
      /\ longer[Len(seq) + 1] = elt
  BY <1>1, AppendProperties
<1> HIDE DEF longer
<1>3. longer = [n \in 1..(Len(seq) + 1) |-> longer[n]]
  BY <1>2, LenProperties
<1>4. \A n \in 1..(Len(seq) + 1) : longer[n] = IF n = Len(seq) + 1 THEN elt ELSE seq[n]
  BY <1>1, <1>2
<1> QED BY <1>3, <1>4 DEF longer

\* An INSERT appends to the log.
LEMMA InsertMapped ==
  ASSUME autoinc \in Nat, DenseMessageIds, DenseMessageIds', NEW to, NEW from, NEW type,
         NEW content, sendMessageToTarget(to, from, type, content)
  PROVE  logOf' = Append(logOf, [to |-> to, from |-> from, type |-> type, content |-> content])
<1> DEFINE new == [ID |-> autoinc + 1, ToClient |-> to, FromClient |-> from,
                   Type |-> type, Content |-> content]
           post == [to |-> to, from |-> from, type |-> type, content |-> content]
<1>1. messages' = messages \cup {new} /\ autoinc' = autoinc + 1
  BY DEF sendMessageToTarget
<1>2. new.ID = autoinc + 1 /\ logged(new) = post
  BY DEF logged
<1> HIDE DEF new, post
<1>3. ASSUME NEW n, n = autoinc + 1 PROVE messageRow(n)' = new
  <2>1. \A row \in messages' : row.ID = new.ID => row = new
    BY <1>1 DEF DenseMessageIds
  <2> QED BY <1>1, <1>2, <1>3, <2>1 DEF messageRow
<1>4. ASSUME NEW n \in 1..autoinc PROVE messageRow(n)' = messageRow(n)
  <2>1. messageRow(n) \in messages /\ messageRow(n).ID = n
    BY RowsAreNumbered
  <2>2. \A row \in messages' : row.ID = n => row = messageRow(n)
    BY <1>1, <2>1 DEF DenseMessageIds
  <2>3. messageRow(n) \in messages'
    BY <1>1, <2>1
  <2> HIDE DEF messageRow
  <2>4. PICK row : row = messageRow(n)
    OBVIOUS
  <2>5. row \in messages' /\ row.ID = n /\ \A other \in messages' : other.ID = n => other = row
    BY <2>1, <2>2, <2>3, <2>4
  <2>6. messageRow(n)' = row
    BY <2>5 DEF messageRow
  <2> QED BY <2>4, <2>6
<1>5. logOf = [n \in 1..autoinc |-> logged(messageRow(n))] /\ Len(logOf) = autoinc
  BY LogIsASequence
<1>6. logOf' = [n \in 1..(autoinc + 1) |-> logged(messageRow(n)')]
  BY <1>1 DEF logOf, logged
<1>7. ASSUME NEW n \in 1..(autoinc + 1)
      PROVE  logged(messageRow(n)') = IF n = autoinc + 1 THEN post ELSE logOf[n]
  <2>1. CASE n = autoinc + 1
    BY <1>2, <1>3, <2>1
  <2>2. CASE n # autoinc + 1
    BY <1>4, <1>5, <2>2
  <2> QED BY <2>1, <2>2
<1>8. logOf' = [n \in 1..(autoinc + 1) |-> IF n = autoinc + 1 THEN post ELSE logOf[n]]
  BY <1>6, <1>7
<1>9. Append(logOf, post) = [n \in 1..(autoinc + 1) |-> IF n = autoinc + 1 THEN post ELSE logOf[n]]
  BY <1>5, LogIsASequence, AppendIsAFunction
<1> QED BY <1>8, <1>9 DEF post

-----------------------------------------------------------------------------
(* Answers, refusals and losses. *)

\* sendall is a reply: to the caller, or to nobody when the caller is gone.
LEMMA SendAllMapped ==
  ASSUME NEW c \in Conns, NEW response, SendAll(c, response)
  PROVE  Store!Reply(c, response)
BY DEF SendAll, Store!Reply, NoRequest, Store!NoRequest

\* The call of c is over and nobody got an answer to it.
LEMMA CallLost ==
  ASSUME LinkTypeOK, NEW c \in Conns, UNCHANGED <<accountsOf, logOf>>,
         rx' = [rx EXCEPT ![c] = NoRequest],
         tx' = [tx EXCEPT ![c] = NoResponse] \/ (tx' = tx /\ tx[c] = NoResponse)
  PROVE  Store!Next
<1>1. Store!Finish({c})
  BY DEF LinkTypeOK, Store!Finish, NoRequest, NoResponse, Store!NoRequest, Store!NoResponse
<1> QED BY <1>1 DEF Store!Next

\* The general error, to a call that may be refused.
LEMMA RefusalMapped ==
  ASSUME LinkTypeOK, NEW c \in Conns, Readable(c), UNCHANGED <<accountsOf, logOf>>,
         sendGeneralError(c), Store!Refusable(rx[c])
  PROVE  Store!Next
<1>1. CASE conn[c] = "open"
  <2>1. Store!Refuse(c)
    BY <1>1 DEF sendGeneralError, SendAll, Readable, Store!Refuse, GeneralError, NoRequest,
       NoResponse, Store!GeneralError, Store!NoRequest, Store!NoResponse
  <2> QED BY <2>1 DEF Store!Next
<1>2. CASE conn[c] # "open"
  <2>1. tx' = tx /\ tx[c] = NoResponse /\ rx' = [rx EXCEPT ![c] = NoRequest]
    BY <1>2 DEF sendGeneralError, SendAll, Readable
  <2> QED BY <2>1, CallLost
<1> QED BY <1>1, <1>2

\* When the flush raises the caller gets nothing, whatever the connection.
LEMMA FlushMapped ==
  ASSUME LinkTypeOK, NEW c \in Conns, Readable(c), UNCHANGED <<accountsOf, logOf>>,
         flushRaises(c)
  PROVE  Store!Next
<1>1. tx' = tx /\ tx[c] = NoResponse /\ rx' = [rx EXCEPT ![c] = NoRequest]
  BY DEF flushRaises, DisconnectClient, SendAll, Readable
<1> QED BY <1>1, CallLost

-----------------------------------------------------------------------------
(* The handlers. *)

LEMMA RegisterMapped ==
  ASSUME MappingInv, MappingInv', NEW c \in Conns, registerRequest(c)
  PROVE  Store!Next
<1> USE DEF MappingInv, ServerTypeOK, DatabaseTypeOK
<1>1. Readable(c) /\ rx[c].op = "REQ_REGISTER" /\ UNCHANGED <<messages, autoinc>>
  BY DEF registerRequest
<1>2. logOf' = logOf
  BY <1>1, LogUnchanged
<1>3. ASSUME NEW id \in UUIDs, registerRaises(c, id) PROVE Store!Next
  <2>1. accountsOf' = accountsOf
    BY <1>3, LastSeenUnmapped DEF registerRaises
  <2>2. Store!NameTaken(rx[c].username) \/ DOMAIN accountsOf # {}
    BY <1>3, ChecksMapped DEF registerRaises, Store!Known
  <2>3. Store!Refusable(rx[c])
    BY <1>1, <2>2 DEF Store!Refusable
  <2> QED BY <1>1, <1>2, <1>3, <2>1, <2>3, RefusalMapped DEF registerRaises
<1>4. ASSUME NEW id \in UUIDs, ~idExists(id), ~usernameExists(rx[c].username),
             register_user(id, rx[c].username, rx[c].publicKey),
             SendAll(c, RegisterResp(id))
      PROVE  Store!Next
  <2>1. Store!Pending(c, "REQ_REGISTER")
    BY <1>1 DEF Store!Pending, Readable, NoResponse, Store!NoResponse
  <2>2. ~Store!Known(id) /\ ~Store!NameTaken(rx[c].username)
    BY <1>4, ChecksMapped
  <2>3. Store!Reply(c, Store!RegisterResp(id))
    BY <1>4, SendAllMapped DEF RegisterResp, Store!RegisterResp
  <2>4. accountsOf' = extended(id, [name |-> rx[c].username, key |-> rx[c].publicKey])
    <3>1. PICK username, publicKey : username = rx[c].username /\ publicKey = rx[c].publicKey
      OBVIOUS
    <3>2. register_user(id, username, publicKey)
      BY <1>4, <3>1
    <3>3. accountsOf' = extended(id, [name |-> username, key |-> publicKey])
      BY <1>4, <3>2, RegistrationMapped
    <3> QED BY <3>1, <3>3
  <2>5. Store!Register(c, id)
    BY <1>2, <2>1, <2>2, <2>3, <2>4 DEF Store!Register, extended
  <2> QED BY <2>5 DEF Store!Next
<1> QED BY <1>3, <1>4 DEF registerRequest

LEMMA UserListMapped ==
  ASSUME MappingInv, MappingInv', NEW c \in Conns, userlistRequest(c)
  PROVE  Store!Next
<1> USE DEF MappingInv, ServerTypeOK, DatabaseTypeOK
<1>1. Readable(c) /\ rx[c].op = "REQ_USER_LIST" /\ UNCHANGED <<messages, autoinc>>
  BY DEF userlistRequest
<1>2. accountsOf' = accountsOf /\ logOf' = logOf
  BY <1>1, LogUnchanged, LastSeenUnmapped DEF userlistRequest
<1>3. CASE flushRaises(c)
  BY <1>1, <1>2, <1>3, FlushMapped
<1>4. CASE /\ idExists(rx[c].UUID)
           /\ SendAll(c, UserListResp(getAllUsers(rx[c].UUID)))
  <2>1. Store!Pending(c, "REQ_USER_LIST")
    BY <1>1 DEF Store!Pending, Readable, NoResponse, Store!NoResponse
  <2>2. Store!Known(rx[c].UUID)
    BY <1>4, ChecksMapped
  <2> DEFINE listed == {[ID |-> id, UserName |-> accountsOf[id].name] :
                          id \in DOMAIN accountsOf \ {rx[c].UUID}}
  <2>3. getAllUsers(rx[c].UUID) = listed
    <3>1. PICK self : self = rx[c].UUID
      OBVIOUS
    <3>2. PICK own \in clients : own.ID = self
      BY <1>4, <3>1 DEF idExists
    <3>3. getUsername(self) = own.UserName
      BY <3>2, ClientRowIsUnique DEF getUsername
    \* Names are unique, so leaving out the own name leaves out no one else.
    <3>4. \A row \in clients :
            row.ID # self <=> row.ID # self /\ row.UserName # getUsername(self)
      BY <3>2, <3>3 DEF UniqueAccounts
    <3>5. getAllUsers(self) = {[ID |-> row.ID, UserName |-> row.UserName] :
                                 row \in {other \in clients : other.ID # self}}
      BY <3>4 DEF getAllUsers
    <3>6. ASSUME NEW row \in clients PROVE accountsOf[row.ID].name = row.UserName
      <4>1. accountsOf[row.ID] = [name |-> row.UserName, key |-> row.PublicKey]
        BY AccountsAreRows
      <4> QED BY <4>1
    <3>7. DOMAIN accountsOf = {row.ID : row \in clients}
      BY AccountsAreRows
    <3>8. getAllUsers(self) = {[ID |-> id, UserName |-> accountsOf[id].name] :
                                 id \in DOMAIN accountsOf \ {self}}
      BY <3>5, <3>6, <3>7
    <3> QED BY <3>1, <3>8
  <2>4. Store!Reply(c, Store!UserListResp(listed))
    BY <1>4, <2>3, SendAllMapped DEF UserListResp, Store!UserListResp
  <2>5. Store!List(c)
    BY <1>2, <2>1, <2>2, <2>4 DEF Store!List
  <2> QED BY <2>5 DEF Store!Next
<1> QED BY <1>3, <1>4 DEF userlistRequest, updateLastSeenRaises

LEMMA PublicKeyMapped ==
  ASSUME MappingInv, MappingInv', NEW c \in Conns, publicKeyRequest(c)
  PROVE  Store!Next
<1> USE DEF MappingInv, ServerTypeOK, DatabaseTypeOK
<1>1. Readable(c) /\ rx[c].op = "REQ_PUBLIC_KEY" /\ UNCHANGED <<messages, autoinc>>
  BY DEF publicKeyRequest
<1>2. accountsOf' = accountsOf /\ logOf' = logOf
  BY <1>1, LogUnchanged, LastSeenUnmapped DEF publicKeyRequest
<1>3. CASE flushRaises(c)
  BY <1>1, <1>2, <1>3, FlushMapped
<1>4. CASE /\ idExists(rx[c].UUID)
           /\ idExists(rx[c].target)
           /\ SendAll(c, PublicKeyResp(rx[c].target, getPublicKey(rx[c].target)))
  <2>1. Store!Pending(c, "REQ_PUBLIC_KEY")
    BY <1>1 DEF Store!Pending, Readable, NoResponse, Store!NoResponse
  <2>2. Store!Known(rx[c].UUID) /\ Store!Known(rx[c].target)
    BY <1>4, ChecksMapped
  <2>3. accountsOf[rx[c].target].key = getPublicKey(rx[c].target)
    BY <2>2 DEF Store!Known, accountsOf
  <2>4. Store!Reply(c, Store!PublicKeyResp(rx[c].target, accountsOf[rx[c].target].key))
    BY <1>4, <2>3, SendAllMapped DEF PublicKeyResp, Store!PublicKeyResp
  <2>5. Store!GetKey(c)
    BY <1>2, <2>1, <2>2, <2>4 DEF Store!GetKey
  <2> QED BY <2>5 DEF Store!Next
<1> QED BY <1>3, <1>4 DEF publicKeyRequest, updateLastSeenRaises

LEMMA MessageToUserMapped ==
  ASSUME MappingInv, MappingInv', NEW c \in Conns, messageToUserRequest(c)
  PROVE  Store!Next
<1> USE DEF MappingInv, ServerTypeOK, DatabaseTypeOK
<1>1. Readable(c) /\ rx[c].op = "REQ_MESSAGE_TO_USER"
  BY DEF messageToUserRequest
<1>2. UNCHANGED clients \/ \E id : updateLastSeen(id)
  BY DEF messageToUserRequest, dbVars
<1>3. accountsOf' = accountsOf
  BY <1>2, LastSeenUnmapped
<1>4. CASE UNCHANGED <<messages, autoinc>> /\ flushRaises(c)
  BY <1>1, <1>3, <1>4, LogUnchanged, FlushMapped
<1>5. CASE /\ ~idExists(rx[c].UUID)
           /\ UNCHANGED dbVars
           /\ sendGeneralError(c)
  <2>1. logOf' = logOf
    BY <1>5, LogUnchanged DEF dbVars
  <2>2. Store!Refusable(rx[c])
    BY <1>1, <1>5, ChecksMapped DEF Store!Refusable
  <2> QED BY <1>1, <1>3, <1>5, <2>1, <2>2, RefusalMapped
<1>6. CASE /\ idExists(rx[c].UUID)
           /\ rowIdFits
           /\ sendMessageToTarget(rx[c].target, rx[c].UUID, rx[c].type, rx[c].content)
           /\ SendAll(c, MessageSentResp(rx[c].target, autoinc + 1))
  <2>1. Store!Pending(c, "REQ_MESSAGE_TO_USER")
    BY <1>1 DEF Store!Pending, Readable, NoResponse, Store!NoResponse
  <2>2. Store!Known(rx[c].UUID)
    BY <1>6, ChecksMapped
  <2>3. autoinc \in Nat /\ Len(logOf) = autoinc
    BY LogIsASequence, ProtocolAssumption
  <2>4. ~Store!Full
    BY <1>6, <2>3, ProtocolAssumption DEF rowIdFits, Store!Full
  <2>5. logOf' = Append(logOf, [to |-> rx[c].target, from |-> rx[c].UUID,
                                type |-> rx[c].type, content |-> rx[c].content])
    <3>1. PICK to, from, type, content :
            /\ to = rx[c].target /\ from = rx[c].UUID
            /\ type = rx[c].type /\ content = rx[c].content
      OBVIOUS
    <3>2. sendMessageToTarget(to, from, type, content)
      BY <1>6, <3>1
    <3>3. logOf' = Append(logOf, [to |-> to, from |-> from, type |-> type, content |-> content])
      BY <2>3, <3>2, InsertMapped
    <3> QED BY <3>1, <3>3
  <2>6. Store!Reply(c, Store!MessageSentResp(rx[c].target, Len(logOf) + 1))
    BY <1>6, <2>3, SendAllMapped DEF MessageSentResp, Store!MessageSentResp
  <2>7. Store!Post(c)
    BY <1>3, <2>1, <2>2, <2>4, <2>5, <2>6 DEF Store!Post
  <2> QED BY <2>7 DEF Store!Next
<1> QED BY <1>4, <1>5, <1>6 DEF messageToUserRequest, updateLastSeenRaises, insertRolledBack, dbVars

LEMMA CollectMsgsMapped ==
  ASSUME MappingInv, MappingInv', NEW c \in Conns, collectMsgsRequest(c)
  PROVE  Store!Next
<1> USE DEF MappingInv, ServerTypeOK, DatabaseTypeOK
<1>1. Readable(c) /\ rx[c].op = "REQ_AWAITING_MESSAGES" /\ UNCHANGED <<messages, autoinc>>
  BY DEF collectMsgsRequest
<1>2. accountsOf' = accountsOf /\ logOf' = logOf
  BY <1>1, LogUnchanged, LastSeenUnmapped DEF collectMsgsRequest
<1>3. CASE flushRaises(c)
  BY <1>1, <1>2, <1>3, FlushMapped
<1>4. CASE /\ idExists(rx[c].UUID)
           /\ getAllMessages(rx[c].UUID) # {}
           /\ SendAll(c, AwaitingResp(byte_msg(getAllMessages(rx[c].UUID))))
  <2>1. Store!Pending(c, "REQ_AWAITING_MESSAGES")
    BY <1>1 DEF Store!Pending, Readable, NoResponse, Store!NoResponse
  <2>2. Store!Known(rx[c].UUID)
    BY <1>4, ChecksMapped
  <2>3. autoinc \in Nat
    BY ProtocolAssumption
  <2> DEFINE waiting == getAllMessages(rx[c].UUID)
             row == lastRow(waiting)
  <2>4. row \in messages /\ row.ToClient = rx[c].UUID
    BY <1>4, ByteMsgType DEF getAllMessages
  <2>5. \A other \in waiting : other.ID <= row.ID
    BY <1>4, LastRowIsNewest DEF getAllMessages
  <2>6. \A n \in 1..autoinc : logOf[n] = logged(messageRow(n))
    BY <2>3, LogIsASequence
  <2>7. row.ID \in DOMAIN logOf /\ logOf[row.ID] = logged(row)
    BY <2>3, <2>4, <2>6, LogIsASequence, RowsAreNumbered
  <2>8. row.ID \in Store!For(rx[c].UUID)
    BY <2>4, <2>7 DEF Store!For, logged
  <2>9. ASSUME NEW n \in Store!For(rx[c].UUID) PROVE n <= row.ID
    <3>1. n \in 1..autoinc /\ logOf[n].to = rx[c].UUID
      BY <2>3, LogIsASequence DEF Store!For
    <3>2. messageRow(n) \in messages /\ messageRow(n).ID = n
      BY <3>1, RowsAreNumbered
    <3>3. messageRow(n).ToClient = rx[c].UUID
      <4>1. logged(messageRow(n)).to = rx[c].UUID
        BY <2>6, <3>1
      <4> QED BY <4>1 DEF logged
    <3>4. messageRow(n) \in waiting
      BY <3>2, <3>3 DEF getAllMessages
    <3> HIDE DEF waiting, row
    <3> QED BY <2>5, <3>2, <3>4
  <2>10. byte_msg(waiting) = [ID |-> row.ID, FromClient |-> logOf[row.ID].from,
                              Type |-> logOf[row.ID].type, Content |-> logOf[row.ID].content]
    BY <2>7 DEF byte_msg, logged
  <2>11. Store!Reply(c, Store!AwaitingResp(
           [ID |-> row.ID, FromClient |-> logOf[row.ID].from,
            Type |-> logOf[row.ID].type, Content |-> logOf[row.ID].content]))
    BY <1>4, <2>10, SendAllMapped DEF AwaitingResp, Store!AwaitingResp
  <2> HIDE DEF row
  <2>12. Store!Pull(c)
    BY <1>2, <2>1, <2>2, <2>8, <2>9, <2>11 DEF Store!Pull
  <2> QED BY <2>12 DEF Store!Next
<1> QED BY <1>3, <1>4 DEF collectMsgsRequest, updateLastSeenRaises

-----------------------------------------------------------------------------
(* The other steps, and the theorem. *)

LEMMA ClientEndMapped ==
  ASSUME MappingInv, NEW c \in Conns, ClientEnd(c)
  PROVE  [Store!Next]_(Store!mailboxVars)
<1> USE DEF MappingInv, ServerTypeOK
<1>1. accountsOf' = accountsOf /\ logOf' = logOf
  BY LogUnchanged DEF ClientEnd, dbVars, accountsOf, getUsername, getPublicKey, clientRow
<1>2. CASE Connect(c) \/ ConnectAndLeave(c)
  BY <1>1, <1>2 DEF Connect, ConnectAndLeave, Store!mailboxVars
<1>3. ASSUME NEW r \in Requests, SendRequest(c, r) PROVE Store!Next
  <2>1. Store!Call(c, r)
    BY <1>1, <1>3 DEF SendRequest, Store!Call, NoRequest, Store!NoRequest
  <2>2. r \in Store!Requests
    BY <1>3 DEF Requests, Store!Requests, RegisterReq, Store!RegisterReq, UserListReq,
       Store!UserListReq, PublicKeyReq, Store!PublicKeyReq, AwaitingReq, Store!AwaitingReq,
       MessageReqs, Store!MessageReqs, MessageReq, Store!MessageReq, ClientIDs,
       Store!ClientIDs, ContentsOf, Store!ContentsOf, NoContent, Store!NoContent, Rsa,
       Store!Rsa, Aes, Store!Aes
  <2> QED BY <2>1, <2>2 DEF Store!Next
<1>4. CASE ReadAnswer(c)
  BY <1>1, <1>4, CallLost DEF ReadAnswer
<1>5. CASE Drop(c)
  <2>1. tx' = [tx EXCEPT ![c] = NoResponse]
    BY <1>5 DEF Drop
  <2>2. CASE rx' = [rx EXCEPT ![c] = NoRequest]
    BY <1>1, <2>1, <2>2, CallLost
  <2>3. CASE Readable(c) /\ UNCHANGED rx
    <3>1. tx' = tx
      BY <2>1, <2>3 DEF Readable, LinkTypeOK
    <3> QED BY <1>1, <2>3, <3>1 DEF Store!mailboxVars
  <2> QED BY <1>5, <2>2, <2>3 DEF Drop
<1> QED BY <1>2, <1>3, <1>4, <1>5 DEF ClientEnd

\* A restart loses calls and answers, and nothing that was accepted.
LEMMA RestartMapped ==
  ASSUME MappingInv, MappingInv', Restart
  PROVE  Store!Next
<1> USE DEF MappingInv, ServerTypeOK, DatabaseTypeOK
<1>1. UNCHANGED <<messages, autoinc>>
  BY DEF Restart, reopen_database
<1>2. UNCHANGED clients \/ \E id : updateLastSeen(id)
  BY DEF Restart
<1>3. accountsOf' = accountsOf /\ logOf' = logOf
  BY <1>1, <1>2, LogUnchanged, LastSeenUnmapped
<1>4. PICK lost \in SUBSET Conns :
        /\ tx' = [c \in Conns |-> IF c \in lost THEN NoResponse ELSE tx[c]]
        /\ rx' = [c \in Conns |-> IF tx'[c] = NoResponse THEN NoRequest ELSE rx[c]]
  BY DEF Restart
<1> DEFINE over == {c \in Conns : c \in lost \/ tx[c] = NoResponse}
<1>5. \A c \in Conns : c \in over <=> tx'[c] = NoResponse
  BY <1>4
<1>6. over \in SUBSET Conns
  OBVIOUS
<1>7. tx' = [c \in Conns |-> IF c \in over THEN NoResponse ELSE tx[c]]
  BY <1>4
<1>8. rx' = [c \in Conns |-> IF c \in over THEN NoRequest ELSE rx[c]]
  BY <1>4, <1>5
<1> HIDE DEF over
<1>9. Store!Finish(over)
  BY <1>3, <1>7, <1>8 DEF Store!Finish, NoRequest, Store!NoRequest, NoResponse, Store!NoResponse
<1> QED BY <1>6, <1>9 DEF Store!Next

LEMMA StepMapped ==
  ASSUME MappingInv, MappingInv', [ServerNext]_serverVars
  PROVE  [Store!Next]_(Store!mailboxVars)
<1>1. CASE UNCHANGED serverVars
  <2>1. accountsOf' = accountsOf /\ logOf' = logOf
    BY <1>1, LogUnchanged DEF serverVars, accountsOf, getUsername, getPublicKey, clientRow
  <2> QED BY <1>1, <2>1 DEF serverVars, Store!mailboxVars
<1>2. ASSUME NEW c \in Conns, handle_request(c) PROVE Store!Next
  BY <1>2, RegisterMapped, UserListMapped, PublicKeyMapped, MessageToUserMapped,
     CollectMsgsMapped DEF handle_request
<1>3. ASSUME NEW c \in Conns, Unregister(c), UNCHANGED dbVars
      PROVE  UNCHANGED Store!mailboxVars
  <2>1. accountsOf' = accountsOf /\ logOf' = logOf
    BY <1>3, LogUnchanged DEF dbVars, accountsOf, getUsername, getPublicKey, clientRow
  <2> QED BY <1>3, <2>1 DEF Unregister, Store!mailboxVars
<1>4. ASSUME NEW c \in Conns, ClientEnd(c) PROVE [Store!Next]_(Store!mailboxVars)
  BY <1>4, ClientEndMapped
<1>5. CASE Restart
  BY <1>5, RestartMapped
<1> QED BY <1>1, <1>2, <1>3, <1>4, <1>5 DEF ServerNext, handle_client

LEMMA InitMapped == ServerInit => Store!Init
<1> SUFFICES ASSUME ServerInit PROVE Store!Init
  OBVIOUS
<1>1. clients = {} /\ autoinc = 0
  BY DEF ServerInit, initialize_database
<1>2. accountsOf = [id \in {} |-> NoKey]
  BY <1>1 DEF accountsOf
<1>3. logOf = <<>>
  BY <1>1 DEF logOf
<1> QED BY <1>2, <1>3 DEF Store!Init, ServerInit, LinkInit, NoRequest, Store!NoRequest,
        NoResponse, Store!NoResponse

\* The server is an atomic mailbox to its clients, for any number of them: every
\* handler, with all its checks, writes and ways to fail, takes effect whole at
\* one moment or not at all, answers from the state of that moment, and a restart
\* takes back nothing that was accepted.
THEOREM ServerImplementsMailbox == ServerSpec => MailboxSpec
<1>1. ServerInit => Store!Init
  BY InitMapped
<1>2. MappingInv /\ MappingInv' /\ [ServerNext]_serverVars => [Store!Next]_(Store!mailboxVars)
  BY StepMapped
<1>3. ServerTypeOK /\ UniqueAccounts /\ DenseMessageIds => MappingInv
  BY DEF MappingInv
<1> QED BY <1>1, <1>2, <1>3, TypeCorrect, AccountsAreUnique, MessageIdsAreDense, PTL
        DEF ServerSpec, MailboxSpec, Store!Spec

=============================================================================
