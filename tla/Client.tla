------------------------------- MODULE Client -------------------------------
(***************************************************************************)
(* The client program, one process per user.  A process asks its user for  *)
(* a choice (messageHandler builds and sends the request), then blocks for *)
(* the answer (responseHandler).  Any exception on the way is printed and  *)
(* the menu is shown again: what was assigned before it was thrown stays.  *)
(*                                                                         *)
(* The member list and the keys in it live in memory only; me.info keeps   *)
(* the user's name, UUID and private key from one start to the next.       *)
(***************************************************************************)
EXTENDS Connections

CONSTANTS
  Procs,   \* the client processes, each with its own working directory
  NoConn   \* the socket of a process that is not running

ASSUME ClientAssumption == NoConn \notin Conns

VARIABLES
  pc,       \* "off", "ready" (menu), or the op of the request awaiting an answer
  sock,     \* the connection of a running process
  user,     \* Client::user
  members,  \* Client::members, by UUID
  me_info,  \* the file me.info: how many lines it has, and what they say
  issued,   \* keys generated so far (they are random, hence fresh)
  shown     \* row id of the last message displayed in this session

clientVars == <<pc, sock, user, members, me_info, issued, shown>>

RequestOps ==
  {"REQ_REGISTER", "REQ_USER_LIST", "REQ_PUBLIC_KEY", "REQ_MESSAGE_TO_USER",
   "REQ_AWAITING_MESSAGES"}

\* Users.  No name stands for an empty std::optional<User>.
NoUser == [name |-> "NONE", uuid |-> UnsetUUID, key |-> NoKey]
User(name, uuid, key) == [name |-> name, uuid |-> uuid, key |-> key]
Users == {User(name, uuid, key) : name \in Names, uuid \in ClientIDs, key \in KeyPairs}

\* ClientData.
MemberData ==
  [username : Names, public_key : KeyPairs \cup {NoKey},
   symmetric_key : SymKeys \cup {NoKey}, requested : BOOLEAN]

\* Client::members: at most one entry for each UUID.
MemberLists == UNION {[ids -> MemberData] : ids \in SUBSET UUIDs}
NoMembers == [u \in {} |-> NoKey]

\* Mutant: the mark of a request is set from the start.
RequestedMember(username) ==
  [username |-> username, public_key |-> NoKey, symmetric_key |-> NoKey, requested |-> TRUE]

\* A row of the member list as ClientData's constructor makes it.
NewMember(username) ==
  [username |-> username, public_key |-> NoKey, symmetric_key |-> NoKey, requested |-> FALSE]

\* The setters of ClientData.  setRequested turns the mark over.
setPublic(data, key) == [data EXCEPT !.public_key = key]
setSymmetric(data, key) == [data EXCEPT !.symmetric_key = key]
setRequested(data) == [data EXCEPT !.requested = ~@]

\* me.info: line 1 is the name, line 2 the UUID, the rest the private key.
\* Each line is flushed when it is complete.
MeInfo(lines, whose) == [lines |-> lines, user |-> whose]
NoFile == MeInfo(0, NoUser)

ClientTypeOK ==
  /\ pc \in [Procs -> {"off", "ready"} \cup RequestOps]
  /\ sock \in [Procs -> Conns \cup {NoConn}]
  /\ user \in [Procs -> Users \cup {NoUser}]
  /\ members \in [Procs -> MemberLists]
  /\ me_info \in [Procs -> {MeInfo(lines, whose) : lines \in 0..3, whose \in Users \cup {NoUser}}]
  /\ issued \subseteq KeyPairs \cup SymKeys
  /\ shown \in [Procs -> 0..MaxRowId]

ClientInit ==
  /\ pc = [p \in Procs |-> "off"]
  /\ sock = [p \in Procs |-> NoConn]
  /\ user = [p \in Procs |-> NoUser]
  /\ members = [p \in Procs |-> NoMembers]
  /\ me_info = [p \in Procs |-> NoFile]
  /\ issued = {}
  /\ shown = [p \in Procs |-> 0]

hasUser(p) == user[p] # NoUser

\* Keys are drawn at random, hence fresh: RSA pairs from a seeded pool, AES keys
\* from RDRAND.
generated(key) ==
  /\ key \notin issued
  /\ issued' = issued \cup {key}

RSAPrivateWrapper(key) == key \in KeyPairs /\ generated(key)
AESWrapper(key) == key \in SymKeys /\ generated(key)

\* RSAPrivateWrapper::decrypt, which throws under any other pair.
decrypts(pair, content) == content.pub = pair

\* The member list has an entry for that UUID, else findUser throws.
findUser(p, id) == id \in DOMAIN members[p]

-----------------------------------------------------------------------------
(* Starting and stopping. *)

\* main up to the service loop.
Start(p, c) ==
  /\ pc[p] = "off"
  /\ me_info[p].lines # 2
  /\ Connect(c)
  /\ pc' = [pc EXCEPT ![p] = "ready"]
  /\ sock' = [sock EXCEPT ![p] = c]
  /\ user' = [user EXCEPT ![p] = IF me_info[p].lines = 3 THEN me_info[p].user ELSE NoUser]
  /\ UNCHANGED <<members, me_info, issued, shown>>

\* main on a me.info of two lines: user_info[2] is read past the end of the
\* vector.  Whatever is there is no string with an RSA key in it, so main ends
\* with an exception or a crash, after connecting and before the menu.
FailedStart(p, c) ==
  /\ pc[p] = "off"
  /\ me_info[p].lines = 2
  /\ ConnectAndLeave(c)
  /\ UNCHANGED clientVars

\* Memory and socket go with the process.
StopProcess(p) ==
  /\ Drop(sock[p])
  /\ pc' = [pc EXCEPT ![p] = "off"]
  /\ sock' = [sock EXCEPT ![p] = NoConn]
  /\ user' = [user EXCEPT ![p] = NoUser]
  /\ members' = [members EXCEPT ![p] = NoMembers]
  /\ shown' = [shown EXCEPT ![p] = 0]
  /\ UNCHANGED issued

\* Choice 0 at the menu, or the end of the process at any other moment.
Exit(p) ==
  /\ pc[p] # "off"
  /\ StopProcess(p)
  /\ UNCHANGED me_info

-----------------------------------------------------------------------------
(* messageHandler. *)

\* Mutant: reconnects when the connection is lost, and forgets to resend.
SendOrReconnect(p, r) ==
  \/ /\ SendRequest(sock[p], r)
     /\ pc' = [pc EXCEPT ![p] = r.op]
  \/ /\ conn[sock[p]] = "closed"
     /\ conn' = [conn EXCEPT ![sock[p]] = "open"]
     /\ UNCHANGED <<rx, tx, pc>>

\* createMessage and sendMessage; a write to a connection the server closed
\* throws, and clientService returns to the menu.
Send(p, r) ==
  \/ /\ SendRequest(sock[p], r)
     /\ pc' = [pc EXCEPT ![p] = r.op]
  \/ /\ conn[sock[p]] = "closed"
     /\ UNCHANGED <<linkVars, pc>>

\* Mutant: me.info is written as soon as there is a user, before the answer.
SaveAndRegister(p, name, key) ==
  /\ pc[p] = "ready"
  /\ ~hasUser(p)
  /\ RSAPrivateWrapper(key)
  /\ user' = [user EXCEPT ![p] = User(name, UnsetUUID, key)]
  /\ me_info' = [me_info EXCEPT ![p] = MeInfo(3, User(name, UnsetUUID, key))]
  /\ Send(p, RegisterReq(name, key))
  /\ UNCHANGED <<sock, members, shown>>

\* 110.  The user is set before anything is sent; its UUID is left unset.
Register(p, name, key) ==
  /\ pc[p] = "ready"
  /\ ~hasUser(p)
  /\ RSAPrivateWrapper(key)
  /\ user' = [user EXCEPT ![p] = User(name, UnsetUUID, key)]
  /\ Send(p, RegisterReq(name, key))
  /\ UNCHANGED <<sock, members, me_info, shown>>

\* 120.  A member list, once there, is never asked for again.
RequestUserList(p) ==
  /\ pc[p] = "ready"
  /\ hasUser(p)
  /\ DOMAIN members[p] = {}
  /\ Send(p, UserListReq(user[p].uuid))
  /\ UNCHANGED <<sock, user, members, me_info, issued, shown>>

\* getMember: the user types the name of a member of the list.
getMember(p, u) ==
  /\ pc[p] = "ready"
  /\ hasUser(p)
  /\ u \in DOMAIN members[p]

\* 130.
RequestPublicKey(p, u) ==
  /\ getMember(p, u)
  /\ Send(p, PublicKeyReq(user[p].uuid, u))
  /\ UNCHANGED <<sock, user, members, me_info, issued, shown>>

\* 140.
PullMessages(p) ==
  /\ pc[p] = "ready"
  /\ hasUser(p)
  /\ DOMAIN members[p] # {}
  /\ Send(p, AwaitingReq(user[p].uuid))
  /\ UNCHANGED <<sock, user, members, me_info, issued, shown>>

\* 151.
RequestSymmetricKey(p, u) ==
  /\ getMember(p, u)
  /\ members[p][u].public_key # NoKey
  /\ Send(p, MessageReq(user[p].uuid, u, "REQ_SYMMETRIC_KEY", NoContent))
  /\ UNCHANGED <<sock, user, members, me_info, issued, shown>>

\* 152.  The new key replaces the old one before it is sent, and the mark of
\* the member's request stays: it can be sent again, with yet another key.
SendSymmetricKey(p, u, key) ==
  /\ getMember(p, u)
  /\ members[p][u].public_key # NoKey
  /\ members[p][u].requested
  /\ AESWrapper(key)
  /\ members' = [members EXCEPT ![p][u] = setSymmetric(@, key)]
  /\ Send(p, MessageReq(user[p].uuid, u, "SEND_SYMMETRIC_KEY",
                        Rsa(members[p][u].public_key, key)))
  /\ UNCHANGED <<sock, user, me_info, shown>>

\* 150 and 153: a text, or a file that could be read.
SendEncrypted(p, u, type) ==
  /\ getMember(p, u)
  /\ members[p][u].symmetric_key # NoKey
  /\ Send(p, MessageReq(user[p].uuid, u, type, Aes(members[p][u].symmetric_key)))
  /\ UNCHANGED <<sock, user, members, me_info, issued, shown>>

messageHandler(p) ==
  \/ \E name \in Names, key \in KeyPairs : Register(p, name, key)
  \/ RequestUserList(p)
  \/ PullMessages(p)
  \/ \E u \in UUIDs :
       \/ RequestPublicKey(p, u)
       \/ /\ "REQ_SYMMETRIC_KEY" \in MessageTypes
          /\ RequestSymmetricKey(p, u)
       \/ /\ "SEND_SYMMETRIC_KEY" \in MessageTypes
          /\ \E key \in SymKeys : SendSymmetricKey(p, u, key)
       \/ \E type \in MessageTypes \cap {"SEND_TEXT_MSG", "SEND_FILE"} : SendEncrypted(p, u, type)

-----------------------------------------------------------------------------
(* responseHandler. *)

\* The answer of p's request, when it is there.
answer(p) == IF pc[p] \in RequestOps THEN tx[sock[p]] ELSE NoResponse

\* Back to the menu with the answer read.
Return(p) ==
  /\ ReadAnswer(sock[p])
  /\ pc' = [pc EXCEPT ![p] = "ready"]
  /\ UNCHANGED sock

\* setUserUUID with the UUID of the answer.
registered(p) == [user[p] EXCEPT !.uuid = answer(p).UUID]

\* 2100: me.info is written and the UUID set.
OnRegistered(p) ==
  /\ answer(p).op = "RESP_REGISTER_SUCCESSFULL"
  /\ user' = [user EXCEPT ![p] = registered(p)]
  /\ me_info' = [me_info EXCEPT ![p] = MeInfo(3, registered(p))]
  /\ Return(p)
  /\ UNCHANGED <<members, issued, shown>>

\* 2100, when me.info cannot be opened: throws, the user keeps no UUID.
OnRegisteredNoFile(p) ==
  /\ answer(p).op = "RESP_REGISTER_SUCCESSFULL"
  /\ Return(p)
  /\ UNCHANGED <<user, members, me_info, issued, shown>>

\* 2100, when the process ends while it writes me.info: some lines are there.
OnRegisteredCrash(p, lines) ==
  /\ answer(p).op = "RESP_REGISTER_SUCCESSFULL"
  /\ me_info' = [me_info EXCEPT ![p] =
                   MeInfo(lines, IF lines = 0 THEN NoUser ELSE registered(p))]
  /\ StopProcess(p)

\* 2101: the list is built anew; an empty one throws and changes nothing.
OnUserList(p) ==
  LET users == answer(p).users IN
  /\ answer(p).op = "RESP_USER_LIST"
  /\ members' =
       IF users = {} THEN members
       ELSE [members EXCEPT ![p] = [u \in {entry.ID : entry \in users} |->
                                      NewMember((CHOOSE entry \in users : entry.ID = u).UserName)]]
  /\ Return(p)
  /\ UNCHANGED <<user, me_info, issued, shown>>

\* 2102.
OnPublicKey(p) ==
  LET u == answer(p).UUID IN
  /\ answer(p).op = "RESP_PUBLIC_KEY"
  /\ members' = IF findUser(p, u)
                THEN [members EXCEPT ![p][u] = setPublic(@, answer(p).publicKey)]
                ELSE members
  /\ Return(p)
  /\ UNCHANGED <<user, me_info, issued, shown>>

\* 2103.
OnMessageSent(p) ==
  /\ answer(p).op = "RESP_MSG_SENT_TO_USER"
  /\ Return(p)
  /\ UNCHANGED <<user, members, me_info, issued, shown>>

\* Mutant: keeps the content as the key, undecrypted.
receivedSealed(p, data, message) ==
  CASE message.Type = "REQ_SYMMETRIC_KEY"  -> [data EXCEPT !.requested = TRUE]
    [] message.Type = "SEND_SYMMETRIC_KEY" -> [data EXCEPT !.symmetric_key = message.Content]
    [] OTHER -> data

\* What a message of a known sender does to the sender's entry.  A key that
\* cannot be decrypted, and every text and file, leaves it as it is.
received(p, data, message) ==
  CASE message.Type = "REQ_SYMMETRIC_KEY" /\ ~data.requested -> setRequested(data)
    [] message.Type = "SEND_SYMMETRIC_KEY" /\ decrypts(user[p].key, message.Content) ->
         setSymmetric(data, message.Content.key)
    [] OTHER -> data

\* 2104: the loop over the payload, which holds one message.  findUser throws
\* for a sender that is not in the member list.
OnWaitingMessages(p) ==
  LET message == answer(p).message IN
  /\ answer(p).op = "RESP_AWAITING_MESSAGES"
  /\ IF findUser(p, message.FromClient)
     THEN /\ members' = [members EXCEPT ![p][message.FromClient] = received(p, @, message)]
          /\ shown' = [shown EXCEPT ![p] = message.ID]
     ELSE UNCHANGED <<members, shown>>
  /\ Return(p)
  /\ UNCHANGED <<user, me_info, issued>>

\* 9000: after a request to register the user is cleared.
OnGeneralError(p) ==
  /\ answer(p).op = "RESP_GENERAL_ERROR"
  /\ user' = IF pc[p] = "REQ_REGISTER" THEN [user EXCEPT ![p] = NoUser] ELSE user
  /\ Return(p)
  /\ UNCHANGED <<members, me_info, issued, shown>>

\* read_some fails on a connection the server closed: back to the menu.
OnDisconnect(p) ==
  /\ pc[p] \in RequestOps
  /\ conn[sock[p]] = "closed"
  /\ tx[sock[p]] = NoResponse
  /\ pc' = [pc EXCEPT ![p] = "ready"]
  /\ UNCHANGED <<linkVars, sock, user, members, me_info, issued, shown>>

responseHandler(p) ==
  \/ OnRegistered(p)
  \/ OnRegisteredNoFile(p)
  \/ \E lines \in 0..2 : OnRegisteredCrash(p, lines)
  \/ OnUserList(p)
  \/ OnPublicKey(p)
  \/ OnMessageSent(p)
  \/ OnWaitingMessages(p)
  \/ OnGeneralError(p)
  \/ OnDisconnect(p)

ClientNext ==
  \E p \in Procs :
    \/ \E c \in Conns : Start(p, c) \/ FailedStart(p, c)
    \/ Exit(p)
    \/ messageHandler(p)
    \/ responseHandler(p)

=============================================================================
