----------------------------- MODULE AppProofs -----------------------------
(***************************************************************************)
(* Theorems about the composition, for every set of processes,             *)
(* connections, users, keys and messages.                                  *)
(***************************************************************************)
EXTENDS MessageApp, MailboxProofs

\* A connection without a client carries no answer, a free one nothing, and one
\* the server closed no request that is still to be answered.
LinkInv ==
  \A c \in Conns : /\ conn[c] \in {"free", "eof"} => tx[c] = NoResponse
                   /\ conn[c] = "free" => rx[c] = NoRequest
                   /\ conn[c] = "closed" /\ tx[c] = NoResponse => rx[c] = NoRequest

\* A running process has a connection of its own, and keeps it.
SocketInv ==
  \A p \in Procs : pc[p] # "off" =>
    /\ sock[p] \in Conns
    /\ conn[sock[p]] \in {"open", "closed"}
    /\ \A q \in Procs : pc[q] # "off" /\ sock[q] = sock[p] => q = p

\* What is on it is the request the process waits for.
RequestInv ==
  \A p \in Procs : pc[p] # "off" => rx[sock[p]] = NoRequest \/ rx[sock[p]].op = pc[p]

LinksInv == LinkInv /\ SocketInv /\ RequestInv

\* Who registers has set a user.
RegisterInv == \A p \in Procs : pc[p] = "REQ_REGISTER" => user[p] \in Users

ClientInv == ClientTypeOK /\ LinksInv /\ RegisterInv

AppInv == ServerTypeOK /\ AnswersTruthful /\ ClientInv

-----------------------------------------------------------------------------
(* Requests and responses. *)

LEMMA RequestTypes ==
  /\ \A name \in Names, key \in KeyPairs : RegisterReq(name, key) \in Requests
  /\ \A id \in ClientIDs : UserListReq(id) \in Requests /\ AwaitingReq(id) \in Requests
  /\ \A id \in ClientIDs, target \in UUIDs : PublicKeyReq(id, target) \in Requests
  /\ \A id \in ClientIDs, target \in UUIDs, type \in MessageTypes :
       \A content \in ContentsOf(type) : MessageReq(id, target, type, content) \in Requests
BY DEF Requests, MessageReqs

LEMMA RequestOp ==
  ASSUME NEW r \in Requests
  PROVE  r.op \in RequestOps /\ r # NoRequest
<1>1. CASE r \in MessageReqs
  <2>1. PICK type \in MessageTypes : \E id \in ClientIDs, target \in UUIDs :
          \E content \in ContentsOf(type) : r = MessageReq(id, target, type, content)
    BY <1>1 DEF MessageReqs
  <2>2. r.op = "REQ_MESSAGE_TO_USER"
    BY <2>1 DEF MessageReq
  <2> QED BY <2>2 DEF RequestOps, NoRequest
<1>2. CASE r \notin MessageReqs
  BY <1>2 DEF Requests, RegisterReq, UserListReq, PublicKeyReq, AwaitingReq, RequestOps, NoRequest
<1> QED BY <1>1, <1>2

LEMMA ResponseFields ==
  ASSUME NEW r \in Responses
  PROVE  /\ r.op = "RESP_REGISTER_SUCCESSFULL" => r.UUID \in UUIDs
         /\ r.op = "RESP_USER_LIST" => r.users \subseteq Members
         /\ r.op = "RESP_PUBLIC_KEY" => r.UUID \in UUIDs /\ r.publicKey \in KeyPairs
         /\ r.op = "RESP_AWAITING_MESSAGES" => r.message \in WaitingMessages
BY DEF Responses, RegisterResp, UserListResp, PublicKeyResp, MessageSentResp, AwaitingResp,
   GeneralError

-----------------------------------------------------------------------------
(* What a step of a client does to the connections. *)

\* It is one of the things any client may do, or nothing.
LinkStep ==
  \/ UNCHANGED linkVars
  \/ \E c \in Conns : \/ Connect(c)
                      \/ ConnectAndLeave(c)
                      \/ \E r \in Requests : SendRequest(c, r)
                      \/ ReadAnswer(c)
                      \/ Drop(c)

LEMMA ConnectLinks ==
  ASSUME LinkTypeOK, ClientTypeOK, LinksInv, NEW p \in Procs, NEW c \in Conns,
         pc[p] = "off", Connect(c), pc' = [pc EXCEPT ![p] = "ready"],
         sock' = [sock EXCEPT ![p] = c]
  PROVE  LinksInv' /\ LinkStep
<1> USE DEF LinkTypeOK, ClientTypeOK, LinksInv, Connect
<1>1. LinkInv'
  BY DEF LinkInv
<1>2. SocketInv'
  BY DEF LinkInv, SocketInv
<1>3. RequestInv'
  BY DEF LinkInv, SocketInv, RequestInv
<1> QED BY <1>1, <1>2, <1>3 DEF LinkStep

LEMMA SendLinks ==
  ASSUME LinkTypeOK, ClientTypeOK, LinksInv, NEW p \in Procs, NEW r \in Requests,
         pc[p] = "ready", Send(p, r), UNCHANGED sock
  PROVE  /\ LinksInv' /\ LinkStep
         /\ pc' \in [Procs -> {"off", "ready"} \cup RequestOps]
         /\ pc' = pc \/ pc' = [pc EXCEPT ![p] = r.op]
<1>1. r.op \in RequestOps /\ r.op # "off"
  BY RequestOp DEF RequestOps
<1>2. sock[p] \in Conns
  BY DEF LinksInv, SocketInv
<1>3. CASE SendRequest(sock[p], r) /\ pc' = [pc EXCEPT ![p] = r.op]
  <2> USE <1>1, <1>2, <1>3 DEF LinkTypeOK, ClientTypeOK, LinksInv, SendRequest
  <2>1. LinkInv'
    BY DEF LinkInv
  <2>2. SocketInv'
    BY DEF SocketInv
  <2>3. RequestInv'
    BY DEF SocketInv, RequestInv
  <2>4. LinkStep
    BY DEF LinkStep
  <2> QED BY <2>1, <2>2, <2>3, <2>4
<1>4. CASE UNCHANGED <<linkVars, pc>>
  BY <1>4 DEF linkVars, LinksInv, LinkInv, SocketInv, RequestInv, LinkStep, ClientTypeOK
<1> QED BY <1>3, <1>4 DEF Send

LEMMA ReturnLinks ==
  ASSUME LinkTypeOK, ClientTypeOK, LinksInv, NEW p \in Procs, pc[p] \in RequestOps, Return(p)
  PROVE  /\ LinksInv' /\ LinkStep
         /\ pc' = [pc EXCEPT ![p] = "ready"]
         /\ pc' \in [Procs -> {"off", "ready"} \cup RequestOps]
<1> USE DEF LinkTypeOK, ClientTypeOK, LinksInv, Return, ReadAnswer
<1>1. pc[p] # "off" /\ sock[p] \in Conns
  BY DEF SocketInv, RequestOps
<1>2. LinkInv'
  BY DEF LinkInv
<1>3. SocketInv'
  BY <1>1 DEF SocketInv
<1>4. RequestInv'
  BY <1>1 DEF SocketInv, RequestInv
<1>5. LinkStep
  <2> USE <1>1
  <2>1. ReadAnswer(sock[p])
    OBVIOUS
  <2> HIDE DEF ReadAnswer
  <2> QED BY <2>1 DEF LinkStep
<1>6. /\ pc' = [pc EXCEPT ![p] = "ready"]
      /\ pc' \in [Procs -> {"off", "ready"} \cup RequestOps]
  OBVIOUS
<1> QED BY <1>2, <1>3, <1>4, <1>5, <1>6

LEMMA StopLinks ==
  ASSUME LinkTypeOK, ClientTypeOK, LinksInv, NEW p \in Procs, pc[p] # "off", StopProcess(p)
  PROVE  LinksInv' /\ LinkStep
<1> USE DEF LinkTypeOK, ClientTypeOK, LinksInv, StopProcess, Drop
<1>1. sock[p] \in Conns
  BY DEF SocketInv
<1>2. LinkInv'
  BY <1>1 DEF LinkInv, Readable
<1>3. SocketInv'
  BY <1>1 DEF SocketInv
<1>4. RequestInv'
  BY <1>1 DEF SocketInv, RequestInv
<1> QED BY <1>1, <1>2, <1>3, <1>4 DEF LinkStep

-----------------------------------------------------------------------------
(* The member lists. *)

\* A list with one entry replaced is a list.
LEMMA ReplaceMember ==
  ASSUME members \in [Procs -> MemberLists], NEW p \in Procs, NEW u \in DOMAIN members[p],
         NEW data \in MemberData
  PROVE  [members EXCEPT ![p] = [members[p] EXCEPT ![u] = data]] \in [Procs -> MemberLists]
<1>1. PICK ids \in SUBSET UUIDs : members[p] \in [ids -> MemberData]
  BY DEF MemberLists
<1>2. [members[p] EXCEPT ![u] = data] \in [ids -> MemberData]
  BY <1>1
<1>3. [members[p] EXCEPT ![u] = data] \in MemberLists
  BY <1>2 DEF MemberLists
<1> QED BY <1>3

\* What an entry is.
LEMMA MemberEntry ==
  ASSUME members \in [Procs -> MemberLists], NEW p \in Procs, NEW u \in DOMAIN members[p]
  PROVE  u \in UUIDs /\ members[p][u] \in MemberData
<1>1. PICK ids \in SUBSET UUIDs : members[p] \in [ids -> MemberData]
  BY DEF MemberLists
<1> QED BY <1>1

\* The list built from an answer.
LEMMA NewList ==
  ASSUME NEW users \in SUBSET Members
  PROVE  [u \in {x.ID : x \in users} |->
            NewMember((CHOOSE x \in users : x.ID = u).UserName)] \in MemberLists
<1> DEFINE ids == {x.ID : x \in users}
           name(u) == (CHOOSE x \in users : x.ID = u).UserName
<1>1. ids \in SUBSET UUIDs
  BY DEF Members
<1>2. \A u \in ids : name(u) \in Names
  <2> SUFFICES ASSUME NEW u \in ids PROVE name(u) \in Names
    OBVIOUS
  <2>1. (CHOOSE x \in users : x.ID = u) \in users
    OBVIOUS
  <2> QED BY <2>1 DEF Members
<1>3. \A u \in ids : NewMember(name(u)) \in MemberData
  BY <1>2 DEF NewMember, MemberData
<1> HIDE DEF ids, name
<1>4. [u \in ids |-> NewMember(name(u))] \in [ids -> MemberData]
  BY <1>3
<1>5. [u \in ids |-> NewMember(name(u))] \in MemberLists
  BY <1>1, <1>4 DEF MemberLists
<1> QED BY <1>5 DEF ids, name

LEMMA ReceivedType ==
  ASSUME NEW p, NEW data \in MemberData, NEW message \in WaitingMessages
  PROVE  received(p, data, message) \in MemberData
<1>1. CASE message.Type = "SEND_SYMMETRIC_KEY"
  <2>1. message.Content \in {Rsa(pub, key) : pub \in KeyPairs, key \in SymKeys}
    BY <1>1 DEF WaitingMessages, ContentsOf
  <2>2. message.Content.key \in SymKeys
    BY <2>1 DEF Rsa
  <2> QED BY <1>1, <2>2 DEF received, setSymmetric, MemberData
<1>2. CASE message.Type # "SEND_SYMMETRIC_KEY"
  BY <1>2 DEF received, setRequested, MemberData
<1> QED BY <1>1, <1>2

-----------------------------------------------------------------------------
(* The steps of a client. *)

LEMMA StartStep ==
  ASSUME ServerTypeOK, ClientInv, NEW p \in Procs, NEW c \in Conns, Start(p, c)
  PROVE  ClientInv' /\ LinkStep
<1> USE DEF ServerTypeOK, ClientInv, Start
<1>1. LinksInv' /\ LinkStep
  BY ConnectLinks
<1>2. me_info[p].user \in Users \cup {NoUser}
  BY DEF ClientTypeOK, MeInfo
<1>3. ClientTypeOK'
  BY <1>2 DEF ClientTypeOK
<1>4. RegisterInv'
  BY DEF RegisterInv, ClientTypeOK
<1> QED BY <1>1, <1>3, <1>4

LEMMA FailedStartStep ==
  ASSUME ServerTypeOK, ClientInv, NEW p \in Procs, NEW c \in Conns, FailedStart(p, c)
  PROVE  ClientInv' /\ LinkStep
<1> USE DEF ServerTypeOK, LinkTypeOK, ClientInv, FailedStart, ConnectAndLeave, clientVars
<1>1. ClientTypeOK' /\ RegisterInv'
  BY DEF ClientTypeOK, RegisterInv
<1>2. LinkInv'
  BY DEF LinksInv, LinkInv
<1>3. SocketInv' /\ RequestInv'
  BY DEF LinksInv, LinkInv, SocketInv, RequestInv
<1>4. LinkStep
  <2>1. ConnectAndLeave(c)
    OBVIOUS
  <2> HIDE DEF ConnectAndLeave
  <2> QED BY <2>1 DEF LinkStep
<1> QED BY <1>1, <1>2, <1>3, <1>4 DEF LinksInv

\* What me.info can hold.
Files == {MeInfo(lines, whose) : lines \in 0..3, whose \in Users \cup {NoUser}}

\* The end of a process, with any me.info left behind.
LEMMA StopStep ==
  ASSUME ServerTypeOK, ClientInv, NEW p \in Procs, pc[p] # "off", StopProcess(p),
         me_info' \in [Procs -> Files]
  PROVE  ClientInv' /\ LinkStep
<1> USE DEF ServerTypeOK, ClientInv
<1>1. LinksInv' /\ LinkStep
  BY StopLinks
<1>2. NoMembers \in MemberLists
  <2>1. NoMembers \in [{} -> MemberData]
    BY DEF NoMembers
  <2> QED BY <2>1 DEF MemberLists
<1>3. 0 \in 0..MaxRowId
  BY ProtocolAssumption
<1>4. ClientTypeOK'
  <2> USE DEF ClientTypeOK, StopProcess, Files
  <2>1. members' \in [Procs -> MemberLists]
    BY <1>2
  <2>2. /\ pc' \in [Procs -> {"off", "ready"} \cup RequestOps]
        /\ sock' \in [Procs -> Conns \cup {NoConn}]
        /\ user' \in [Procs -> Users \cup {NoUser}]
    OBVIOUS
  <2>3. shown' \in [Procs -> 0..MaxRowId]
    BY <1>3
  <2> QED BY <2>1, <2>2, <2>3
<1>5. RegisterInv'
  BY DEF RegisterInv, ClientTypeOK, StopProcess
<1> QED BY <1>1, <1>4, <1>5

-----------------------------------------------------------------------------
(* messageHandler. *)

\* A user that has signed in or begun to register.
LEMMA UserFields ==
  ASSUME ClientTypeOK, NEW p \in Procs, hasUser(p)
  PROVE  user[p] \in Users /\ user[p].uuid \in ClientIDs /\ user[p].key \in KeyPairs
BY DEF ClientTypeOK, hasUser, Users, User

\* A choice of a signed-in user that sends a request and may change the list.
LEMMA SendStep ==
  ASSUME ServerTypeOK, ClientInv, NEW p \in Procs, NEW r \in Requests, pc[p] = "ready",
         Send(p, r), UNCHANGED <<sock, user, me_info, shown>>,
         r.op # "REQ_REGISTER",
         members' \in [Procs -> MemberLists], issued' \subseteq KeyPairs \cup SymKeys
  PROVE  ClientInv' /\ LinkStep
<1> USE DEF ServerTypeOK, ClientInv
<1>1. /\ LinksInv' /\ LinkStep
      /\ pc' \in [Procs -> {"off", "ready"} \cup RequestOps]
      /\ pc' = pc \/ pc' = [pc EXCEPT ![p] = r.op]
  BY SendLinks
<1>2. ClientTypeOK'
  BY <1>1 DEF ClientTypeOK
<1>3. RegisterInv'
  BY <1>1 DEF RegisterInv, ClientTypeOK
<1> QED BY <1>1, <1>2, <1>3

LEMMA RegisterStep ==
  ASSUME ServerTypeOK, ClientInv, NEW p \in Procs, NEW name \in Names, NEW key \in KeyPairs,
         Register(p, name, key)
  PROVE  ClientInv' /\ LinkStep
<1> DEFINE r == RegisterReq(name, key)
           new == User(name, UnsetUUID, key)
<1>1. /\ pc[p] = "ready" /\ Send(p, r)
      /\ user' = [user EXCEPT ![p] = new]
      /\ UNCHANGED <<sock, members, me_info, shown>>
      /\ issued' = issued \cup {key}
  BY DEF Register, RSAPrivateWrapper, generated
<1>2. r \in Requests /\ new \in Users
  BY RequestTypes DEF Users, ClientIDs
<1> HIDE DEF r, new
<1>3. /\ LinksInv' /\ LinkStep
      /\ pc' \in [Procs -> {"off", "ready"} \cup RequestOps]
      /\ pc' = pc \/ pc' = [pc EXCEPT ![p] = r.op]
  BY <1>1, <1>2, SendLinks DEF ServerTypeOK, ClientInv
<1>4. /\ pc \in [Procs -> {"off", "ready"} \cup RequestOps]
      /\ user \in [Procs -> Users \cup {NoUser}]
      /\ \A q \in Procs : pc[q] = "REQ_REGISTER" => user[q] \in Users
  BY DEF ClientInv, ClientTypeOK, RegisterInv
<1>5. user' \in [Procs -> Users \cup {NoUser}]
  BY <1>1, <1>2, <1>4
<1>6. ClientTypeOK'
  <2>1. issued' \subseteq KeyPairs \cup SymKeys
    BY <1>1 DEF ClientInv, ClientTypeOK
  <2> QED BY <1>1, <1>3, <1>5, <2>1 DEF ClientInv, ClientTypeOK
<1>7. ASSUME NEW q \in Procs, pc'[q] = "REQ_REGISTER" PROVE user'[q] \in Users
  <2>1. CASE q = p
    BY <1>1, <1>2, <1>4, <2>1
  <2>2. CASE q # p
    <3>1. pc'[q] = pc[q] /\ user'[q] = user[q]
      BY <1>1, <1>3, <1>4, <2>2
    <3> QED BY <1>4, <1>7, <3>1
  <2> QED BY <2>1, <2>2
<1>8. RegisterInv'
  BY <1>7 DEF RegisterInv
<1> QED BY <1>3, <1>6, <1>8 DEF ClientInv

LEMMA MessageHandlerStep ==
  ASSUME ServerTypeOK, ClientInv, NEW p \in Procs, messageHandler(p)
  PROVE  ClientInv' /\ LinkStep
<1> USE DEF ClientInv
<1>0. members \in [Procs -> MemberLists] /\ issued \subseteq KeyPairs \cup SymKeys
  BY DEF ClientTypeOK
<1>1. CASE RequestUserList(p)
  <2>1. UserListReq(user[p].uuid) \in Requests /\ UserListReq(user[p].uuid).op # "REQ_REGISTER"
    BY <1>1, UserFields, RequestTypes DEF RequestUserList, UserListReq
  <2> QED BY <1>0, <1>1, <2>1, SendStep DEF RequestUserList
<1>2. CASE PullMessages(p)
  <2>1. AwaitingReq(user[p].uuid) \in Requests /\ AwaitingReq(user[p].uuid).op # "REQ_REGISTER"
    BY <1>2, UserFields, RequestTypes DEF PullMessages, AwaitingReq
  <2> QED BY <1>0, <1>2, <2>1, SendStep DEF PullMessages
<1>3. ASSUME NEW u \in UUIDs, RequestPublicKey(p, u) PROVE ClientInv' /\ LinkStep
  <2>1. /\ PublicKeyReq(user[p].uuid, u) \in Requests
        /\ PublicKeyReq(user[p].uuid, u).op # "REQ_REGISTER"
    BY <1>3, UserFields, RequestTypes DEF RequestPublicKey, getMember, PublicKeyReq
  <2> QED BY <1>0, <1>3, <2>1, SendStep DEF RequestPublicKey, getMember
<1>4. ASSUME NEW u \in UUIDs, NEW type \in MessageTypes, NEW content \in ContentsOf(type),
             getMember(p, u), Send(p, MessageReq(user[p].uuid, u, type, content)),
             UNCHANGED <<sock, user, me_info, shown>>,
             members' \in [Procs -> MemberLists], issued' \subseteq KeyPairs \cup SymKeys
      PROVE  ClientInv' /\ LinkStep
  <2>1. /\ MessageReq(user[p].uuid, u, type, content) \in Requests
        /\ MessageReq(user[p].uuid, u, type, content).op # "REQ_REGISTER"
    BY <1>4, UserFields, RequestTypes DEF getMember, MessageReq
  <2> QED BY <1>4, <2>1, SendStep DEF getMember
<1>5. ASSUME NEW u \in UUIDs, "REQ_SYMMETRIC_KEY" \in MessageTypes, RequestSymmetricKey(p, u)
      PROVE  ClientInv' /\ LinkStep
  <2>1. NoContent \in ContentsOf("REQ_SYMMETRIC_KEY")
    BY DEF ContentsOf
  <2> QED BY <1>0, <1>4, <1>5, <2>1 DEF RequestSymmetricKey
<1>6. ASSUME NEW u \in UUIDs, NEW key \in SymKeys, "SEND_SYMMETRIC_KEY" \in MessageTypes,
             SendSymmetricKey(p, u, key)
      PROVE  ClientInv' /\ LinkStep
  <2>1. members[p][u] \in MemberData /\ u \in DOMAIN members[p]
    BY <1>0, <1>6, MemberEntry DEF SendSymmetricKey, getMember
  <2>2. Rsa(members[p][u].public_key, key) \in ContentsOf("SEND_SYMMETRIC_KEY")
    BY <1>6, <2>1 DEF ContentsOf, SendSymmetricKey, MemberData
  <2>3. setSymmetric(members[p][u], key) \in MemberData
    BY <2>1 DEF setSymmetric, MemberData
  <2>4. members' = [members EXCEPT ![p] =
                      [members[p] EXCEPT ![u] = setSymmetric(members[p][u], key)]]
    BY <1>6 DEF SendSymmetricKey
  <2>5. members' \in [Procs -> MemberLists]
    BY <1>0, <2>1, <2>3, <2>4, ReplaceMember
  <2>6. issued' \subseteq KeyPairs \cup SymKeys
    BY <1>0, <1>6 DEF SendSymmetricKey, AESWrapper, generated
  <2> QED BY <1>4, <1>6, <2>2, <2>5, <2>6 DEF SendSymmetricKey
<1>7. ASSUME NEW u \in UUIDs, NEW type \in MessageTypes \cap {"SEND_TEXT_MSG", "SEND_FILE"},
             SendEncrypted(p, u, type)
      PROVE  ClientInv' /\ LinkStep
  <2>1. members[p][u] \in MemberData
    BY <1>0, <1>7, MemberEntry DEF SendEncrypted, getMember
  <2>2. Aes(members[p][u].symmetric_key) \in ContentsOf(type)
    BY <1>7, <2>1 DEF ContentsOf, SendEncrypted, MemberData
  <2> QED BY <1>0, <1>4, <1>7, <2>2 DEF SendEncrypted
<1> QED BY <1>1, <1>2, <1>3, <1>5, <1>6, <1>7, RegisterStep DEF messageHandler

-----------------------------------------------------------------------------
(* responseHandler. *)

\* A process that has an answer waits for one, and the answer is a response.
LEMMA AnswerTypes ==
  ASSUME ServerTypeOK, ClientInv, NEW p \in Procs, answer(p).op # "NONE"
  PROVE  /\ pc[p] \in RequestOps /\ sock[p] \in Conns
         /\ answer(p) = tx[sock[p]] /\ answer(p) \in Responses
<1>1. pc[p] \in RequestOps /\ answer(p) = tx[sock[p]] /\ tx[sock[p]] # NoResponse
  BY DEF answer, NoResponse
<1>2. sock[p] \in Conns
  BY <1>1 DEF ClientInv, LinksInv, SocketInv, RequestOps
<1> QED BY <1>1, <1>2 DEF ServerTypeOK, LinkTypeOK

\* A UUID comes to those who asked for one.
LEMMA RegistersWhenRegistered ==
  ASSUME AppInv, NEW p \in Procs, answer(p).op = "RESP_REGISTER_SUCCESSFULL"
  PROVE  user[p] \in Users /\ registered(p) \in Users
<1>1. /\ pc[p] \in RequestOps /\ sock[p] \in Conns
      /\ answer(p) = tx[sock[p]] /\ answer(p) \in Responses
  BY AnswerTypes DEF AppInv
<1>2. rx[sock[p]].op = "REQ_REGISTER"
  <2>1. tx[sock[p]] # NoResponse
    BY <1>1 DEF NoResponse
  <2>2. Truthful(rx[sock[p]], tx[sock[p]])
    BY <1>1, <2>1 DEF AppInv, AnswersTruthful
  <2> QED BY <1>1, <2>2 DEF Truthful
<1>3. pc[p] = "REQ_REGISTER"
  BY <1>1, <1>2 DEF AppInv, ClientInv, LinksInv, RequestInv, RequestOps, NoRequest
<1>4. user[p] \in Users
  BY <1>3 DEF AppInv, ClientInv, RegisterInv
<1>5. PICK name \in Names, uuid \in ClientIDs, key \in KeyPairs : user[p] = User(name, uuid, key)
  BY <1>4 DEF Users
<1>6. answer(p).UUID \in ClientIDs
  BY <1>1, ResponseFields DEF ClientIDs
<1>7. registered(p) = User(name, answer(p).UUID, key)
  BY <1>5 DEF registered, User
<1>8. registered(p) \in Users
  BY <1>6, <1>7 DEF Users
<1> QED BY <1>4, <1>8

\* Back to the menu, with what the answer changed.
LEMMA ReturnStep ==
  ASSUME ServerTypeOK, ClientInv, NEW p \in Procs, pc[p] \in RequestOps, Return(p),
         user' \in [Procs -> Users \cup {NoUser}],
         \A q \in Procs : q # p => user'[q] = user[q],
         members' \in [Procs -> MemberLists],
         me_info' \in [Procs -> Files],
         UNCHANGED issued, shown' \in [Procs -> 0..MaxRowId]
  PROVE  ClientInv' /\ LinkStep
<1>1. /\ LinksInv' /\ LinkStep
      /\ pc' = [pc EXCEPT ![p] = "ready"]
      /\ pc' \in [Procs -> {"off", "ready"} \cup RequestOps]
  BY ReturnLinks DEF ServerTypeOK, ClientInv
<1>2. ClientTypeOK'
  BY <1>1 DEF Return, ClientInv, ClientTypeOK, Files
<1>3. RegisterInv'
  BY <1>1 DEF RegisterInv, ClientInv, ClientTypeOK
<1> QED BY <1>1, <1>2, <1>3 DEF ClientInv

LEMMA ResponseHandlerStep ==
  ASSUME AppInv, NEW p \in Procs, responseHandler(p)
  PROVE  ClientInv' /\ LinkStep
<1> USE DEF AppInv
<1>0. /\ user \in [Procs -> Users \cup {NoUser}]
      /\ members \in [Procs -> MemberLists]
      /\ me_info \in [Procs -> Files]
      /\ shown \in [Procs -> 0..MaxRowId]
  BY DEF ClientInv, ClientTypeOK, Files
<1>1. ASSUME answer(p).op # "NONE", Return(p), UNCHANGED <<user, me_info, issued>>,
             members' \in [Procs -> MemberLists], shown' \in [Procs -> 0..MaxRowId]
      PROVE  ClientInv' /\ LinkStep
  BY <1>0, <1>1, AnswerTypes, ReturnStep
<1>2. CASE OnRegistered(p)
  <2>1. pc[p] \in RequestOps /\ registered(p) \in Users
    BY <1>2, AnswerTypes, RegistersWhenRegistered DEF OnRegistered
  <2>2. me_info' \in [Procs -> Files]
    <3>1. MeInfo(3, registered(p)) \in Files
      BY <2>1 DEF Files
    <3> QED BY <1>0, <1>2, <3>1 DEF OnRegistered
  <2>3. /\ user' \in [Procs -> Users \cup {NoUser}]
        /\ \A q \in Procs : q # p => user'[q] = user[q]
    BY <1>0, <1>2, <2>1 DEF OnRegistered
  <2> QED BY <1>0, <1>2, <2>1, <2>2, <2>3, ReturnStep DEF OnRegistered
<1>3. CASE OnRegisteredNoFile(p) \/ OnMessageSent(p)
  BY <1>0, <1>1, <1>3 DEF OnRegisteredNoFile, OnMessageSent
<1>4. ASSUME NEW lines \in 0..2, OnRegisteredCrash(p, lines) PROVE ClientInv' /\ LinkStep
  <2>1. pc[p] # "off" /\ registered(p) \in Users
    BY <1>4, AnswerTypes, RegistersWhenRegistered DEF OnRegisteredCrash, RequestOps
  <2>2. (IF lines = 0 THEN NoUser ELSE registered(p)) \in Users \cup {NoUser} /\ lines \in 0..3
    BY <2>1
  <2>3. me_info' \in [Procs -> Files]
    <3>1. MeInfo(lines, IF lines = 0 THEN NoUser ELSE registered(p)) \in Files
      BY <2>2 DEF Files
    <3> QED BY <1>0, <1>4, <3>1 DEF OnRegisteredCrash
  <2> QED BY <1>4, <2>1, <2>3, StopStep DEF OnRegisteredCrash
<1>5. CASE OnUserList(p)
  <2> DEFINE users == answer(p).users
             list == [u \in {x.ID : x \in users} |->
                        NewMember((CHOOSE x \in users : x.ID = u).UserName)]
  <2>1. users \in SUBSET Members
    BY <1>5, AnswerTypes, ResponseFields DEF OnUserList
  <2>2. list \in MemberLists
    BY <2>1, NewList
  <2>3. members' = members \/ members' = [members EXCEPT ![p] = list]
    BY <1>5 DEF OnUserList
  <2> HIDE DEF list
  <2>4. members' \in [Procs -> MemberLists]
    BY <1>0, <2>2, <2>3
  <2> QED BY <1>0, <1>1, <1>5, <2>4 DEF OnUserList
<1>6. CASE OnPublicKey(p)
  <2> DEFINE u == answer(p).UUID
             data == setPublic(members[p][u], answer(p).publicKey)
  <2>1. CASE findUser(p, u)
    <3>1. answer(p).publicKey \in KeyPairs
      BY <1>6, AnswerTypes, ResponseFields DEF OnPublicKey
    <3>2. u \in DOMAIN members[p] /\ members[p][u] \in MemberData
      BY <1>0, <2>1, MemberEntry DEF findUser
    <3>3. data \in MemberData
      BY <3>1, <3>2 DEF setPublic, MemberData
    <3>4. members' = [members EXCEPT ![p] = [members[p] EXCEPT ![u] = data]]
      <4>1. members' = [members EXCEPT ![p][u] = setPublic(@, answer(p).publicKey)]
        BY <1>6, <2>1 DEF OnPublicKey
      <4> QED BY <4>1
    <3> HIDE DEF data, u
    <3>5. members' \in [Procs -> MemberLists]
      BY <1>0, <3>2, <3>3, <3>4, ReplaceMember
    <3> QED BY <1>0, <1>1, <1>6, <3>5 DEF OnPublicKey
  <2>2. CASE ~findUser(p, u)
    BY <1>0, <1>1, <1>6, <2>2 DEF OnPublicKey
  <2> QED BY <2>1, <2>2
<1>7. CASE OnWaitingMessages(p)
  <2> DEFINE message == answer(p).message
             u == message.FromClient
             data == received(p, members[p][u], message)
  <2>1. message \in WaitingMessages
    BY <1>7, AnswerTypes, ResponseFields DEF OnWaitingMessages
  <2>2. CASE findUser(p, u)
    <3>1. u \in DOMAIN members[p] /\ members[p][u] \in MemberData
      BY <1>0, <2>2, MemberEntry DEF findUser
    <3>2. data \in MemberData
      BY <2>1, <3>1, ReceivedType
    <3>3. members' = [members EXCEPT ![p] = [members[p] EXCEPT ![u] = data]]
      <4>1. members' = [members EXCEPT ![p][u] = received(p, @, message)]
        BY <1>7, <2>2 DEF OnWaitingMessages
      <4> QED BY <4>1
    <3>4. message.ID \in 0..MaxRowId
      BY <2>1, ProtocolAssumption DEF WaitingMessages
    <3>5. shown' = [shown EXCEPT ![p] = message.ID]
      BY <1>7, <2>2 DEF OnWaitingMessages
    <3> HIDE DEF data, u, message
    <3>6. members' \in [Procs -> MemberLists] /\ shown' \in [Procs -> 0..MaxRowId]
      BY <1>0, <3>1, <3>2, <3>3, <3>4, <3>5, ReplaceMember
    <3> QED BY <1>1, <1>7, <3>6 DEF OnWaitingMessages
  <2>3. CASE ~findUser(p, u)
    BY <1>0, <1>1, <1>7, <2>3 DEF OnWaitingMessages
  <2> QED BY <2>2, <2>3
<1>8. CASE OnGeneralError(p)
  <2>1. /\ user' \in [Procs -> Users \cup {NoUser}]
        /\ \A q \in Procs : q # p => user'[q] = user[q]
    <3>1. user' = user \/ user' = [user EXCEPT ![p] = NoUser]
      BY <1>8 DEF OnGeneralError
    <3> QED BY <1>0, <3>1
  <2>2. pc[p] \in RequestOps
    BY <1>8, AnswerTypes DEF OnGeneralError
  <2> QED BY <1>0, <1>8, <2>1, <2>2, ReturnStep DEF OnGeneralError
<1>9. CASE OnDisconnect(p)
  <2>1. pc' = [pc EXCEPT ![p] = "ready"] /\ pc[p] # "off"
    BY <1>9 DEF OnDisconnect, RequestOps
  <2>2. ClientTypeOK'
    BY <1>9, <2>1 DEF OnDisconnect, ClientInv, ClientTypeOK
  <2>3. LinkInv' /\ LinkStep
    BY <1>9 DEF OnDisconnect, linkVars, ClientInv, LinksInv, LinkInv, LinkStep
  <2>4. SocketInv'
    BY <1>9, <2>1 DEF OnDisconnect, linkVars, ClientInv, ClientTypeOK, LinksInv, SocketInv
  <2>5. rx[sock[p]] = NoRequest
    BY <1>9, <2>1 DEF OnDisconnect, ClientInv, LinksInv, LinkInv, SocketInv
  <2>6. RequestInv' /\ RegisterInv'
    BY <1>9, <2>1, <2>5 DEF OnDisconnect, linkVars, ClientInv, ClientTypeOK, LinksInv,
       RequestInv, RegisterInv
  <2> QED BY <2>2, <2>3, <2>4, <2>6 DEF ClientInv, LinksInv
<1> QED BY <1>2, <1>3, <1>4, <1>5, <1>6, <1>7, <1>8, <1>9 DEF responseHandler

-----------------------------------------------------------------------------
(* The steps of the server, and the theorems. *)

\* The server opens no connection, takes none over, and puts no request on one.
ServerTouches ==
  \A c \in Conns : /\ conn[c] \in {"open", "closed"} => conn'[c] \in {"open", "closed"}
                   /\ rx'[c] \in {rx[c], NoRequest}

LEMMA HandlerTouches ==
  ASSUME ServerTypeOK, LinkInv, NEW c \in Conns, handle_client(c)
  PROVE  LinkInv' /\ ServerTouches
<1> USE DEF ServerTypeOK, LinkTypeOK
<1>1. ASSUME Readable(c), \E response : SendAll(c, response)
      PROVE  LinkInv' /\ ServerTouches
  BY <1>1 DEF Readable, SendAll, LinkInv, ServerTouches
<1>2. ASSUME Readable(c), flushRaises(c)
      PROVE  LinkInv' /\ ServerTouches
  <2>1. CASE conn[c] = "open"
    BY <1>2, <2>1 DEF flushRaises, Readable, DisconnectClient, LinkInv, ServerTouches
  <2>2. CASE conn[c] # "open"
    BY <1>1, <1>2, <2>2 DEF flushRaises
  <2> QED BY <2>1, <2>2
<1>3. CASE Unregister(c)
  BY <1>3 DEF Unregister, LinkInv, ServerTouches
<1>4. ASSUME handle_request(c)
      PROVE  Readable(c) /\ (flushRaises(c) \/ \E response : SendAll(c, response))
  <2>1. CASE registerRequest(c)
    BY <2>1 DEF registerRequest, registerRaises, sendGeneralError
  <2>2. CASE userlistRequest(c) \/ publicKeyRequest(c) \/ collectMsgsRequest(c)
    BY <2>2 DEF userlistRequest, publicKeyRequest, collectMsgsRequest
  <2>3. CASE messageToUserRequest(c)
    BY <2>3 DEF messageToUserRequest, sendGeneralError
  <2> QED BY <1>4, <2>1, <2>2, <2>3 DEF handle_request
<1> QED BY <1>1, <1>2, <1>3, <1>4 DEF handle_client

LEMMA RestartTouches ==
  ASSUME ServerTypeOK, LinkInv, Restart
  PROVE  LinkInv' /\ ServerTouches
<1>1. PICK lost \in SUBSET Conns :
        /\ tx' = [c \in Conns |-> IF c \in lost THEN NoResponse ELSE tx[c]]
        /\ rx' = [c \in Conns |-> IF tx'[c] = NoResponse THEN NoRequest ELSE rx[c]]
  BY DEF Restart
<1>2. \A c \in Conns : conn'[c] = CASE conn[c] = "open" -> "closed"
                                    [] conn[c] = "eof"  -> "free"
                                    [] OTHER            -> conn[c]
  BY DEF Restart
<1> QED BY <1>1, <1>2 DEF ServerTypeOK, LinkTypeOK, LinkInv, ServerTouches

LEMMA ServerKeepsClientInv ==
  ASSUME ServerTypeOK, ClientInv, ServerSteps
  PROVE  ClientInv'
<1>1. LinkInv' /\ ServerTouches
  BY HandlerTouches, RestartTouches DEF ServerSteps, ClientInv, LinksInv
<1>2. UNCHANGED clientVars
  BY DEF ServerSteps
<1>3. ClientTypeOK' /\ RegisterInv'
  BY <1>2 DEF clientVars, ClientInv, ClientTypeOK, RegisterInv
<1>4. SocketInv' /\ RequestInv'
  BY <1>1, <1>2 DEF clientVars, ServerTouches, ClientInv, LinksInv, SocketInv, RequestInv
<1> QED BY <1>1, <1>3, <1>4 DEF ClientInv, LinksInv

LEMMA ClientSide ==
  ASSUME AppInv, ClientSteps
  PROVE  ClientInv' /\ [ServerNext]_serverVars
<1>1. ASSUME NEW p \in Procs, NEW c \in Conns, Start(p, c) \/ FailedStart(p, c)
      PROVE  ClientInv' /\ LinkStep
  BY <1>1, StartStep, FailedStartStep DEF AppInv
<1>2. ASSUME NEW p \in Procs, Exit(p) PROVE ClientInv' /\ LinkStep
  <2>1. me_info' \in [Procs -> Files]
    BY <1>2 DEF Exit, AppInv, ClientInv, ClientTypeOK, Files
  <2> QED BY <1>2, <2>1, StopStep DEF Exit, AppInv
<1>3. ASSUME NEW p \in Procs, messageHandler(p) \/ responseHandler(p)
      PROVE  ClientInv' /\ LinkStep
  BY <1>3, MessageHandlerStep, ResponseHandlerStep DEF AppInv
<1>4. ClientInv' /\ LinkStep /\ UNCHANGED dbVars
  BY <1>1, <1>2, <1>3 DEF ClientSteps, ClientNext
<1>5. UNCHANGED serverVars \/ \E c \in Conns : ClientEnd(c)
  BY <1>4 DEF LinkStep, ClientEnd, linkVars, dbVars, serverVars
<1> QED BY <1>4, <1>5 DEF ServerNext

LEMMA AppStep ==
  ASSUME AppInv, [Next]_vars
  PROVE  AppInv' /\ [ServerNext]_serverVars
<1>1. ClientInv' /\ [ServerNext]_serverVars
  <2>1. CASE UNCHANGED vars
    BY <2>1 DEF vars, serverVars, clientVars, AppInv, ClientInv, ClientTypeOK, LinksInv, LinkInv,
       SocketInv, RequestInv, RegisterInv
  <2>2. CASE ServerSteps
    BY <2>2, ServerKeepsClientInv DEF AppInv, ServerSteps, ServerNext
  <2>3. CASE ClientSteps
    BY <2>3, ClientSide
  <2> QED BY <2>1, <2>2, <2>3 DEF Next
<1>2. ServerTypeOK' /\ AnswersTruthful'
  BY <1>1, ServerNextType, AnswersTruthfulStep DEF AppInv
<1> QED BY <1>1, <1>2 DEF AppInv

LEMMA AppInit == Init => AppInv
<1> SUFFICES ASSUME Init PROVE AppInv
  OBVIOUS
<1> USE DEF Init, ServerInit, ClientInit, LinkInit, initialize_database
<1>1. ServerTypeOK /\ AnswersTruthful
  BY ProtocolAssumption DEF ServerTypeOK, DatabaseTypeOK, LinkTypeOK, AnswersTruthful
<1>2. NoMembers \in MemberLists
  <2>1. NoMembers \in [{} -> MemberData]
    BY DEF NoMembers
  <2> QED BY <2>1 DEF MemberLists
<1>3. NoFile \in Files /\ 0 \in 0..MaxRowId
  BY ProtocolAssumption DEF NoFile, Files
<1>4. ClientTypeOK
  BY <1>2, <1>3 DEF ClientTypeOK, Files
<1>5. LinksInv /\ RegisterInv
  BY DEF LinksInv, LinkInv, SocketInv, RequestInv, RegisterInv
<1> QED BY <1>1, <1>4, <1>5 DEF AppInv, ClientInv

LEMMA AppInvariant == Spec => []AppInv
<1>1. AppInv /\ [Next]_vars => AppInv'
  BY AppStep
<1> QED BY <1>1, AppInit, PTL DEF Spec

\* Clients, connections and server keep their types in the composition: among
\* others, a UUID is never assigned to a user that is not set, although it is
\* the server that decides which answer a process gets.
THEOREM AppTypeCorrect == Spec => []TypeOK
<1>1. AppInv => TypeOK
  BY DEF AppInv, ClientInv, TypeOK
<1> QED BY <1>1, AppInvariant, PTL

\* The composition implements the server among arbitrary clients: the real ones
\* never use a connection in a way the server's theorems do not cover.
THEOREM AppImplementsServer == Spec => ServerSpec
<1>1. Init => ServerInit
  BY DEF Init
<1>2. AppInv /\ [Next]_vars => [ServerNext]_serverVars
  BY AppStep
<1> QED BY <1>1, <1>2, AppInvariant, PTL DEF Spec, ServerSpec

\* So the users of the application, whatever their clients do, talk to one
\* atomic mailbox.
THEOREM AppImplementsMailbox == Spec => MailboxSpec
BY AppImplementsServer, ServerImplementsMailbox

=============================================================================
