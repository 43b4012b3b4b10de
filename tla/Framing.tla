------------------------------ MODULE Framing ------------------------------
(***************************************************************************)
(* One connection with its bytes: what becomes of a request that needs     *)
(* more than one write.  createMessage cuts it into chunks of MAX_BUFFER   *)
(* bytes; the server reads with receive_all on a socket that does not      *)
(* block, so a chunk that is still on its way makes recv raise.            *)
(*                                                                         *)
(* A byte is named by its request and its place in it.  A write arrives    *)
(* whole (each is at most MAX_BUFFER bytes over the loopback interface),   *)
(* two writes do not arrive together.  The sender is registered.           *)
(***************************************************************************)
EXTENDS Naturals, Sequences

CONSTANTS
  MAX_BUFFER,           \* bytes of one write, and bytes the flush reads
  HEADER_SIZE,          \* size of the request header
  PAYLOAD_HEADER_SIZE,  \* size of the header inside a message's payload
  ContentSizes,         \* sizes of message contents
  MaxRequests           \* bound: requests sent in the session

ASSUME FramingAssumption ==
  /\ {MAX_BUFFER, HEADER_SIZE, PAYLOAD_HEADER_SIZE, MaxRequests} \subseteq Nat \ {0}
  /\ HEADER_SIZE + PAYLOAD_HEADER_SIZE <= MAX_BUFFER
  /\ ContentSizes \subseteq Nat \ {0}

VARIABLES
  client,   \* "menu", "writing", "waiting" for an answer, or "gone"
  sent,     \* the requests of this session
  chunks,   \* writes of the last request that are still to be made
  read,     \* number of answers the client has read
  conn,     \* "open", "eof" (client gone), "closed" (by the server), "off" (forgotten)
  inbox,    \* bytes the server can read
  pc,       \* "select", "content" (reading one), or "failed" (a handler raised)
  content,  \* what receive_all has of the content
  current,  \* the message being read
  stored,   \* messages stored
  answers   \* answers sent

vars == <<client, sent, chunks, read, conn, inbox, pc, content, current, stored, answers>>
serverVars == <<conn, inbox, pc, content, current, stored, answers>>

-----------------------------------------------------------------------------
(* Requests and their bytes. *)

\* A request that is all header, and a message with its content.
ShortRequest == [op |-> "REQ_USER_LIST", size |-> 0]
MessageRequest(size) == [op |-> "REQ_MESSAGE_TO_USER", size |-> size]
Requests == {ShortRequest} \cup {MessageRequest(size) : size \in ContentSizes}

BeforeContent == HEADER_SIZE + PAYLOAD_HEADER_SIZE

Length(r) == IF r = ShortRequest THEN HEADER_SIZE ELSE BeforeContent + r.size

Bytes(n, r) == [i \in 1..Length(r) |-> [request |-> n, at |-> i]]

ContentOf(n) == SubSeq(Bytes(n, sent[n]), BeforeContent + 1, Length(sent[n]))

AtMost(k, s) == IF k <= Len(s) THEN k ELSE Len(s)

\* The first k bytes of s, and the rest.
Taken(k, s) == SubSeq(s, 1, AtMost(k, s))
Left(k, s) == SubSeq(s, AtMost(k, s) + 1, Len(s))

\* Mutant: the header goes out in a write of its own.
createMessageApart(bytes) ==
  <<Taken(HEADER_SIZE, bytes)>> \o
    (IF Len(bytes) > HEADER_SIZE THEN <<Left(HEADER_SIZE, bytes)>> ELSE <<>>)

\* Header and payload in writes of at most MAX_BUFFER bytes.
createMessage(bytes) ==
  [k \in 1..((Len(bytes) + MAX_BUFFER - 1) \div MAX_BUFFER) |->
     Taken(MAX_BUFFER, Left((k - 1) * MAX_BUFFER, bytes))]

Init ==
  /\ client = "menu"
  /\ sent = <<>>
  /\ chunks = <<>>
  /\ read = 0
  /\ conn = "open"
  /\ inbox = <<>>
  /\ pc = "select"
  /\ content = <<>>
  /\ current = 0
  /\ stored = {}
  /\ answers = <<>>

-----------------------------------------------------------------------------
(* The client. *)

\* messageHandler, with at most MaxRequests requests in a session.
Choose(r) ==
  /\ client = "menu"
  /\ Len(sent) < MaxRequests
  /\ client' = "writing"
  /\ sent' = Append(sent, r)
  /\ chunks' = createMessage(Bytes(Len(sent'), r))
  /\ UNCHANGED <<read, serverVars>>

\* One boost::asio::write of sendMessage.
sendMessage ==
  /\ client = "writing"
  /\ conn = "open"
  /\ inbox' = inbox \o Head(chunks)
  /\ chunks' = Tail(chunks)
  /\ client' = IF Len(chunks) = 1 THEN "waiting" ELSE "writing"
  /\ UNCHANGED <<sent, read, conn, pc, content, current, stored, answers>>

\* Mutant: returns to the menu without waiting for an answer.
receiveAnything ==
  /\ client = "waiting"
  /\ read' = read + 1
  /\ client' = "menu"
  /\ UNCHANGED <<sent, chunks, serverVars>>

\* The next answer that arrived, whichever request it was meant for.
receiveMessage ==
  /\ client = "waiting"
  /\ read < Len(answers)
  /\ read' = read + 1
  /\ client' = "menu"
  /\ UNCHANGED <<sent, chunks, serverVars>>

\* Writing or reading fails on a connection the server closed.
Disconnected ==
  /\ client \in {"writing", "waiting"}
  /\ conn = "closed"
  /\ client' = "menu"
  /\ chunks' = <<>>
  /\ UNCHANGED <<sent, read, serverVars>>

\* The process ends, in the middle of a request maybe.
Leave ==
  /\ client # "gone"
  /\ client' = "gone"
  /\ chunks' = <<>>
  /\ conn' = IF conn = "open" THEN "eof" ELSE "off"
  /\ UNCHANGED <<sent, read, inbox, pc, content, current, stored, answers>>

-----------------------------------------------------------------------------
(* The server's callback on this connection.  Bytes may arrive between any *)
(* two of its reads, and it may be long in coming when others are served.  *)

\* Mutant: the answer is built and not sent.
NoAnswer(op) == UNCHANGED answers

\* sendall, to a client that is there or to nobody.
Answer(op) == answers' = IF conn = "open" THEN Append(answers, op) ELSE answers

\* Less than a header: at the end of the stream the socket is unregistered,
\* else recv raises and handle_client closes the connection.
parse_headerFails ==
  /\ pc = "select"
  /\ conn \in {"open", "eof"}
  /\ Len(inbox) < HEADER_SIZE
  /\ inbox # <<>> \/ conn = "eof"
  /\ conn' = IF conn = "eof" THEN "off" ELSE "closed"
  /\ inbox' = <<>>
  /\ UNCHANGED <<pc, content, current, stored, answers>>

\* A header is there to be read.
HasHeader == pc = "select" /\ conn \in {"open", "eof"} /\ Len(inbox) >= HEADER_SIZE

\* The header of a short request, answered at once.
handle_short ==
  /\ HasHeader
  /\ Head(inbox).at = 1
  /\ sent[Head(inbox).request] = ShortRequest
  /\ inbox' = Left(HEADER_SIZE, inbox)
  /\ Answer("RESP_USER_LIST")
  /\ UNCHANGED <<conn, pc, content, current, stored>>

\* The headers of a message: they share a write.
messageToUserRequest ==
  /\ HasHeader
  /\ Head(inbox).at = 1
  /\ sent[Head(inbox).request] # ShortRequest
  /\ inbox' = Left(BeforeContent, inbox)
  /\ pc' = "content"
  /\ content' = <<>>
  /\ current' = Head(inbox).request
  /\ UNCHANGED <<conn, stored, answers>>

\* Bytes of a content taken for a header, with an operation code that no case
\* matches: nothing happens and nothing is answered.
handle_unknown ==
  /\ HasHeader
  /\ Head(inbox).at # 1
  /\ inbox' = Left(HEADER_SIZE, inbox)
  /\ UNCHANGED <<conn, pc, content, current, stored, answers>>

\* The same, when a case matches: its handler reads on, and raises at the
\* latest where it looks up the sender.  (That a name of random bytes decodes
\* as UTF-8 and is registered is left out.)
handle_raises ==
  /\ HasHeader
  /\ Head(inbox).at # 1
  /\ \E more \in 0..(Len(inbox) - HEADER_SIZE) : inbox' = Left(HEADER_SIZE + more, inbox)
  /\ pc' = "failed"
  /\ UNCHANGED <<conn, content, current, stored, answers>>

-----------------------------------------------------------------------------
(* receive_all for the content. *)

Missing == sent[current].size - Len(content)

recv ==
  /\ pc = "content"
  /\ Missing > 0
  /\ inbox # <<>>
  /\ content' = content \o Taken(Missing, inbox)
  /\ inbox' = Left(Missing, inbox)
  /\ UNCHANGED <<conn, pc, current, stored, answers>>

\* Mutant: the exception is swallowed and the callback ends.
recvGivesUp ==
  /\ pc = "content"
  /\ Missing > 0
  /\ inbox = <<>>
  /\ conn = "open"
  /\ pc' = "select"
  /\ UNCHANGED <<conn, inbox, content, current, stored, answers>>

\* BlockingIOError is no ConnectionError: it ends receive_all and the handler.
recvBlocks ==
  /\ pc = "content"
  /\ Missing > 0
  /\ inbox = <<>>
  /\ conn = "open"
  /\ pc' = "failed"
  /\ UNCHANGED <<conn, inbox, content, current, stored, answers>>

Store(what) ==
  /\ pc' = "select"
  /\ stored' = stored \cup {[request |-> current, content |-> what]}
  /\ Answer("RESP_MSG_SENT_TO_USER")
  /\ UNCHANGED <<conn, inbox, content, current>>

sendMessageToTarget ==
  /\ pc = "content"
  /\ Missing = 0
  /\ Store(content)

\* Mutant: receive_all returns what it has.
sendPartToTarget ==
  /\ pc = "content"
  /\ Missing > 0
  /\ inbox = <<>>
  /\ conn = "eof"
  /\ Store(content)

\* At the end of the stream receive_all returns None, which is stored as b''.
sendNothingToTarget ==
  /\ pc = "content"
  /\ Missing > 0
  /\ inbox = <<>>
  /\ conn = "eof"
  /\ Store(<<>>)

\* The except clause of handle_request: recv(4096), then the general error.
flush ==
  /\ pc = "failed"
  /\ inbox # <<>> \/ conn = "eof"
  /\ inbox' = Left(MAX_BUFFER, inbox)
  /\ Answer("RESP_GENERAL_ERROR")
  /\ pc' = "select"
  /\ UNCHANGED <<conn, content, current, stored>>

\* Nothing to flush: recv raises once more and the connection is closed.
flushBlocks ==
  /\ pc = "failed"
  /\ inbox = <<>>
  /\ conn = "open"
  /\ conn' = "closed"
  /\ pc' = "select"
  /\ UNCHANGED <<inbox, content, current, stored, answers>>

handle_client ==
  /\ \/ parse_headerFails
     \/ handle_short
     \/ messageToUserRequest
     \/ handle_unknown
     \/ handle_raises
     \/ recv
     \/ recvBlocks
     \/ sendMessageToTarget
     \/ sendNothingToTarget
     \/ flush
     \/ flushBlocks
  /\ UNCHANGED <<client, sent, chunks, read>>

Next ==
  \/ \E r \in Requests : Choose(r)
  \/ sendMessage
  \/ receiveMessage
  \/ Disconnected
  \/ Leave
  \/ handle_client

Spec == Init /\ [][Next]_vars

\* The selector loop calls back on a readable socket, and a client that has
\* started a request does nothing but finish it.
FairSpec ==
  Spec /\ WF_vars(handle_client) /\ WF_vars(sendMessage \/ receiveMessage \/ Disconnected)

-----------------------------------------------------------------------------
(* Safety. *)

FramingTypeOK ==
  LET Byte == [request : 1..Len(sent), at : Nat \ {0}] IN
  /\ client \in {"menu", "writing", "waiting", "gone"}
  /\ sent \in Seq(Requests)
  /\ chunks \in Seq(Seq(Byte))
  /\ read \in 0..Len(answers)
  /\ conn \in {"open", "eof", "closed", "off"}
  /\ {inbox, content} \subseteq Seq(Byte)
  /\ pc \in {"select", "content", "failed"}
  /\ current \in 0..Len(sent)
  /\ stored \subseteq [request : 1..Len(sent), content : Seq(Byte)]
  /\ answers \in Seq({"RESP_USER_LIST", "RESP_MSG_SENT_TO_USER", "RESP_GENERAL_ERROR"})

\* Whatever is misread on the way, nothing is stored that mixes requests or
\* lacks a part: a stored content is the one that was sent or, from a client
\* that left, empty.  And a message is stored once.
StoredWholeOrEmpty ==
  /\ \A row \in stored :
       row.content = ContentOf(row.request) \/ (row.content = <<>> /\ client = "gone")
  /\ \A row, other \in stored : row.request = other.request => row = other

\* The server takes bytes for a header only where a request begins, unless it
\* has sent the general error on this connection.
AlignedUntilFirstError ==
  /\ pc = "select"
  /\ conn = "open"
  /\ inbox # <<>>
  /\ \A i \in 1..Len(answers) : answers[i] # "RESP_GENERAL_ERROR"
  => Head(inbox).at = 1

AllShort == \A n \in 1..Len(sent) : Length(sent[n]) <= MAX_BUFFER

\* While every request fits one write, none fails: no error, no connection
\* closed by the server, and nobody is handed another request's answer.  It is
\* what Connections and Server take for granted.
ShortRequestsSafe ==
  AllShort =>
    /\ pc # "failed"
    /\ conn # "closed"
    /\ Len(answers) <= Len(sent)
    /\ \A n \in 1..Len(answers) :
         answers[n] = IF sent[n] = ShortRequest THEN "RESP_USER_LIST" ELSE "RESP_MSG_SENT_TO_USER"

\* And such a request is answered, though receiveMessage has no timeout: the
\* client comes back to the menu or ends.
ShortRequestsAnswered == []AllShort => (client = "waiting" ~> client # "waiting")

-----------------------------------------------------------------------------
(* What the repository's documents say, and the code does not do. *)

\* README, response 2103: the message is stored.  Errors that answer misread
\* bytes put the client behind: it reads the answer of an earlier message.
AcknowledgedIsStored ==
  [][receiveMessage /\ answers[read + 1] = "RESP_MSG_SENT_TO_USER"
       => \E row \in stored : row.request = Len(sent)]_vars

=============================================================================
