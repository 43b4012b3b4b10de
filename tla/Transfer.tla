------------------------------ MODULE Transfer ------------------------------
(***************************************************************************)
(* Sizes, and answers that may not fit: what a message's content measures  *)
(* on its way through 32-bit fields, the cipher and SQLite, and what       *)
(* becomes of the answer that brings it.  sendall on a socket that does    *)
(* not block raises when the send buffer is full, with part of the answer  *)
(* gone out.  A client may leave in order or by a reset, at any moment.    *)
(*                                                                         *)
(* One client's connection; the messages it asks for come from others.     *)
(* Its requests are short (Framing has the long ones).                     *)
(***************************************************************************)
EXTENDS Integers, Sequences

CONSTANTS
  Word,             \* 2^32: a uint32_t counts modulo this
  BLOCK,            \* size of a cipher block
  MESSAGE_HEADER,   \* size of the header before a message's content
  RECORD_HEADER,    \* size of the header before a waiting message's content
  RESPONSE_HEADER,  \* size of a response's header
  LIST,             \* payload of the answer to a request that is not 604
  MAX_BLOB,         \* longest content SQLite takes
  BufferSize,       \* bytes a connection holds that the client has not read
  TextSizes,        \* sizes of the texts and files that are sent
  MaxRequests       \* bound: requests of the client

ASSUME TransferAssumption ==
  /\ {Word, BLOCK, MESSAGE_HEADER, RECORD_HEADER, RESPONSE_HEADER, LIST, MAX_BLOB,
      BufferSize, MaxRequests} \subseteq Nat \ {0}
  /\ TextSizes \subseteq Nat
  /\ BLOCK <= MESSAGE_HEADER /\ MESSAGE_HEADER + 1 < Word

VARIABLES
  up,       \* the selector loop runs
  conn,     \* "open", "eof" or "reset" (by the client), "closed" (by the server), "off"
  client,   \* "menu", "waiting" or "gone"
  request,  \* number of the client's last request
  inbox,    \* operation the server has still to read, "none" without one
  text,     \* size of the newest text for the client, as it was sent
  content,  \* size of its content in the table; 0 when nothing waits
  pc,       \* "select", "sending", "failed", "reported" or "closing"
  payload,  \* payload_size of the answer under way; 0 when there is none
  unsent,   \* bytes sendall has still to send
  outbox,   \* bytes on their way to the client
  got       \* bytes of the answer the client has read

clientVars == <<client, request, inbox, got>>
messageVars == <<text, content>>
sendVars == <<payload, unsent>>
vars == <<up, conn, clientVars, messageVars, pc, sendVars, outbox>>

Init ==
  /\ up = TRUE
  /\ conn = "open"
  /\ client = "menu"
  /\ request = 0
  /\ inbox = "none"
  /\ text = 0
  /\ content = 0
  /\ pc = "select"
  /\ payload = 0
  /\ unsent = <<>>
  /\ outbox = <<>>
  /\ got = <<>>

Smaller(m, n) == IF m <= n THEN m ELSE n

-----------------------------------------------------------------------------
(* A message is sent. *)

\* Mutant: the bound forgets the header.
tooBigForWord(size) == size >= Word

\* The bound on texts and files, before they are encrypted.
tooBig(size) == size >= Word - 1 - MESSAGE_HEADER

\* CBC with padding: one to BLOCK bytes more, to a multiple of BLOCK.
encrypted(size) == (size \div BLOCK + 1) * BLOCK

\* Mutant: narrowed to a signed integer.
narrowedSigned(size) == IF size < Word \div 2 THEN size ELSE size - Word

\* static_cast<uint32_t>.
narrowed(size) == size % Word

\* Another client's 150 or 153, to its end: the message header says how long the
\* content is, the server reads so many bytes and SQLite takes them.  The
\* payload_size in front of it, header and content in 32 bits, wraps for the
\* last sizes below the bound; it is left out, as the server only prints it.
SendMessage(size) ==
  /\ up
  /\ pc = "select"
  /\ ~tooBig(size)
  /\ narrowed(encrypted(size)) <= MAX_BLOB
  /\ text' = size
  /\ content' = narrowed(encrypted(size))
  /\ UNCHANGED <<up, conn, clientVars, pc, sendVars, outbox>>

-----------------------------------------------------------------------------
(* The client. *)

Ask(op) ==
  /\ client = "menu"
  /\ conn = "open"
  /\ request < MaxRequests
  /\ client' = "waiting"
  /\ request' = request + 1
  /\ inbox' = op
  /\ UNCHANGED <<up, conn, messageVars, pc, sendVars, outbox, got>>

\* What the header in got announces.
announced == IF got[1].op = "RESP_GENERAL_ERROR" THEN 0 ELSE payload

\* Mutant: the payload is left in the socket.
missingOfHeader == RESPONSE_HEADER - Len(got)

\* responseHandler: the header first, then as much as it announces.
missing ==
  IF Len(got) < RESPONSE_HEADER THEN RESPONSE_HEADER - Len(got)
  ELSE RESPONSE_HEADER + announced - Len(got)

\* read_some returns what is there.
receiveMessage ==
  /\ client = "waiting"
  /\ missing > 0
  /\ outbox # <<>>
  /\ LET size == Smaller(missing, Len(outbox)) IN
     /\ got' = got \o SubSeq(outbox, 1, size)
     /\ outbox' = SubSeq(outbox, size + 1, Len(outbox))
  /\ UNCHANGED <<up, conn, client, request, inbox, messageVars, pc, sendVars>>

\* Back to the menu, with the answer.
Answered ==
  /\ client = "waiting"
  /\ missing = 0
  /\ client' = "menu"
  /\ got' = <<>>
  /\ UNCHANGED <<up, conn, request, inbox, messageVars, pc, sendVars, outbox>>

\* Back to the menu, with an exception.
Disconnected ==
  /\ client = "waiting"
  /\ conn = "closed"
  /\ outbox = <<>>
  /\ missing > 0
  /\ client' = "menu"
  /\ got' = <<>>
  /\ UNCHANGED <<up, conn, request, inbox, messageVars, pc, sendVars, outbox>>

\* Its process ends: the connection with it, in order or by a reset, as it is
\* when unread bytes were left.  The server may still read what it was sent, or
\* lose it.
Leave ==
  /\ client # "gone"
  /\ client' = "gone"
  /\ \/ conn = "closed" /\ conn' = "off"
     \/ conn = "open" /\ conn' = "reset"
     \/ conn = "open" /\ conn' = "eof" /\ outbox = <<>>
  /\ got' = <<>>
  /\ outbox' = <<>>
  /\ inbox' \in {inbox, "none"}
  /\ UNCHANGED <<up, request, messageVars, pc, sendVars>>

\* It is started again.
Start ==
  /\ up
  /\ client = "gone"
  /\ conn = "off"
  /\ client' = "menu"
  /\ conn' = "open"
  /\ inbox' = "none"
  /\ UNCHANGED <<up, request, messageVars, pc, sendVars, outbox, got>>

-----------------------------------------------------------------------------
(* The server's callback. *)

Message(op, size) ==
  [at \in 1..(RESPONSE_HEADER + size) |-> [request |-> request, op |-> op, at |-> at]]

\* The request is read and answered: the newest message under its header.
collectMsgsRequest ==
  /\ inbox = "REQ_AWAITING_MESSAGES"
  /\ content > 0
  /\ RECORD_HEADER + content < Word
  /\ pc' = "sending"
  /\ payload' = RECORD_HEADER + content
  /\ unsent' = Message("RESP_AWAITING_MESSAGES", RECORD_HEADER + content)

\* No message, or a size struct.pack does not take: raises.
collectMsgsRaises ==
  /\ inbox = "REQ_AWAITING_MESSAGES"
  /\ content = 0 \/ RECORD_HEADER + content >= Word
  /\ pc' = "failed"
  /\ payload' = 0
  /\ unsent' = <<>>

\* Any other request.
shortRequest ==
  /\ inbox = "REQ_USER_LIST"
  /\ pc' = "sending"
  /\ payload' = LIST
  /\ unsent' = Message("RESP_USER_LIST", LIST)

handle_request ==
  /\ pc = "select"
  /\ conn \in {"open", "eof", "reset"}
  /\ collectMsgsRequest \/ collectMsgsRaises \/ shortRequest
  /\ inbox' = "none"
  /\ UNCHANGED <<up, conn, client, request, messageVars, outbox, got>>

\* The client is gone and nothing is left to read: unregistered.
Unregister ==
  /\ pc = "select"
  /\ conn \in {"eof", "reset"}
  /\ inbox = "none"
  /\ conn' = "off"
  /\ UNCHANGED <<up, clientVars, messageVars, pc, sendVars, outbox>>

Free == BufferSize - Len(outbox)

\* One send of sendall, of as much as there is room for.
send ==
  /\ pc = "sending"
  /\ conn = "open"
  /\ Free > 0
  /\ LET size == Smaller(Free, Len(unsent)) IN
     /\ outbox' = outbox \o SubSeq(unsent, 1, size)
     /\ unsent' = SubSeq(unsent, size + 1, Len(unsent))
  /\ pc' = IF unsent' = <<>> THEN "select" ELSE "sending"
  /\ UNCHANGED <<up, conn, clientVars, messageVars, payload>>

\* BlockingIOError.
sendBlocks ==
  /\ pc = "sending"
  /\ conn = "open"
  /\ Free = 0
  /\ pc' = "failed"
  /\ unsent' = <<>>
  /\ UNCHANGED <<up, conn, clientVars, messageVars, payload, outbox>>

\* To a client that is gone: the bytes go nowhere, and may bring a reset back
\* before all of them are sent.
sendToNobody ==
  /\ pc = "sending"
  /\ conn = "eof"
  /\ \/ pc' = "select" /\ unsent' = <<>> /\ UNCHANGED conn
     \/ conn' = "reset" /\ UNCHANGED <<pc, unsent>>
  /\ UNCHANGED <<up, clientVars, messageVars, payload, outbox>>

\* On a connection that was reset, send raises, and the error counts as reported.
sendFails ==
  /\ pc = "sending"
  /\ conn = "reset"
  /\ pc' = "reported"
  /\ unsent' = <<>>
  /\ UNCHANGED <<up, conn, clientVars, messageVars, payload, outbox>>

\* Mutant: the exception of the flush is caught, and the error sent.
flushIgnored ==
  /\ pc = "failed"
  /\ conn = "open"
  /\ pc' = "sending"
  /\ unsent' = Message("RESP_GENERAL_ERROR", 0)
  /\ UNCHANGED <<up, conn, clientVars, messageVars, payload, outbox>>

\* The except clause: there is nothing to flush, and recv raises.
flushBlocks ==
  /\ pc = "failed"
  /\ conn = "open"
  /\ pc' = "closing"
  /\ UNCHANGED <<up, conn, clientVars, messageVars, sendVars, outbox>>

\* At the end of the stream recv returns no bytes, and the error is sent.
flushAtEnd ==
  /\ pc = "failed"
  /\ conn = "eof"
  /\ pc' = "sending"
  /\ payload' = 0
  /\ unsent' = Message("RESP_GENERAL_ERROR", 0)
  /\ UNCHANGED <<up, conn, clientVars, messageVars, outbox>>

\* After a reset recv raises ConnectionResetError, and the socket is
\* unregistered.  Once reported, the reset may also be forgotten (it depends on
\* the platform): recv returns no bytes, and sending the error raises.
flushAfterReset ==
  /\ conn = "reset"
  /\ \/ /\ pc \in {"failed", "reported"}
        /\ pc' = "select"
        /\ conn' = "off"
     \/ /\ pc = "reported"
        /\ pc' = "closing"
        /\ UNCHANGED conn
  /\ UNCHANGED <<up, clientVars, messageVars, sendVars, outbox>>

\* Mutant: the exception is printed and the connection kept.
neverDisconnect ==
  /\ pc = "closing"
  /\ pc' = "select"
  /\ UNCHANGED <<up, conn, clientVars, messageVars, sendVars, outbox>>

\* getpeername, unregister, close.  getpeername raises on a connection that was
\* reset: the exception leaves the selector loop, and the program ends.
disconnect_client ==
  /\ pc = "closing"
  /\ pc' = "select"
  /\ up' = (conn # "reset")
  /\ conn' = IF conn = "open" THEN "closed" ELSE "off"
  /\ UNCHANGED <<clientVars, messageVars, sendVars, outbox>>

handle_client ==
  /\ up
  /\ \/ handle_request
     \/ Unregister
     \/ send
     \/ sendBlocks
     \/ sendToNobody
     \/ sendFails
     \/ flushBlocks
     \/ flushAtEnd
     \/ flushAfterReset
     \/ disconnect_client

Next ==
  \/ \E size \in TextSizes : SendMessage(size)
  \/ \E op \in {"REQ_USER_LIST", "REQ_AWAITING_MESSAGES"} : Ask(op)
  \/ receiveMessage
  \/ Answered
  \/ Disconnected
  \/ Leave
  \/ Start
  \/ handle_client

Spec == Init /\ [][Next]_vars

\* As in Framing: the loop calls back on a readable socket and a callback runs
\* to its end; a client that waits does nothing but read.
FairSpec ==
  Spec /\ WF_vars(handle_client) /\ WF_vars(receiveMessage \/ Answered \/ Disconnected)

-----------------------------------------------------------------------------
(* Safety. *)

TransferTypeOK ==
  LET Byte == [request : 1..MaxRequests, at : Nat \ {0},
               op : {"RESP_USER_LIST", "RESP_AWAITING_MESSAGES", "RESP_GENERAL_ERROR"}] IN
  /\ up \in BOOLEAN
  /\ conn \in {"open", "eof", "reset", "closed", "off"}
  /\ client \in {"menu", "waiting", "gone"}
  /\ request \in 0..MaxRequests
  /\ inbox \in {"none", "REQ_USER_LIST", "REQ_AWAITING_MESSAGES"}
  /\ {text, content, payload} \subseteq Nat
  /\ pc \in {"select", "sending", "failed", "reported", "closing"}
  /\ {unsent, outbox, got} \subseteq Seq(Byte)

\* The bound on the size of a text makes the 32-bit size of its content right,
\* though the cipher lengthens it afterwards: no content is cut short.
ContentsUncut == content > 0 \/ text > 0 => content = encrypted(text)

\* What the client reads is the answer to its present request from its first
\* byte on, however often a sendall failed in the middle, and no error or later
\* answer is taken for the rest of it.
AnswersUnmixed ==
  \A at \in 1..Len(got) :
    /\ got[at].request = request
    /\ got[at].at = at
    /\ got[at].op = got[1].op

\* A connection whose client is there is closed only for want of an answer, or
\* because of one longer than the connection holds: answers that fit arrive,
\* which is what Connections takes for granted.
ShortAnswersArrive ==
  [][conn = "open" /\ conn' = "closed"
       => payload = 0 \/ RESPONSE_HEADER + payload > BufferSize]_vars

\* Whatever fails on the way, a client that waits for an answer comes back to
\* the menu or ends.
AnswersEnd == client = "waiting" ~> client # "waiting"

-----------------------------------------------------------------------------
(* What the repository's documents say, and the code does not do. *)

\* README, server action 2: the server waits indefinitely for requests.  It ends
\* when a client resets its connection while its request is handled: the answer
\* or the error cannot be sent, and getpeername raises out of the loop.
WaitsIndefinitely == up

=============================================================================
