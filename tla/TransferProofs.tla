--------------------------- MODULE TransferProofs ---------------------------
(***************************************************************************)
(* Theorems about the sending of answers, for every word size, every size  *)
(* of headers, buffers, texts and lists and any number of requests.        *)
(***************************************************************************)
EXTENDS Transfer, SequenceTheorems, TLAPS

-----------------------------------------------------------------------------
(* The inductive invariants. *)

AnswerOps == {"RESP_USER_LIST", "RESP_AWAITING_MESSAGES"}

Bytes == [request : 1..MaxRequests, at : Nat \ {0}, op : AnswerOps \cup {"RESP_GENERAL_ERROR"}]

\* The bytes of s follow the first `before` bytes of an answer to the present
\* request.
Part(s, before, op) ==
  \A i \in 1..Len(s) : s[i].request = request /\ s[i].at = before + i /\ s[i].op = op

\* Bytes of an answer, wherever they are.
Total == Len(got) + Len(outbox) + Len(unsent)

\* Where a callback is, and on which connection.
CallbackInv ==
  /\ pc = "sending" <=> unsent # <<>>
  /\ pc # "select" => conn \in {"open", "eof", "reset"}
  /\ pc = "reported" => conn = "reset"
  /\ request = 0 => inbox = "none" /\ pc = "select"

\* A client at the menu, or gone, has left no answer behind it.
PresenceInv ==
  /\ client = "gone" <=> conn \in {"eof", "reset", "off"}
  /\ client # "waiting" => got = <<>> /\ outbox = <<>>
  /\ client = "menu" => inbox = "none" /\ pc = "select"

\* What was read, what is on the connection and what is still to be sent are
\* consecutive parts of one answer.
InOrder(op) ==
  /\ Part(got, 0, op)
  /\ Part(outbox, Len(got), op)
  /\ Part(unsent, Len(got) + Len(outbox), op)

\* A client waits for one answer: it is not begun, it is complete with what is
\* still to be sent, or it was given up and never becomes complete.
WaitInv ==
  client = "waiting" =>
    /\ \E op \in AnswerOps : InOrder(op)
    /\ inbox # "none" => conn = "open" /\ pc = "select" /\ Total = 0
    /\ inbox = "none" /\ conn = "open" /\ pc \in {"select", "sending"} =>
         Total = RESPONSE_HEADER + payload
    /\ pc \in {"failed", "closing"} \/ conn = "closed" => Total < RESPONSE_HEADER + payload

\* An answer is given up because there is none, or because it does not fit.
GivenUpInv ==
  pc \in {"failed", "closing"} /\ conn = "open" =>
    payload = 0 \/ RESPONSE_HEADER + payload > BufferSize

\* TransferTypeOK, with the type of a byte as above.
Types ==
  /\ up \in BOOLEAN
  /\ conn \in {"open", "eof", "reset", "closed", "off"}
  /\ client \in {"menu", "waiting", "gone"}
  /\ request \in 0..MaxRequests
  /\ inbox \in {"none", "REQ_USER_LIST", "REQ_AWAITING_MESSAGES"}
  /\ text \in Nat /\ content \in Nat /\ payload \in Nat
  /\ pc \in {"select", "sending", "failed", "reported", "closing"}
  /\ unsent \in Seq(Bytes) /\ outbox \in Seq(Bytes) /\ got \in Seq(Bytes)

TransferInv == Types /\ ContentsUncut /\ CallbackInv /\ PresenceInv /\ WaitInv /\ GivenUpInv

-----------------------------------------------------------------------------
(* Sizes. *)

\* Padding adds at most a block.
LEMMA EncryptedSize ==
  ASSUME NEW size \in Nat
  PROVE  encrypted(size) \in Nat /\ size < encrypted(size) /\ encrypted(size) <= size + BLOCK
<1>1. BLOCK \in Nat \ {0}
  BY TransferAssumption
<1>2. PICK q \in Nat : q = size \div BLOCK /\ q * BLOCK <= size /\ size < q * BLOCK + BLOCK
  BY <1>1
<1>3. (q + 1) * BLOCK = q * BLOCK + BLOCK /\ q * BLOCK \in Nat
  BY <1>1, <1>2
<1> QED BY <1>1, <1>2, <1>3 DEF encrypted

\* So what the bound lets through fits the 32-bit size.
LEMMA NotNarrowed ==
  ASSUME NEW size \in Nat, ~tooBig(size)
  PROVE  narrowed(encrypted(size)) = encrypted(size)
<1>1. encrypted(size) \in Nat /\ encrypted(size) < Word
  BY EncryptedSize, TransferAssumption DEF tooBig
<1>2. Word \in Nat \ {0}
  BY TransferAssumption
<1> QED BY <1>1, <1>2 DEF narrowed

\* The first k bytes of b pass from b to a.
LEMMA Passed ==
  ASSUME NEW S, NEW a \in Seq(S), NEW b \in Seq(S), NEW k \in 0..Len(b)
  PROVE  /\ a \o SubSeq(b, 1, k) \in Seq(S)
         /\ SubSeq(b, k + 1, Len(b)) \in Seq(S)
         /\ Len(a \o SubSeq(b, 1, k)) = Len(a) + k
         /\ Len(SubSeq(b, k + 1, Len(b))) = Len(b) - k
         /\ \A i \in 1..(Len(a) + k) :
              (a \o SubSeq(b, 1, k))[i] = IF i <= Len(a) THEN a[i] ELSE b[i - Len(a)]
         /\ \A i \in 1..(Len(b) - k) : SubSeq(b, k + 1, Len(b))[i] = b[k + i]
<1> DEFINE first == SubSeq(b, 1, k)
           rest == SubSeq(b, k + 1, Len(b))
<1>1. Len(a) \in Nat /\ Len(b) \in Nat /\ \A i \in 1..Len(b) : b[i] \in S
  BY LenProperties, ElementOfSeq
<1>2. first \in Seq(S) /\ Len(first) = k /\ \A i \in 1..k : first[i] = b[i]
  <2>1. \A i \in 1..k : b[i] \in S
    BY <1>1
  <2>2. /\ first \in Seq(S)
        /\ Len(first) = IF 1 <= k THEN k - 1 + 1 ELSE 0
        /\ \A i \in 1..(k - 1 + 1) : first[i] = b[1 + i - 1]
    BY <1>1, <2>1, SubSeqProperties
  <2> HIDE DEF first
  <2> QED BY <1>1, <2>2
<1>3. /\ rest \in Seq(S) /\ Len(rest) = Len(b) - k
      /\ \A i \in 1..(Len(b) - k) : rest[i] = b[k + i]
  <2>1. \A i \in (k + 1)..Len(b) : b[i] \in S
    BY <1>1
  <2>2. /\ rest \in Seq(S)
        /\ Len(rest) = IF k + 1 <= Len(b) THEN Len(b) - (k + 1) + 1 ELSE 0
        /\ \A i \in 1..(Len(b) - (k + 1) + 1) : rest[i] = b[(k + 1) + i - 1]
    BY <1>1, <2>1, SubSeqProperties
  <2> HIDE DEF rest
  <2> QED BY <1>1, <2>2
<1> HIDE DEF first, rest
<1>4. /\ a \o first \in Seq(S) /\ Len(a \o first) = Len(a) + Len(first)
      /\ \A i \in 1..(Len(a) + Len(first)) :
           (a \o first)[i] = IF i <= Len(a) THEN a[i] ELSE first[i - Len(a)]
  BY <1>2, ConcatProperties
<1>5. \A i \in 1..(Len(a) + k) : (a \o first)[i] = IF i <= Len(a) THEN a[i] ELSE b[i - Len(a)]
  BY <1>1, <1>2, <1>4
<1> QED BY <1>2, <1>3, <1>4, <1>5 DEF first, rest

\* The same of parts of an answer.
LEMMA PartPassed ==
  ASSUME NEW op, NEW n \in Nat, NEW a \in Seq(Bytes), NEW b \in Seq(Bytes), NEW k \in 0..Len(b),
         Part(a, n, op), Part(b, n + Len(a), op)
  PROVE  /\ Part(a \o SubSeq(b, 1, k), n, op)
         /\ Part(SubSeq(b, k + 1, Len(b)), n + Len(a) + k, op)
<1> DEFINE longer == a \o SubSeq(b, 1, k)
           shorter == SubSeq(b, k + 1, Len(b))
<1>1. Len(a) \in Nat /\ Len(b) \in Nat
  BY LenProperties
<1>2. /\ Len(longer) = Len(a) + k /\ Len(shorter) = Len(b) - k
      /\ \A i \in 1..(Len(a) + k) : longer[i] = IF i <= Len(a) THEN a[i] ELSE b[i - Len(a)]
      /\ \A i \in 1..(Len(b) - k) : shorter[i] = b[k + i]
  BY Passed
<1> HIDE DEF longer, shorter
<1>3. Part(longer, n, op)
  <2> SUFFICES ASSUME NEW i \in 1..(Len(a) + k)
               PROVE  longer[i].request = request /\ longer[i].at = n + i /\ longer[i].op = op
    BY <1>2 DEF Part
  <2>1. CASE i <= Len(a)
    <3>1. i \in 1..Len(a) /\ longer[i] = a[i]
      BY <1>1, <1>2, <2>1
    <3> QED BY <3>1 DEF Part
  <2>2. CASE i > Len(a)
    <3>1. i - Len(a) \in 1..Len(b) /\ n + Len(a) + (i - Len(a)) = n + i /\ longer[i] = b[i - Len(a)]
      BY <1>1, <1>2, <2>2
    <3> QED BY <3>1 DEF Part
  <2> QED BY <1>1, <2>1, <2>2
<1>4. Part(shorter, n + Len(a) + k, op)
  <2> SUFFICES ASSUME NEW i \in 1..(Len(b) - k)
               PROVE  /\ shorter[i].request = request
                      /\ shorter[i].at = n + Len(a) + k + i /\ shorter[i].op = op
    BY <1>2 DEF Part
  <2>1. k + i \in 1..Len(b) /\ n + Len(a) + (k + i) = n + Len(a) + k + i /\ shorter[i] = b[k + i]
    BY <1>1, <1>2
  <2> QED BY <2>1 DEF Part
<1> QED BY <1>3, <1>4 DEF longer, shorter

\* A new answer is a part of itself.
LEMMA NewAnswer ==
  ASSUME request \in 1..MaxRequests, NEW op \in AnswerOps \cup {"RESP_GENERAL_ERROR"}, NEW size \in Nat
  PROVE  /\ Message(op, size) \in Seq(Bytes) /\ Message(op, size) # <<>>
         /\ Len(Message(op, size)) = RESPONSE_HEADER + size
         /\ Part(Message(op, size), 0, op)
<1> DEFINE n == RESPONSE_HEADER + size
           answer == [at \in 1..n |-> [request |-> request, op |-> op, at |-> at]]
<1>1. n \in Nat \ {0}
  BY TransferAssumption
<1> HIDE DEF n
<1>2. answer \in Seq(Bytes)
  <2>1. \A at \in 1..n : [request |-> request, op |-> op, at |-> at] \in Bytes
    BY <1>1 DEF Bytes
  <2>2. answer \in [1..n -> Bytes]
    BY <2>1
  <2> QED BY <1>1, <2>2
<1>3. Len(answer) = n
  BY <1>1
<1>4. \A i \in 1..n : answer[i].request = request /\ answer[i].at = i /\ answer[i].op = op
  OBVIOUS
<1> HIDE DEF answer
<1>5. Part(answer, 0, op)
  BY <1>1, <1>3, <1>4 DEF Part
<1>6. answer # <<>>
  BY <1>1, <1>3
<1> QED BY <1>2, <1>3, <1>5, <1>6 DEF Message, answer, n

LEMMA Sizes ==
  /\ Word \in Nat \ {0} /\ RECORD_HEADER \in Nat \ {0} /\ RESPONSE_HEADER \in Nat \ {0}
  /\ LIST \in Nat \ {0} /\ BufferSize \in Nat \ {0} /\ MaxRequests \in Nat \ {0}
  /\ TextSizes \subseteq Nat
BY TransferAssumption

LEMMA Lengths ==
  ASSUME Types
  PROVE  /\ Len(got) \in Nat /\ Len(outbox) \in Nat /\ Len(unsent) \in Nat
         /\ got = <<>> <=> Len(got) = 0
         /\ outbox = <<>> <=> Len(outbox) = 0
         /\ unsent = <<>> <=> Len(unsent) = 0
BY LenProperties, EmptySeq DEF Types

\* Steps that leave the answer alone leave its parts in order.
LEMMA SameParts ==
  ASSUME UNCHANGED <<request, got, outbox, unsent>>
  PROVE  Total' = Total /\ \A op : InOrder(op)' <=> InOrder(op)
BY DEF Total, InOrder, Part

-----------------------------------------------------------------------------
(* The steps of the clients. *)

LEMMA SendMessageInv ==
  ASSUME TransferInv, NEW size \in TextSizes, SendMessage(size)
  PROVE  TransferInv'
<1> USE DEF SendMessage, clientVars, sendVars
<1>1. size \in Nat /\ encrypted(size) \in Nat /\ narrowed(encrypted(size)) = encrypted(size)
  BY Sizes, EncryptedSize, NotNarrowed
<1>2. Types' /\ ContentsUncut'
  BY <1>1 DEF TransferInv, Types, ContentsUncut
<1>3. CallbackInv' /\ PresenceInv' /\ GivenUpInv'
  BY DEF TransferInv, CallbackInv, PresenceInv, GivenUpInv
<1>4. WaitInv'
  BY SameParts DEF TransferInv, WaitInv
<1> QED BY <1>2, <1>3, <1>4 DEF TransferInv

LEMMA AskInv ==
  ASSUME TransferInv, NEW op \in {"REQ_USER_LIST", "REQ_AWAITING_MESSAGES"}, Ask(op)
  PROVE  TransferInv'
<1> USE DEF Ask, messageVars, sendVars
<1>1. /\ got = <<>> /\ outbox = <<>> /\ unsent = <<>> /\ pc = "select"
      /\ Len(got) = 0 /\ Len(outbox) = 0 /\ Len(unsent) = 0
  BY Lengths DEF TransferInv, PresenceInv, CallbackInv
<1>2. Types' /\ ContentsUncut'
  BY Sizes DEF TransferInv, Types, ContentsUncut
<1>3. CallbackInv' /\ PresenceInv' /\ GivenUpInv'
  BY <1>1 DEF TransferInv, Types, CallbackInv, PresenceInv, GivenUpInv
<1>4. WaitInv'
  <2>1. InOrder("RESP_USER_LIST")' /\ Total' = 0
    BY <1>1 DEF InOrder, Part, Total
  <2> QED BY <1>1, <2>1 DEF WaitInv, AnswerOps
<1> QED BY <1>2, <1>3, <1>4 DEF TransferInv

LEMMA ReceiveMessageInv ==
  ASSUME TransferInv, receiveMessage
  PROVE  TransferInv'
<1> USE DEF messageVars, sendVars
<1> DEFINE size == Smaller(missing, Len(outbox))
<1>1. PICK op \in AnswerOps : InOrder(op)
  BY DEF TransferInv, WaitInv, receiveMessage
<1>2. Types /\ Len(got) \in Nat /\ Len(outbox) \in Nat /\ Len(unsent) \in Nat
  BY Lengths DEF TransferInv
<1>3. /\ client = "waiting" /\ size \in 0..Len(outbox)
      /\ got' = got \o SubSeq(outbox, 1, size)
      /\ outbox' = SubSeq(outbox, size + 1, Len(outbox))
      /\ UNCHANGED <<up, conn, client, request, inbox, text, content, pc, payload, unsent>>
  <2>1. missing > 0 /\ missing \in Int
    BY <1>2, Sizes DEF receiveMessage, missing, announced, Types
  <2> QED BY <1>2, <2>1 DEF receiveMessage, Smaller
<1> HIDE DEF size
<1>4. /\ got' \in Seq(Bytes) /\ outbox' \in Seq(Bytes)
      /\ Len(got') = Len(got) + size /\ Len(outbox') = Len(outbox) - size
  BY <1>2, <1>3, Passed DEF Types
<1>5. unsent' = unsent /\ Len(unsent') = Len(unsent) /\ size \in Nat
  BY <1>2, <1>3
<1>6. Total' = Total
  BY <1>2, <1>4, <1>5 DEF Total
<1>7. InOrder(op)'
  <2>1. Part(got, 0, op) /\ Part(outbox, 0 + Len(got), op)
    BY <1>1, <1>2 DEF InOrder
  <2>2. Part(got', 0, op) /\ Part(outbox', 0 + Len(got) + size, op)
    BY <1>2, <1>3, <2>1, PartPassed DEF Types
  <2>3. Part(got', 0, op) /\ Part(outbox', Len(got'), op)
    BY <1>2, <1>4, <1>5, <2>2
  <2>4. Part(unsent', Len(got') + Len(outbox'), op)
    <3>1. Len(got') + Len(outbox') = Len(got) + Len(outbox)
      BY <1>2, <1>4, <1>5
    <3> QED BY <1>1, <1>5, <3>1 DEF InOrder
  <2> QED BY <1>3, <2>3, <2>4 DEF InOrder, Part
<1>8. Types' /\ ContentsUncut'
  BY <1>3, <1>4 DEF TransferInv, Types, ContentsUncut
<1>9. CallbackInv' /\ PresenceInv' /\ GivenUpInv'
  BY <1>3 DEF TransferInv, CallbackInv, PresenceInv, GivenUpInv
<1>10. WaitInv'
  BY <1>3, <1>6, <1>7 DEF TransferInv, WaitInv
<1> QED BY <1>8, <1>9, <1>10 DEF TransferInv

\* Without bytes the client misses something, and the first byte it reads
\* announces the payload there is.
LEMMA Missing ==
  ASSUME TransferInv, client = "waiting"
  PROVE  missing = 0 => Len(got) = RESPONSE_HEADER + payload
<1> SUFFICES ASSUME missing = 0 PROVE Len(got) = RESPONSE_HEADER + payload
  OBVIOUS
<1>1. Len(got) \in Nat /\ payload \in Nat
  BY Lengths DEF TransferInv, Types
<1>2. Len(got) >= RESPONSE_HEADER /\ Len(got) = RESPONSE_HEADER + announced
  <2>1. ~(Len(got) < RESPONSE_HEADER)
    BY <1>1, Sizes DEF missing
  <2>2. announced \in Nat
    BY <1>1 DEF announced
  <2> QED BY <1>1, <2>1, <2>2, Sizes DEF missing
<1>3. announced = payload
  <2>1. PICK op \in AnswerOps : Part(got, 0, op)
    BY DEF TransferInv, WaitInv, InOrder
  <2>2. 1 \in 1..Len(got)
    BY <1>1, <1>2, Sizes
  <2> QED BY <2>1, <2>2 DEF Part, announced, AnswerOps
<1> QED BY <1>2, <1>3

LEMMA AnsweredInv ==
  ASSUME TransferInv, Answered
  PROVE  TransferInv'
<1> USE DEF Answered, messageVars, sendVars
<1>1. /\ Len(got) \in Nat /\ Len(outbox) \in Nat /\ Len(unsent) \in Nat /\ payload \in Nat
      /\ Len(got) = RESPONSE_HEADER + payload
  BY Lengths, Missing DEF TransferInv, Types
<1>2. conn \in {"open", "closed"}
  BY DEF TransferInv, Types, PresenceInv
<1>3. Total >= RESPONSE_HEADER + payload /\ Total # 0
  BY <1>1, Sizes DEF Total
<1>4. inbox = "none" /\ conn = "open" /\ pc \notin {"failed", "closing", "reported"}
  <2>1. Total \in Nat /\ RESPONSE_HEADER + payload \in Nat
    BY <1>1, Sizes DEF Total
  <2> QED BY <1>2, <1>3, <2>1 DEF TransferInv, WaitInv, CallbackInv
<1>5. Total = RESPONSE_HEADER + payload
  BY <1>4 DEF TransferInv, Types, WaitInv
<1>6. outbox = <<>> /\ unsent = <<>> /\ pc = "select"
  <2>1. Len(outbox) = 0 /\ Len(unsent) = 0
    BY <1>1, <1>5, Sizes DEF Total
  <2> QED BY <1>4, <2>1, Lengths DEF TransferInv, Types, CallbackInv
<1>7. Types' /\ ContentsUncut'
  BY EmptySeq DEF TransferInv, Types, ContentsUncut
<1>8. CallbackInv' /\ PresenceInv' /\ WaitInv' /\ GivenUpInv'
  BY <1>4, <1>6 DEF TransferInv, CallbackInv, PresenceInv, WaitInv, GivenUpInv
<1> QED BY <1>7, <1>8 DEF TransferInv

LEMMA DisconnectedInv ==
  ASSUME TransferInv, Disconnected
  PROVE  TransferInv'
<1> USE DEF Disconnected, messageVars, sendVars
<1>1. inbox = "none" /\ pc = "select"
  BY DEF TransferInv, WaitInv, CallbackInv
<1>2. Types' /\ ContentsUncut'
  BY EmptySeq DEF TransferInv, Types, ContentsUncut
<1>3. CallbackInv' /\ PresenceInv' /\ WaitInv' /\ GivenUpInv'
  BY <1>1 DEF TransferInv, CallbackInv, PresenceInv, WaitInv, GivenUpInv
<1> QED BY <1>2, <1>3 DEF TransferInv

LEMMA LeaveInv ==
  ASSUME TransferInv, Leave
  PROVE  TransferInv'
<1> USE DEF Leave, messageVars, sendVars
<1>1. /\ conn \in {"open", "closed"} /\ conn' \in {"eof", "reset", "off"}
      /\ conn' = "off" <=> conn = "closed"
      /\ inbox' \in {inbox, "none"}
  OBVIOUS
<1>2. Types' /\ ContentsUncut'
  BY <1>1, EmptySeq DEF TransferInv, Types, ContentsUncut
<1>3. CallbackInv'
  BY <1>1 DEF TransferInv, CallbackInv
<1>4. PresenceInv' /\ WaitInv' /\ GivenUpInv'
  BY <1>1 DEF PresenceInv, WaitInv, GivenUpInv
<1> QED BY <1>2, <1>3, <1>4 DEF TransferInv

LEMMA StartInv ==
  ASSUME TransferInv, Start
  PROVE  TransferInv'
<1> USE DEF Start, messageVars, sendVars
<1>1. Types' /\ ContentsUncut'
  BY DEF TransferInv, Types, ContentsUncut
<1>2. CallbackInv' /\ PresenceInv' /\ WaitInv' /\ GivenUpInv'
  BY DEF TransferInv, CallbackInv, PresenceInv, WaitInv, GivenUpInv
<1> QED BY <1>1, <1>2 DEF TransferInv

-----------------------------------------------------------------------------
(* The steps of the callback. *)

LEMMA HandleRequestInv ==
  ASSUME TransferInv, handle_request
  PROVE  TransferInv'
<1> USE DEF handle_request, messageVars
<1>1. /\ pc = "select" /\ inbox # "none" /\ inbox' = "none"
      /\ conn \in {"open", "eof", "reset"} /\ client # "menu"
      /\ request \in 1..MaxRequests
      /\ UNCHANGED <<up, conn, client, request, text, content, outbox, got>>
  BY Sizes DEF collectMsgsRequest, collectMsgsRaises, shortRequest, TransferInv, Types, CallbackInv,
     PresenceInv
<1>2. client = "waiting" =>
        got = <<>> /\ outbox = <<>> /\ Len(got) = 0 /\ Len(outbox) = 0
  <2>1. ASSUME client = "waiting" PROVE Total = 0
    BY <1>1, <2>1 DEF TransferInv, WaitInv
  <2> QED BY <2>1, Lengths DEF TransferInv, Total
<1>3. ASSUME NEW op \in AnswerOps, NEW size \in Nat,
             pc' = "sending", payload' = size, unsent' = Message(op, size)
      PROVE  TransferInv'
  <2>1. /\ unsent' \in Seq(Bytes) /\ unsent' # <<>>
        /\ Len(unsent') = RESPONSE_HEADER + size /\ Part(unsent', 0, op)
    BY <1>1, <1>3, NewAnswer
  <2>2. Types' /\ ContentsUncut'
    BY <1>1, <1>3, <2>1 DEF TransferInv, Types, ContentsUncut
  <2>3. CallbackInv' /\ PresenceInv' /\ GivenUpInv'
    BY <1>1, <1>3, <2>1 DEF TransferInv, CallbackInv, PresenceInv, GivenUpInv
  <2>4. WaitInv'
    <3> SUFFICES ASSUME client' = "waiting" PROVE WaitInv'
      BY DEF WaitInv
    <3>1. got' = <<>> /\ outbox' = <<>> /\ Len(got') = 0 /\ Len(outbox') = 0
      BY <1>1, <1>2
    <3>2. InOrder(op)'
      <4>1. Part(got, 0, op)' /\ Part(outbox, Len(got), op)'
        BY <3>1 DEF Part
      <4>2. Part(unsent, Len(got) + Len(outbox), op)'
        <5>1. Len(got') + Len(outbox') = 0
          BY <3>1
        <5> QED BY <1>1, <2>1, <5>1 DEF Part
      <4> QED BY <4>1, <4>2 DEF InOrder
    <3>3. Total' = RESPONSE_HEADER + payload'
      BY <1>3, <2>1, <3>1, Sizes DEF Total
    <3> QED BY <1>1, <1>3, <3>2, <3>3, <2>2 DEF WaitInv, TransferInv, PresenceInv
  <2> QED BY <2>2, <2>3, <2>4 DEF TransferInv
<1>4. CASE collectMsgsRequest
  BY <1>3, <1>4, Sizes DEF collectMsgsRequest, AnswerOps, TransferInv, Types
<1>5. CASE shortRequest
  BY <1>3, <1>5, Sizes DEF shortRequest, AnswerOps
<1>6. CASE collectMsgsRaises
  <2> USE <1>6 DEF collectMsgsRaises
  <2>1. Types' /\ ContentsUncut'
    BY <1>1, EmptySeq DEF TransferInv, Types, ContentsUncut
  <2>2. CallbackInv' /\ PresenceInv' /\ GivenUpInv'
    BY <1>1 DEF TransferInv, CallbackInv, PresenceInv, GivenUpInv
  <2>3. WaitInv'
    <3> SUFFICES ASSUME client' = "waiting" PROVE WaitInv'
      BY DEF WaitInv
    <3>1. unsent' = <<>> /\ unsent = <<>>
      BY <1>1 DEF TransferInv, CallbackInv
    <3>2. Total' = 0 /\ \E op \in AnswerOps : InOrder(op)'
      BY <1>1, <1>2, <3>1, Lengths, SameParts DEF TransferInv, WaitInv, Total
    <3> QED BY <1>1, <3>2, Sizes DEF WaitInv
  <2> QED BY <2>1, <2>2, <2>3 DEF TransferInv
<1> QED BY <1>4, <1>5, <1>6

LEMMA UnregisterInv ==
  ASSUME TransferInv, Unregister
  PROVE  TransferInv'
<1> USE DEF Unregister, clientVars, messageVars, sendVars
<1>1. Types' /\ ContentsUncut'
  BY DEF TransferInv, Types, ContentsUncut
<1>2. CallbackInv' /\ PresenceInv' /\ WaitInv' /\ GivenUpInv'
  BY DEF TransferInv, CallbackInv, PresenceInv, WaitInv, GivenUpInv
<1> QED BY <1>1, <1>2 DEF TransferInv

\* While the connection is open and the server sends, its client waits.
LEMMA ClientWaits ==
  ASSUME TransferInv, conn = "open", pc # "select"
  PROVE  /\ client = "waiting" /\ inbox = "none"
         /\ pc = "sending" => Total = RESPONSE_HEADER + payload
         /\ pc # "sending" => Total < RESPONSE_HEADER + payload
<1>1. client = "waiting"
  BY DEF TransferInv, Types, PresenceInv
<1> QED BY <1>1 DEF TransferInv, Types, CallbackInv, WaitInv

LEMMA SendInv ==
  ASSUME TransferInv, send
  PROVE  TransferInv'
<1> USE DEF clientVars, messageVars
<1> DEFINE size == Smaller(Free, Len(unsent))
<1>1. /\ pc = "sending" /\ conn = "open" /\ client = "waiting" /\ inbox = "none"
      /\ Total = RESPONSE_HEADER + payload
  BY ClientWaits DEF send
<1>2. PICK op \in AnswerOps : InOrder(op)
  BY <1>1 DEF TransferInv, WaitInv
<1>3. Types /\ Len(got) \in Nat /\ Len(outbox) \in Nat /\ Len(unsent) \in Nat
  BY Lengths DEF TransferInv
<1>4. /\ size \in 0..Len(unsent)
      /\ outbox' = outbox \o SubSeq(unsent, 1, size)
      /\ unsent' = SubSeq(unsent, size + 1, Len(unsent))
      /\ pc' = IF unsent' = <<>> THEN "select" ELSE "sending"
      /\ UNCHANGED <<up, conn, client, request, inbox, text, content, payload, got>>
  BY <1>3, Sizes DEF send, Free, Smaller
<1> HIDE DEF size
<1>5. /\ outbox' \in Seq(Bytes) /\ unsent' \in Seq(Bytes)
      /\ Len(outbox') = Len(outbox) + size /\ Len(unsent') = Len(unsent) - size
  BY <1>3, <1>4, Passed DEF Types
<1>6. got' = got /\ Len(got') = Len(got) /\ size \in Nat /\ request' = request
  BY <1>3, <1>4
<1>7. Total' = Total
  BY <1>3, <1>5, <1>6 DEF Total
<1>8. InOrder(op)'
  <2>1. Part(got, 0, op) /\ Part(outbox, Len(got), op) /\ Part(unsent, Len(got) + Len(outbox), op)
    BY <1>2 DEF InOrder
  <2>2. Part(outbox', Len(got), op) /\ Part(unsent', Len(got) + Len(outbox) + size, op)
    BY <1>3, <1>4, <2>1, PartPassed DEF Types
  <2>3. Len(got) + Len(outbox) + size = Len(got') + Len(outbox')
    BY <1>3, <1>5, <1>6
  <2>4. Part(got', 0, op) /\ Part(outbox', Len(got'), op) /\ Part(unsent', Len(got') + Len(outbox'), op)
    BY <1>6, <2>1, <2>2, <2>3
  <2> QED BY <1>6, <2>4 DEF InOrder, Part
<1>9. pc' \in {"select", "sending"} /\ (pc' = "sending" <=> unsent' # <<>>)
  BY <1>4
<1>10. Types' /\ ContentsUncut'
  BY <1>4, <1>5, <1>9 DEF TransferInv, Types, ContentsUncut
<1>11. CallbackInv' /\ PresenceInv' /\ GivenUpInv'
  BY <1>1, <1>4, <1>9 DEF TransferInv, CallbackInv, PresenceInv, GivenUpInv
<1>12. WaitInv'
  BY <1>1, <1>4, <1>7, <1>8, <1>9 DEF WaitInv
<1> QED BY <1>10, <1>11, <1>12 DEF TransferInv

\* A full buffer with bytes left to send: the answer is longer than the buffer.
LEMMA SendBlocksInv ==
  ASSUME TransferInv, sendBlocks
  PROVE  TransferInv'
<1> USE DEF sendBlocks, clientVars, messageVars
<1>1. client = "waiting" /\ inbox = "none" /\ Total = RESPONSE_HEADER + payload
  BY ClientWaits
<1>2. /\ Len(got) \in Nat /\ Len(outbox) \in Nat /\ Len(unsent) \in Nat /\ payload \in Nat
      /\ Len(unsent) # 0
  BY Lengths DEF TransferInv, CallbackInv, Types
<1>3. Len(outbox) = BufferSize
  BY <1>2, Sizes DEF Free
<1>4. RESPONSE_HEADER + payload > BufferSize
  BY <1>1, <1>2, <1>3, Sizes DEF Total
<1>5. Types' /\ ContentsUncut'
  BY EmptySeq DEF TransferInv, Types, ContentsUncut
<1>6. CallbackInv' /\ PresenceInv' /\ GivenUpInv'
  BY <1>1, <1>4 DEF TransferInv, CallbackInv, PresenceInv, GivenUpInv
<1>7. WaitInv'
  <2>1. Len(got') = Len(got) /\ Len(outbox') = Len(outbox) /\ Len(unsent') = 0
    BY EmptySeq
  <2>2. Total' < RESPONSE_HEADER + payload'
    BY <1>1, <1>2, <2>1, Sizes DEF Total
  <2>3. PICK op \in AnswerOps : InOrder(op)
    BY <1>1 DEF TransferInv, WaitInv
  <2>4. InOrder(op)'
    BY <2>1, <2>3 DEF InOrder, Part
  <2> QED BY <1>1, <2>2, <2>3, <2>4 DEF WaitInv
<1> QED BY <1>5, <1>6, <1>7 DEF TransferInv

\* To a client that is gone there is nothing to keep in order.
LEMMA SendToNobodyInv ==
  ASSUME TransferInv, sendToNobody \/ sendFails \/ flushAtEnd \/ flushAfterReset
  PROVE  TransferInv'
<1> USE DEF clientVars, messageVars, sendVars
<1>1. client = "gone" /\ client' = "gone"
  BY DEF TransferInv, PresenceInv, sendToNobody, sendFails, flushAtEnd, flushAfterReset
<1>2. WaitInv'
  BY <1>1 DEF WaitInv
<1>3. CASE sendToNobody \/ sendFails \/ flushAfterReset
  <2> USE <1>3 DEF sendToNobody, sendFails, flushAfterReset
  <2>1. Types' /\ ContentsUncut'
    BY EmptySeq DEF TransferInv, Types, ContentsUncut
  <2>2. CallbackInv'
    BY DEF TransferInv, CallbackInv
  <2>3. PresenceInv' /\ GivenUpInv'
    BY <1>1 DEF TransferInv, PresenceInv, GivenUpInv
  <2> QED BY <1>2, <2>1, <2>2, <2>3 DEF TransferInv
<1>4. CASE flushAtEnd
  <2> USE <1>4 DEF flushAtEnd
  <2>1. request \in 1..MaxRequests
    BY Sizes DEF TransferInv, Types, CallbackInv
  <2>2. unsent' \in Seq(Bytes) /\ unsent' # <<>>
    BY <2>1, NewAnswer
  <2>3. Types' /\ ContentsUncut'
    BY <2>2 DEF TransferInv, Types, ContentsUncut
  <2>4. CallbackInv' /\ PresenceInv' /\ GivenUpInv'
    BY <1>1, <2>2 DEF TransferInv, CallbackInv, PresenceInv, GivenUpInv
  <2> QED BY <1>2, <2>3, <2>4 DEF TransferInv
<1> QED BY <1>3, <1>4

LEMMA ClosingInv ==
  ASSUME TransferInv, flushBlocks \/ disconnect_client
  PROVE  TransferInv'
<1> USE DEF flushBlocks, disconnect_client, clientVars, messageVars, sendVars
<1>1. Types' /\ ContentsUncut'
  BY DEF TransferInv, Types, ContentsUncut
<1>2. CallbackInv' /\ GivenUpInv'
  BY DEF TransferInv, CallbackInv, GivenUpInv
<1>3. PresenceInv'
  <2>1. conn = "open" => client = "waiting"
    BY ClientWaits
  <2> QED BY <2>1 DEF TransferInv, CallbackInv, PresenceInv
<1>4. WaitInv'
  <2> SUFFICES ASSUME client' = "waiting" PROVE WaitInv'
    BY DEF WaitInv
  <2>1. conn = "open" /\ pc \in {"failed", "closing"}
    BY DEF TransferInv, PresenceInv, CallbackInv
  <2>2. inbox = "none" /\ Total < RESPONSE_HEADER + payload
    BY <2>1, ClientWaits
  <2> QED BY <2>1, <2>2, SameParts DEF TransferInv, WaitInv
<1> QED BY <1>1, <1>2, <1>3, <1>4 DEF TransferInv

-----------------------------------------------------------------------------
(* The theorems. *)

LEMMA TransferInit == Init => TransferInv
<1> SUFFICES ASSUME Init PROVE TransferInv
  OBVIOUS
<1> USE DEF Init
<1>1. Types /\ ContentsUncut
  BY Sizes, EmptySeq DEF Types, ContentsUncut
<1> QED BY <1>1 DEF TransferInv, CallbackInv, PresenceInv, WaitInv, GivenUpInv

LEMMA TransferStep ==
  ASSUME TransferInv, [Next]_vars
  PROVE  TransferInv'
<1>1. CASE UNCHANGED vars
  <2>1. UNCHANGED <<up, conn, client, request, inbox, got, text, content, pc, payload, unsent, outbox>>
    BY <1>1 DEF vars, clientVars, messageVars, sendVars
  <2>2. Types' /\ ContentsUncut'
    BY <2>1 DEF TransferInv, Types, ContentsUncut
  <2>3. CallbackInv' /\ PresenceInv' /\ GivenUpInv'
    BY <2>1 DEF TransferInv, CallbackInv, PresenceInv, GivenUpInv
  <2>4. WaitInv'
    BY <2>1, SameParts DEF TransferInv, WaitInv
  <2> QED BY <2>2, <2>3, <2>4 DEF TransferInv
<1>2. CASE handle_client
  BY <1>2, HandleRequestInv, UnregisterInv, SendInv, SendBlocksInv, SendToNobodyInv, ClosingInv
     DEF handle_client
<1> QED BY <1>1, <1>2, SendMessageInv, AskInv, ReceiveMessageInv, AnsweredInv, DisconnectedInv,
        LeaveInv, StartInv DEF Next

LEMMA TransferInvariant == Spec => []TransferInv
<1>1. TransferInv /\ [Next]_vars => TransferInv'
  BY TransferStep
<1> QED BY <1>1, TransferInit, PTL DEF Spec

\* Sizes, bytes and states of connection, client and callback keep their types.
THEOREM TransferTypeCorrect == Spec => []TransferTypeOK
<1>1. TransferInv => TransferTypeOK
  <2>1. [request : 1..MaxRequests, at : Nat \ {0},
         op : {"RESP_USER_LIST", "RESP_AWAITING_MESSAGES", "RESP_GENERAL_ERROR"}] = Bytes
    BY DEF Bytes, AnswerOps
  <2> QED BY <2>1 DEF TransferInv, Types, TransferTypeOK
<1> QED BY <1>1, TransferInvariant, PTL

\* Whatever the word, the block and the headers measure, the content that is
\* stored is as long as the one that was encrypted: the check in messageHandler
\* leaves room for the padding only because a block is no longer than the header.
THEOREM NothingIsCut == Spec => []ContentsUncut
<1>1. TransferInv => ContentsUncut
  BY DEF TransferInv
<1> QED BY <1>1, TransferInvariant, PTL

\* For every size of answers and buffers, the bytes a client reads are those of
\* the answer to its present request, from the first on.
THEOREM NoAnswersMixed == Spec => []AnswersUnmixed
<1>1. TransferInv => AnswersUnmixed
  <2> SUFFICES ASSUME TransferInv, NEW at \in 1..Len(got)
               PROVE  got[at].request = request /\ got[at].at = at /\ got[at].op = got[1].op
    BY DEF AnswersUnmixed
  <2>1. Len(got) \in Nat /\ client = "waiting"
    BY Lengths DEF TransferInv, PresenceInv
  <2>2. PICK op \in AnswerOps : Part(got, 0, op)
    BY <2>1 DEF TransferInv, WaitInv, InOrder
  <2>3. 1 \in 1..Len(got) /\ 0 + at = at
    BY <2>1
  <2> QED BY <2>2, <2>3 DEF Part
<1> QED BY <1>1, TransferInvariant, PTL

\* The server closes the connection of a client that is there only for want of
\* an answer, or because of one that is longer than the connection's buffer.
THEOREM ShortAnswersAlwaysArrive == Spec => ShortAnswersArrive
<1>1. TransferInv /\ [Next]_vars =>
        [conn = "open" /\ conn' = "closed" => payload = 0 \/ RESPONSE_HEADER + payload > BufferSize]_vars
  <2> SUFFICES ASSUME TransferInv, Next, conn = "open", conn' = "closed"
               PROVE  payload = 0 \/ RESPONSE_HEADER + payload > BufferSize
    OBVIOUS
  <2>1. CASE handle_client
    <3>1. disconnect_client
      BY <2>1 DEF handle_client, handle_request, Unregister, send, sendBlocks, sendToNobody,
         sendFails, flushBlocks, flushAtEnd, flushAfterReset
    <3> QED BY <3>1 DEF disconnect_client, TransferInv, GivenUpInv
  <2> QED BY <2>1 DEF Next, SendMessage, Ask, receiveMessage, Answered, Disconnected, Leave, Start
<1> QED BY <1>1, TransferInvariant, PTL DEF Spec, ShortAnswersArrive

=============================================================================
