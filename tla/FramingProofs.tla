--------------------------- MODULE FramingProofs ---------------------------
(***************************************************************************)
(* Theorems about the framing of requests, for every size of buffers,      *)
(* headers and contents and any number of requests in a session.           *)
(***************************************************************************)
EXTENDS Framing, Maxima, SequenceTheorems, TLAPS

-----------------------------------------------------------------------------
(* The bytes of a session, in the order the client writes them. *)

ByteAt(n, i) == [request |-> n, at |-> i]

\* The byte after b: the next one of its request, or the first of the next.
Succ(b) ==
  IF b.at < Length(sent[b.request]) THEN ByteAt(b.request, b.at + 1) ELSE ByteAt(b.request + 1, 1)

\* Number of writes of a request.
Count(r) == (Length(r) + MAX_BUFFER - 1) \div MAX_BUFFER

\* s holds bytes of request n, from the one after place b on.
IsPart(s, n, b) == \A i \in 1..Len(s) : s[i] = ByteAt(n, b + i)

\* Number of bytes in the writes before the k-th.
Before(k) == (k - 1) * MAX_BUFFER

\* The place where the k-th write, c, ends.
End(k, c) == Before(k) + Len(c)

\* The next byte the client writes, now or when it chooses again.
Frontier == IF client = "writing" THEN Head(chunks)[1] ELSE ByteAt(Len(sent) + 1, 1)

\* The next byte the server reads.
NextByte == IF inbox # <<>> THEN Head(inbox) ELSE Frontier

NoError == \A i \in 1..Len(answers) : answers[i] # "RESP_GENERAL_ERROR"

-----------------------------------------------------------------------------
(* The inductive invariant. *)

SentBytes == [request : 1..Len(sent), at : Nat \ {0}]

\* FramingTypeOK.
Types ==
  /\ client \in {"menu", "writing", "waiting", "gone"}
  /\ sent \in Seq(Requests)
  /\ chunks \in Seq(Seq(SentBytes))
  /\ read \in 0..Len(answers)
  /\ conn \in {"open", "eof", "closed", "off"}
  /\ inbox \in Seq(SentBytes) /\ content \in Seq(SentBytes)
  /\ pc \in {"select", "content", "failed"}
  /\ current \in 0..Len(sent)
  /\ stored \subseteq [request : 1..Len(sent), content : Seq(SentBytes)]
  /\ answers \in Seq({"RESP_USER_LIST", "RESP_MSG_SENT_TO_USER", "RESP_GENERAL_ERROR"})

\* Nothing is read from a connection that is closed.
PlaceInv ==
  /\ client = "gone" <=> conn \in {"eof", "off"}
  /\ conn \in {"closed", "off"} => inbox = <<>> /\ pc = "select"

\* The writes still to be made are the last ones of the last request.
ChunksInv ==
  LET m == Len(sent) IN
  IF client = "writing"
  THEN /\ m > 0
       /\ \E j \in 0..(Count(sent[m]) - 1) :
            /\ Len(chunks) = Count(sent[m]) - j
            /\ \A k \in 1..Len(chunks) : chunks[k] = createMessage(Bytes(m, sent[m]))[j + k]
  ELSE chunks = <<>>

\* What the server has still to read is consecutive, ends where a write ended,
\* and the client goes on from there.
StreamInv ==
  /\ \A i \in 1..Len(inbox) : inbox[i].at <= Length(sent[inbox[i].request])
  /\ \A i \in 1..(Len(inbox) - 1) : inbox[i + 1] = Succ(inbox[i])
  /\ inbox # <<>> =>
       LET last == inbox[Len(inbox)] IN
       /\ last.at >= MAX_BUFFER \/ last.at = Length(sent[last.request])
       /\ conn = "open" => Frontier = Succ(last)

\* A content is read from its first byte on, and read on where it was left.
ContentInv ==
  pc = "content" =>
    /\ current > 0 /\ sent[current] # ShortRequest
    /\ Len(content) <= sent[current].size
    /\ IsPart(content, current, BeforeContent)
    /\ inbox # <<>> \/ conn = "open" => NextByte = Succ(ByteAt(current, BeforeContent + Len(content)))

\* AlignedUntilFirstError, also while nothing has arrived.
AlignedInv == pc = "select" /\ conn = "open" /\ NoError => NextByte.at = 1

\* Requests that are still to begin come after request n.
After(n) ==
  /\ \A i \in 1..Len(inbox) : inbox[i].at = 1 => n < inbox[i].request
  /\ conn = "open" /\ Frontier.at = 1 => n < Frontier.request

\* They come after all that was stored, is being read or is on its way.
OrderInv ==
  /\ \A i, j \in 1..Len(inbox) : i < j /\ inbox[j].at = 1 => inbox[i].request < inbox[j].request
  /\ conn = "open" /\ Frontier.at = 1 => \A i \in 1..Len(inbox) : inbox[i].request < Frontier.request
  /\ \A row \in stored : After(row.request)
  /\ pc = "content" => After(current) /\ \A row \in stored : row.request < current

FramingInv ==
  /\ Types /\ PlaceInv /\ ChunksInv /\ StreamInv /\ ContentInv /\ AlignedInv /\ OrderInv
  /\ StoredWholeOrEmpty

-----------------------------------------------------------------------------
(* Sizes, and the writes of a request. *)

LEMMA Sizes ==
  /\ MAX_BUFFER \in Nat \ {0} /\ HEADER_SIZE \in Nat \ {0} /\ PAYLOAD_HEADER_SIZE \in Nat \ {0}
  /\ BeforeContent \in Nat \ {0} /\ HEADER_SIZE < BeforeContent /\ BeforeContent <= MAX_BUFFER
BY FramingAssumption DEF BeforeContent

LEMMA Lengths ==
  ASSUME NEW r \in Requests
  PROVE  /\ Length(r) \in Nat \ {0}
         /\ r = ShortRequest => Length(r) = HEADER_SIZE
         /\ r # ShortRequest => r.size \in Nat \ {0} /\ Length(r) = BeforeContent + r.size
<1>1. CASE r = ShortRequest
  BY <1>1, Sizes DEF Length
<1>2. CASE r # ShortRequest
  <2>1. r.size \in Nat \ {0}
    BY <1>2, FramingAssumption DEF Requests, MessageRequest
  <2> QED BY <1>2, <2>1, Sizes DEF Length
<1> QED BY <1>1, <1>2

LEMMA TakenAndLeft ==
  ASSUME NEW S, NEW s \in Seq(S), NEW k \in 0..Len(s)
  PROVE  /\ Taken(k, s) \in Seq(S) /\ Left(k, s) \in Seq(S)
         /\ Len(Taken(k, s)) = k /\ Len(Left(k, s)) = Len(s) - k
         /\ \A i \in 1..k : Taken(k, s)[i] = s[i]
         /\ \A i \in 1..(Len(s) - k) : Left(k, s)[i] = s[k + i]
<1> DEFINE first == SubSeq(s, 1, k)
           rest == SubSeq(s, k + 1, Len(s))
<1>1. Len(s) \in Nat /\ \A i \in 1..Len(s) : s[i] \in S
  BY LenProperties, ElementOfSeq
<1>2. first \in Seq(S) /\ Len(first) = k /\ \A i \in 1..k : first[i] = s[i]
  <2>1. \A i \in 1..k : s[i] \in S
    BY <1>1
  <2>2. /\ first \in Seq(S)
        /\ Len(first) = IF 1 <= k THEN k - 1 + 1 ELSE 0
        /\ \A i \in 1..(k - 1 + 1) : first[i] = s[1 + i - 1]
    BY <1>1, <2>1, SubSeqProperties
  <2> HIDE DEF first
  <2> QED BY <1>1, <2>2
<1>3. /\ rest \in Seq(S) /\ Len(rest) = Len(s) - k
      /\ \A i \in 1..(Len(s) - k) : rest[i] = s[k + i]
  <2>1. \A i \in (k + 1)..Len(s) : s[i] \in S
    BY <1>1
  <2>2. /\ rest \in Seq(S)
        /\ Len(rest) = IF k + 1 <= Len(s) THEN Len(s) - (k + 1) + 1 ELSE 0
        /\ \A i \in 1..(Len(s) - (k + 1) + 1) : rest[i] = s[(k + 1) + i - 1]
    BY <1>1, <2>1, SubSeqProperties
  <2> HIDE DEF rest
  <2> QED BY <1>1, <2>2
<1>4. Taken(k, s) = first /\ Left(k, s) = rest
  BY <1>1 DEF Taken, Left, AtMost
<1> QED BY <1>2, <1>3, <1>4

\* Nothing more than all of s is taken.
LEMMA AtMostAll ==
  ASSUME NEW S, NEW s \in Seq(S), NEW k \in Nat
  PROVE  /\ AtMost(k, s) \in 0..Len(s)
         /\ k <= Len(s) => AtMost(k, s) = k
         /\ k > Len(s) => AtMost(k, s) = Len(s)
         /\ Taken(k, s) = Taken(AtMost(k, s), s)
         /\ Left(k, s) = Left(AtMost(k, s), s)
<1>1. Len(s) \in Nat
  BY LenProperties
<1>2. CASE k <= Len(s)
  <2>1. AtMost(k, s) = k
    BY <1>2 DEF AtMost
  <2> QED BY <1>1, <1>2, <2>1
<1>3. CASE k > Len(s)
  <2>1. AtMost(k, s) = Len(s) /\ AtMost(Len(s), s) = Len(s)
    BY <1>1, <1>3 DEF AtMost
  <2> QED BY <1>1, <1>3, <2>1 DEF Taken, Left
<1> QED BY <1>1, <1>2, <1>3

LEMMA BytesOfRequest ==
  ASSUME NEW n \in Nat \ {0}, NEW r \in Requests
  PROVE  /\ Bytes(n, r) \in Seq([request : {n}, at : Nat \ {0}])
         /\ Len(Bytes(n, r)) = Length(r)
         /\ \A i \in 1..Length(r) : Bytes(n, r)[i] = ByteAt(n, i)
<1> DEFINE l == Length(r)
           bytes == [i \in 1..l |-> [request |-> n, at |-> i]]
<1>1. l \in Nat \ {0}
  BY Lengths
<1> HIDE DEF l
<1>2. bytes \in [1..l -> [request : {n}, at : Nat \ {0}]]
  BY <1>1
<1>3. bytes \in Seq([request : {n}, at : Nat \ {0}]) /\ Len(bytes) = l
  BY <1>1, <1>2
<1> QED BY <1>3 DEF Bytes, ByteAt, l, bytes

LEMMA Counts ==
  ASSUME NEW r \in Requests
  PROVE  Count(r) \in Nat
<1>1. PICK l : l = Length(r)
  OBVIOUS
<1>2. l \in Nat \ {0}
  BY <1>1, Lengths
<1>3. (l + MAX_BUFFER - 1) \div MAX_BUFFER \in Nat
  BY <1>2, Sizes
<1> QED BY <1>1, <1>3 DEF Count

\* Multiples of the size of a write, and the number of writes.
LEMMA Writes ==
  ASSUME NEW l \in Nat \ {0}, NEW c, c = (l + MAX_BUFFER - 1) \div MAX_BUFFER, NEW k \in 1..c
  PROVE  /\ c \in Nat \ {0}
         /\ (k - 1) * MAX_BUFFER \in Nat /\ (k - 1) * MAX_BUFFER < l
         /\ k * MAX_BUFFER = (k - 1) * MAX_BUFFER + MAX_BUFFER
         /\ k < c => k * MAX_BUFFER < l
         /\ k = c => l <= k * MAX_BUFFER
         /\ l <= MAX_BUFFER => c = 1
<1> DEFINE m == MAX_BUFFER
<1>1. m \in Nat \ {0}
  BY Sizes
<1> HIDE DEF m
<1>2. c \in Nat /\ c * m <= l + m - 1 /\ l + m - 1 < c * m + m
  <2>1. c = (l + m - 1) \div m
    BY DEF m
  <2> QED BY <1>1, <2>1
<1>3. k \in Nat /\ k >= 1 /\ k <= c
  BY <1>2
<1>4. k * m = (k - 1) * m + m /\ (k - 1) * m \in Nat
  BY <1>1, <1>3
<1>5. k * m <= c * m
  BY <1>1, <1>2, <1>3
<1>6. k < c => k * m + m <= c * m
  <2> SUFFICES ASSUME k < c PROVE k * m + m <= c * m
    OBVIOUS
  <2>1. (k + 1) * m = k * m + m /\ k + 1 <= c
    BY <1>1, <1>2, <1>3
  <2>2. (k + 1) * m <= c * m
    BY <1>1, <1>2, <1>3, <2>1
  <2> QED BY <2>1, <2>2
<1>7. c * m \in Nat
  BY <1>1, <1>2
<1>8. l <= m => c = 1
  <2> SUFFICES ASSUME l <= m, c >= 2 PROVE FALSE
    BY <1>2, <1>3
  <2>1. 2 * m <= c * m
    BY <1>1, <1>2
  <2> QED BY <1>1, <1>2, <2>1
<1> QED BY <1>1, <1>2, <1>3, <1>4, <1>5, <1>6, <1>7, <1>8 DEF m

\* The k-th write of a request.
LEMMA Write ==
  ASSUME NEW n \in Nat \ {0}, NEW r \in Requests, NEW k \in 1..Count(r), NEW c,
         c = createMessage(Bytes(n, r))[k]
  PROVE  /\ c \in Seq([request : {n}, at : Nat \ {0}])
         /\ Before(k) \in Nat /\ Len(c) \in Nat \ {0} /\ (k = 1 => Before(k) = 0)
         /\ IsPart(c, n, Before(k))
         /\ k < Count(r) => Before(k + 1) = End(k, c) /\ End(k, c) < Length(r) /\ End(k, c) >= MAX_BUFFER
         /\ End(k, c) <= Length(r) /\ (End(k, c) < Length(r) => k < Count(r))
<1> PICK before : before = (k - 1) * MAX_BUFFER
  OBVIOUS
<1> DEFINE bytes == Bytes(n, r)
           S == [request : {n}, at : Nat \ {0}]
           rest == Left(before, bytes)
<1>1. /\ bytes \in Seq(S) /\ Len(bytes) = Length(r) /\ Length(r) \in Nat \ {0}
      /\ \A i \in 1..Length(r) : bytes[i] = ByteAt(n, i)
  BY BytesOfRequest, Lengths
<1> HIDE DEF bytes
<1>2. /\ k \in Nat /\ Count(r) \in Nat
      /\ before \in Nat /\ before < Length(r) /\ k * MAX_BUFFER = before + MAX_BUFFER
      /\ k < Count(r) => before + MAX_BUFFER < Length(r)
      /\ k = Count(r) => Length(r) <= before + MAX_BUFFER
  BY <1>1, Writes DEF Count
<1>3. c = Taken(MAX_BUFFER, rest)
  BY <1>1 DEF createMessage, Count, bytes
<1> HIDE DEF S
<1>4. before \in 0..Len(bytes)
  BY <1>1, <1>2
<1>5. /\ rest \in Seq(S) /\ Len(rest) = Length(r) - before
      /\ \A i \in 1..(Length(r) - before) : rest[i] = bytes[before + i]
  <2>1. /\ Left(before, bytes) \in Seq(S) /\ Len(Left(before, bytes)) = Len(bytes) - before
        /\ \A i \in 1..(Len(bytes) - before) : Left(before, bytes)[i] = bytes[before + i]
    <3>1. bytes \in Seq(S)
      BY <1>1
    <3> QED BY <1>4, <3>1, TakenAndLeft
  <2>2. Len(bytes) = Length(r)
    BY <1>1
  <2> QED BY <2>1, <2>2
<1> HIDE DEF rest
<1>6. PICK l : l = AtMost(MAX_BUFFER, rest)
  OBVIOUS
<1>7. /\ l \in 0..Len(rest)
      /\ MAX_BUFFER <= Len(rest) => l = MAX_BUFFER
      /\ MAX_BUFFER > Len(rest) => l = Len(rest)
      /\ c = Taken(l, rest)
  BY <1>3, <1>5, <1>6, Sizes, AtMostAll
<1>8. c \in Seq(S) /\ Len(c) = l /\ \A i \in 1..l : c[i] = rest[i]
  <2>1. /\ Taken(l, rest) \in Seq(S) /\ Len(Taken(l, rest)) = l
        /\ \A i \in 1..l : Taken(l, rest)[i] = rest[i]
    BY <1>5, <1>7, TakenAndLeft
  <2> QED BY <1>7, <2>1
<1>9. /\ Len(c) \in Nat \ {0} /\ Len(c) <= Length(r) - before
      /\ MAX_BUFFER <= Length(r) - before => Len(c) = MAX_BUFFER
      /\ MAX_BUFFER > Length(r) - before => Len(c) = Length(r) - before
  BY <1>1, <1>2, <1>5, <1>7, <1>8, Sizes
<1>10. ASSUME NEW i \in 1..Len(c) PROVE c[i] = ByteAt(n, before + i)
  <2>1. c[i] = rest[i] /\ i \in 1..(Length(r) - before) /\ before + i \in 1..Length(r)
    BY <1>1, <1>2, <1>8, <1>9
  <2> QED BY <1>1, <1>5, <2>1
<1>11. k < Count(r) => Len(c) = MAX_BUFFER
  BY <1>1, <1>2, <1>9, Sizes
<1>12. k = Count(r) => before + Len(c) = Length(r)
  <2>1. CASE MAX_BUFFER <= Length(r) - before
    <3>1. Len(c) = MAX_BUFFER
      BY <1>9, <2>1
    <3> QED BY <1>1, <1>2, <2>1, <3>1, Sizes
  <2>2. CASE MAX_BUFFER > Length(r) - before
    <3>1. Len(c) = Length(r) - before
      BY <1>9, <2>2
    <3> QED BY <1>1, <1>2, <3>1
  <2> QED BY <1>1, <1>2, <2>1, <2>2, Sizes
<1>13. before = Before(k) /\ Before(k + 1) = k * MAX_BUFFER /\ (k = 1 => before = 0)
  <2>1. before = Before(k) /\ k + 1 - 1 = k
    BY <1>2 DEF Before
  <2>2. k = 1 => before = 0
    BY Sizes
  <2> QED BY <2>1, <2>2 DEF Before
<1>14. k < Count(r) => /\ Before(k + 1) = before + Len(c) /\ before + Len(c) < Length(r)
                       /\ before + Len(c) >= MAX_BUFFER
  <2> SUFFICES ASSUME k < Count(r)
               PROVE  /\ Before(k + 1) = before + Len(c) /\ before + Len(c) < Length(r)
                      /\ before + Len(c) >= MAX_BUFFER
    OBVIOUS
  <2>1. Len(c) = MAX_BUFFER /\ Before(k + 1) = before + MAX_BUFFER /\ before + MAX_BUFFER < Length(r)
    BY <1>2, <1>11, <1>13
  <2> QED BY <1>2, <2>1, Sizes
<1>15. c \in Seq([request : {n}, at : Nat \ {0}])
  BY <1>8 DEF S
<1>16. IsPart(c, n, before)
  BY <1>10 DEF IsPart
<1>17. before + Len(c) <= Length(r) /\ (before + Len(c) < Length(r) => k < Count(r))
  BY <1>1, <1>2, <1>9, <1>12
<1> QED BY <1>2, <1>9, <1>13, <1>14, <1>15, <1>16, <1>17 DEF End

-----------------------------------------------------------------------------
(* Reading from the stream. *)

LEMMA InboxTypes ==
  ASSUME Types
  PROVE  /\ Len(inbox) \in Nat /\ Len(content) \in Nat /\ Len(sent) \in Nat /\ Len(answers) \in Nat
         /\ inbox = <<>> <=> Len(inbox) = 0
         /\ inbox # <<>> => Head(inbox) = inbox[1]
         /\ \A i \in 1..Len(inbox) : inbox[i] \in SentBytes
         /\ \A n \in 1..Len(sent) : sent[n] \in Requests
BY LenProperties, ElementOfSeq, EmptySeq DEF Types

\* From one byte of a request on, the inbox holds the rest of it.
LEMMA Run ==
  ASSUME Types, StreamInv, NEW n \in 1..Len(sent), NEW a \in Nat \ {0}, NEW k \in 1..Len(inbox),
         inbox[1] = ByteAt(n, a), a + k - 1 <= Length(sent[n])
  PROVE  \A i \in 1..k : inbox[i] = ByteAt(n, a + i - 1)
<1> DEFINE bad == {i \in 1..k : inbox[i] # ByteAt(n, a + i - 1)}
<1> SUFFICES ASSUME bad # {} PROVE FALSE
  OBVIOUS
<1>1. Len(inbox) \in Nat /\ Len(sent) \in Nat /\ Length(sent[n]) \in Nat
  BY InboxTypes, Lengths
<1>2. bad \in SUBSET Nat
  BY <1>1
<1>3. PICK i \in bad : \A j \in bad : i <= j
  <2> HIDE DEF bad
  <2> QED BY <1>2, HasMinimum
<1>4. i # 1 /\ i \in 2..k /\ i - 1 \in 1..k /\ i - 1 \notin bad
  <2>1. i \in 1..k /\ k \in Nat
    BY <1>1
  <2>2. i # 1
    BY <1>3
  <2>3. i - 1 \notin bad
    <3> HIDE DEF bad
    <3> QED BY <1>1, <1>2, <1>3, <2>1, <2>2
  <2> QED BY <2>1, <2>2, <2>3
<1>5. inbox[i - 1] = ByteAt(n, a + (i - 1) - 1)
  BY <1>4
<1>6. inbox[i] = Succ(inbox[i - 1])
  <2>1. i - 1 \in 1..(Len(inbox) - 1) /\ (i - 1) + 1 = i
    BY <1>1, <1>4
  <2>2. \A j \in 1..(Len(inbox) - 1) : inbox[j + 1] = Succ(inbox[j])
    BY DEF StreamInv
  <2>3. inbox[(i - 1) + 1] = Succ(inbox[i - 1])
    BY <2>1, <2>2
  <2> QED BY <2>1, <2>3
<1>7. Succ(inbox[i - 1]) = ByteAt(n, a + i - 1)
  <2>1. a + (i - 1) - 1 < Length(sent[n]) /\ a + (i - 1) - 1 + 1 = a + i - 1
    BY <1>1, <1>4
  <2> QED BY <1>5, <2>1 DEF Succ, ByteAt
<1> QED BY <1>3, <1>6, <1>7

\* Reading k bytes leaves the stream as it is from there on.
LEMMA ReadOn ==
  ASSUME Types, StreamInv, NEW k \in 0..Len(inbox), inbox' = Left(k, inbox),
         UNCHANGED <<client, sent, chunks, conn>>
  PROVE  /\ inbox' \in Seq(SentBytes) /\ Len(inbox') = Len(inbox) - k
         /\ \A i \in 1..(Len(inbox) - k) : inbox'[i] = inbox[k + i]
         /\ StreamInv'
         /\ k > 0 /\ (inbox' # <<>> \/ conn = "open") => NextByte' = Succ(inbox[k])
         /\ \A n : After(n) => After(n)'
<1>1. Len(inbox) \in Nat /\ Len(sent) \in Nat
  BY InboxTypes
<1>2. /\ inbox' \in Seq(SentBytes) /\ Len(inbox') = Len(inbox) - k
      /\ \A i \in 1..(Len(inbox) - k) : inbox'[i] = inbox[k + i]
  BY <1>1, TakenAndLeft DEF Types
<1>3. Frontier' = Frontier /\ \A b : Succ(b)' = Succ(b)
  BY DEF Frontier, Succ
<1>4. inbox' = <<>> <=> k = Len(inbox)
  BY <1>1, <1>2, EmptySeq
<1>5. ASSUME NEW i \in 1..Len(inbox')
      PROVE  inbox'[i].at <= Length(sent[inbox'[i].request])
  <2>1. k + i \in 1..Len(inbox) /\ inbox'[i] = inbox[k + i]
    BY <1>1, <1>2
  <2> QED BY <2>1 DEF StreamInv
<1>6. ASSUME NEW i \in 1..(Len(inbox') - 1)
      PROVE  inbox'[i + 1] = Succ(inbox'[i])
  <2>1. /\ k + i \in 1..(Len(inbox) - 1) /\ (k + i) + 1 = k + (i + 1)
        /\ inbox'[i] = inbox[k + i] /\ inbox'[i + 1] = inbox[k + (i + 1)]
    BY <1>1, <1>2
  <2>2. inbox[(k + i) + 1] = Succ(inbox[k + i])
    BY <2>1 DEF StreamInv
  <2> QED BY <2>1, <2>2
<1>7. inbox' # <<>> => inbox # <<>> /\ inbox'[Len(inbox')] = inbox[Len(inbox)]
  <2> SUFFICES ASSUME inbox' # <<>> PROVE inbox # <<>> /\ inbox'[Len(inbox')] = inbox[Len(inbox)]
    OBVIOUS
  <2>1. Len(inbox') \in 1..(Len(inbox) - k) /\ k + Len(inbox') = Len(inbox) /\ Len(inbox) # 0
    BY <1>1, <1>2, <1>4
  <2> QED BY <1>2, <2>1, InboxTypes
<1>8. StreamInv'
  <2>1. inbox' # <<>> =>
          /\ inbox'[Len(inbox')].at >= MAX_BUFFER
             \/ inbox'[Len(inbox')].at = Length(sent[inbox'[Len(inbox')].request])
          /\ conn = "open" => Frontier = Succ(inbox'[Len(inbox')])
    BY <1>7 DEF StreamInv
  <2> QED BY <1>3, <1>5, <1>6, <2>1 DEF StreamInv
<1>9. ASSUME k > 0, inbox' # <<>> \/ conn = "open" PROVE NextByte' = Succ(inbox[k])
  <2>1. CASE inbox' # <<>>
    <3>1. k \in 1..(Len(inbox) - 1) /\ 1 \in 1..(Len(inbox) - k) /\ inbox'[1] = inbox[k + 1]
      BY <1>1, <1>2, <1>4, <1>9, <2>1
    <3>2. Head(inbox') = inbox'[1]
      BY <1>2, <2>1
    <3> QED BY <2>1, <3>1, <3>2 DEF NextByte, StreamInv
  <2>2. CASE inbox' = <<>>
    <3>1. k = Len(inbox) /\ inbox # <<>> /\ conn = "open"
      BY <1>1, <1>4, <1>9, <2>2, InboxTypes
    <3> QED BY <1>3, <2>2, <3>1 DEF NextByte, StreamInv
  <2> QED BY <2>1, <2>2
<1>10. ASSUME NEW n, After(n) PROVE After(n)'
  <2>1. ASSUME NEW i \in 1..Len(inbox'), inbox'[i].at = 1 PROVE n < inbox'[i].request
    <3>1. k + i \in 1..Len(inbox) /\ inbox'[i] = inbox[k + i]
      BY <1>1, <1>2
    <3> QED BY <1>10, <2>1, <3>1 DEF After
  <2> QED BY <1>3, <1>10, <2>1 DEF After
<1> QED BY <1>2, <1>8, <1>9, <1>10

-----------------------------------------------------------------------------
(* The client. *)

\* The next write, and the one after it.
LEMMA NextWrite ==
  ASSUME Types, ChunksInv, client = "writing", NEW m, m = Len(sent), NEW c, c = Head(chunks)
  PROVE  /\ m \in Nat \ {0} /\ Len(chunks) \in Nat \ {0}
         /\ c \in Seq(SentBytes) /\ Len(c) \in Nat \ {0}
         /\ \E at \in Nat :
              /\ IsPart(c, m, at)
              /\ Frontier = ByteAt(m, at + 1)
              /\ Len(chunks) = 1 => at + Len(c) = Length(sent[m])
              /\ Len(chunks) > 1 => /\ at + Len(c) < Length(sent[m]) /\ at + Len(c) >= MAX_BUFFER
                                    /\ chunks[2][1] = ByteAt(m, at + Len(c) + 1)
<1>1. m \in Nat \ {0} /\ sent[m] \in Requests
  BY LenProperties, ElementOfSeq DEF Types, ChunksInv
<1>2. Count(sent[m]) \in Nat
  BY <1>1, Counts
<1>3. PICK j \in 0..(Count(sent[m]) - 1) :
         /\ Len(chunks) = Count(sent[m]) - j
         /\ \A k \in 1..Len(chunks) : chunks[k] = createMessage(Bytes(m, sent[m]))[j + k]
  BY DEF ChunksInv
<1>4. PICK r, k : r = sent[m] /\ k = j + 1
  OBVIOUS
<1>5. /\ r \in Requests /\ k \in 1..Count(r) /\ Count(r) \in Nat
      /\ Len(chunks) \in Nat \ {0} /\ Len(chunks) = Count(r) - k + 1
      /\ c = createMessage(Bytes(m, r))[k]
  <2>1. /\ r \in Requests /\ k \in 1..Count(r) /\ Count(r) \in Nat
        /\ Len(chunks) \in Nat \ {0} /\ Len(chunks) = Count(r) - k + 1
    BY <1>1, <1>2, <1>3, <1>4
  <2>2. c = chunks[1] /\ chunks[1] = createMessage(Bytes(m, sent[m]))[j + 1]
    BY <1>3, <2>1 DEF Types
  <2> QED BY <1>4, <2>1, <2>2
<1>6. /\ c \in Seq([request : {m}, at : Nat \ {0}])
      /\ Before(k) \in Nat /\ Len(c) \in Nat \ {0} /\ IsPart(c, m, Before(k))
      /\ k < Count(r) => /\ Before(k + 1) = Before(k) + Len(c) /\ Before(k) + Len(c) < Length(r)
                         /\ Before(k) + Len(c) >= MAX_BUFFER
      /\ k = Count(r) => Before(k) + Len(c) = Length(r)
  <2>1. c \in Seq([request : {m}, at : Nat \ {0}])
    BY <1>1, <1>5, Write
  <2>2. Before(k) \in Nat /\ Len(c) \in Nat \ {0} /\ IsPart(c, m, Before(k))
    BY <1>1, <1>5, Write
  <2>3. k < Count(r) => Before(k + 1) = End(k, c) /\ End(k, c) < Length(r) /\ End(k, c) >= MAX_BUFFER
    BY <1>1, <1>5, Write
  <2>4. End(k, c) <= Length(r) /\ (End(k, c) < Length(r) => k < Count(r))
    BY <1>1, <1>5, Write
  <2>5. Length(r) \in Nat
    BY <1>5, Lengths
  <2> QED BY <1>5, <2>1, <2>2, <2>3, <2>4, <2>5 DEF End
<1>7. c \in Seq(SentBytes)
  <2>1. [request : {m}, at : Nat \ {0}] \subseteq SentBytes
    BY <1>1 DEF SentBytes
  <2> QED BY <1>6, <2>1, SeqMonotonic
<1>8. Frontier = ByteAt(m, Before(k) + 1)
  BY <1>6 DEF Frontier, IsPart
<1>9. Len(chunks) > 1 => chunks[2][1] = ByteAt(m, Before(k) + Len(c) + 1)
  <2> SUFFICES ASSUME Len(chunks) > 1 PROVE chunks[2][1] = ByteAt(m, Before(k) + Len(c) + 1)
    OBVIOUS
  <2>1. k + 1 \in 1..Count(r) /\ k < Count(r) /\ 2 \in 1..Len(chunks) /\ j + 2 = k + 1
    BY <1>3, <1>4, <1>5
  <2>2. PICK d : d = chunks[2]
    OBVIOUS
  <2>3. d = createMessage(Bytes(m, r))[k + 1]
    BY <1>3, <1>4, <2>1, <2>2
  <2>4. Len(d) \in Nat \ {0} /\ IsPart(d, m, Before(k + 1))
    BY <1>1, <1>5, <2>1, <2>3, Write
  <2>5. d[1] = ByteAt(m, Before(k + 1) + 1)
    BY <2>4 DEF IsPart
  <2> QED BY <1>6, <2>1, <2>2, <2>5
<1>10. /\ Len(chunks) = 1 => Before(k) + Len(c) = Length(sent[m])
       /\ Len(chunks) > 1 => Before(k) + Len(c) < Length(sent[m]) /\ Before(k) + Len(c) >= MAX_BUFFER
  BY <1>4, <1>5, <1>6
<1> QED BY <1>1, <1>5, <1>6, <1>7, <1>8, <1>9, <1>10

\* One write moves the frontier to the next byte.
LEMMA SendChunks ==
  ASSUME Types, ChunksInv, sendMessage
  PROVE  ChunksInv' /\ chunks' \in Seq(Seq(SentBytes))
<1>1. /\ client = "writing" /\ chunks' = Tail(chunks) /\ UNCHANGED sent
      /\ client' = IF Len(chunks) = 1 THEN "waiting" ELSE "writing"
  BY DEF sendMessage
<1>2. PICK m : m = Len(sent)
  OBVIOUS
<1>3. m \in Nat \ {0} /\ sent[m] \in Requests /\ Count(sent[m]) \in Nat /\ Len(chunks) \in Nat
  <2>1. m \in Nat \ {0} /\ sent[m] \in Requests
    BY <1>1, <1>2, LenProperties, ElementOfSeq DEF Types, ChunksInv
  <2> QED BY <2>1, Counts, LenProperties DEF Types
<1>4. PICK j \in 0..(Count(sent[m]) - 1) :
         /\ Len(chunks) = Count(sent[m]) - j
         /\ \A k \in 1..Len(chunks) : chunks[k] = createMessage(Bytes(m, sent[m]))[j + k]
  BY <1>1, <1>2 DEF ChunksInv
<1>5. /\ chunks # <<>> /\ chunks' \in Seq(Seq(SentBytes)) /\ Len(chunks') = Len(chunks) - 1
      /\ \A k \in 1..(Len(chunks) - 1) : chunks'[k] = chunks[k + 1]
  <2>1. chunks \in Seq(Seq(SentBytes)) /\ chunks # <<>>
    BY <1>3, <1>4 DEF Types
  <2> QED BY <1>1, <2>1, HeadTailProperties
<1>6. CASE Len(chunks) = 1
  <2>1. Len(chunks') = 0
    BY <1>5, <1>6
  <2>2. chunks' = <<>> /\ client' # "writing"
    BY <1>1, <1>5, <1>6, <2>1, EmptySeq
  <2> QED BY <1>5, <2>2 DEF ChunksInv
<1>7. CASE Len(chunks) # 1
  <2>1. client' = "writing" /\ j + 1 \in 0..(Count(sent[m]) - 1)
        /\ Len(chunks') = Count(sent[m]) - (j + 1)
    BY <1>1, <1>3, <1>4, <1>5, <1>7
  <2>2. ASSUME NEW k \in 1..Len(chunks')
        PROVE  chunks'[k] = createMessage(Bytes(m, sent[m]))[(j + 1) + k]
    <3>1. k + 1 \in 1..Len(chunks) /\ k \in 1..(Len(chunks) - 1) /\ j + (k + 1) = (j + 1) + k
      BY <1>3, <1>4, <1>5, <2>2
    <3>2. chunks[k + 1] = createMessage(Bytes(m, sent[m]))[j + (k + 1)]
      BY <1>4, <3>1
    <3> QED BY <1>5, <3>1, <3>2
  <2>3. sent' = sent /\ m > 0
    BY <1>1, <1>3
  <2>4. \E i \in 0..(Count(sent'[m]) - 1) :
          /\ Len(chunks') = Count(sent'[m]) - i
          /\ \A k \in 1..Len(chunks') : chunks'[k] = createMessage(Bytes(m, sent'[m]))[i + k]
    BY <2>1, <2>2, <2>3
  <2> QED BY <1>2, <1>5, <2>1, <2>3, <2>4 DEF ChunksInv
<1> QED BY <1>6, <1>7

LEMMA SendStep ==
  ASSUME FramingInv, sendMessage
  PROVE  FramingInv'
<1>1. Types /\ PlaceInv /\ ChunksInv /\ StreamInv /\ ContentInv /\ AlignedInv /\ OrderInv /\ StoredWholeOrEmpty
  BY DEF FramingInv
<1>2. /\ client = "writing" /\ conn = "open" /\ inbox' = inbox \o Head(chunks)
      /\ client' = IF Len(chunks) = 1 THEN "waiting" ELSE "writing"
      /\ chunks' = Tail(chunks)
      /\ UNCHANGED <<sent, read, conn, pc, content, current, stored, answers>>
  BY DEF sendMessage
<1>3. PICK m, c, l : m = Len(sent) /\ c = Head(chunks) /\ l = Len(inbox)
  OBVIOUS
<1>4. /\ m \in Nat \ {0} /\ Len(chunks) \in Nat \ {0}
      /\ c \in Seq(SentBytes) /\ Len(c) \in Nat \ {0}
  BY <1>1, <1>2, <1>3, NextWrite
<1>5. PICK left : left = Len(chunks)
  OBVIOUS
<1>6. left \in Nat /\ left >= 1
  BY <1>4, <1>5
<1>7. PICK at \in Nat :
        /\ IsPart(c, m, at)
        /\ Frontier = ByteAt(m, at + 1)
        /\ Len(chunks) = 1 => at + Len(c) = Length(sent[m])
        /\ Len(chunks) > 1 => /\ at + Len(c) < Length(sent[m]) /\ at + Len(c) >= MAX_BUFFER
                              /\ chunks[2][1] = ByteAt(m, at + Len(c) + 1)
  BY <1>1, <1>2, <1>3, NextWrite
<1>8. PICK e : e = at + Len(c)
  OBVIOUS
<1>9. /\ l \in Nat /\ e \in Nat \ {0} /\ Length(sent[m]) \in Nat \ {0}
      /\ e <= Length(sent[m]) /\ (e >= MAX_BUFFER \/ e = Length(sent[m]))
  <2>1. PICK k : k = Length(sent[m])
    OBVIOUS
  <2>2. k \in Nat \ {0}
    BY <1>3, <1>4, <2>1, <1>1, InboxTypes, Lengths
  <2>3. l \in Nat /\ e \in Nat \ {0}
    BY <1>3, <1>4, <1>8, <1>1, InboxTypes
  <2>4. (Len(chunks) = 1 => e = k) /\ (Len(chunks) > 1 => e < k /\ e >= MAX_BUFFER)
    BY <1>7, <1>8, <2>1
  <2>5. Len(chunks) = 1 \/ Len(chunks) > 1
    BY <1>5, <1>6
  <2> QED BY <2>1, <2>2, <2>3, <2>4, <2>5
<1>10. /\ inbox' \in Seq(SentBytes) /\ Len(inbox') = l + Len(c)
      /\ \A i \in 1..(l + Len(c)) : inbox'[i] = IF i <= l THEN inbox[i] ELSE c[i - l]
  <2>1. inbox \in Seq(SentBytes)
    BY <1>1 DEF Types
  <2> QED BY <1>2, <1>3, <1>4, <2>1, ConcatProperties
<1>11. ASSUME NEW i \in 1..Len(inbox')
      PROVE  \/ i \in 1..l /\ inbox'[i] = inbox[i]
             \/ \E k \in 1..Len(c) : k = i - l /\ inbox'[i] = ByteAt(m, at + k)
  <2>1. CASE i <= l
    BY <1>9, <1>10, <2>1
  <2>2. CASE i > l
    <3>1. PICK k : k = i - l
      OBVIOUS
    <3>2. k \in 1..Len(c) /\ inbox'[i] = c[k]
      BY <1>4, <1>9, <1>10, <2>2, <3>1
    <3> QED BY <1>7, <3>1, <3>2 DEF IsPart
  <2> QED BY <1>4, <1>9, <1>10, <2>1, <2>2
<1>12. Frontier' = Succ(ByteAt(m, e)) /\ (Frontier'.at = 1 => Frontier' = ByteAt(m + 1, 1))
  <2>1. CASE Len(chunks) = 1
    <3>1. Frontier' = ByteAt(m + 1, 1)
      BY <1>2, <1>3, <2>1 DEF Frontier
    <3>2. Succ(ByteAt(m, e)) = ByteAt(m + 1, 1)
      BY <1>7, <1>8, <1>9, <2>1 DEF Succ, ByteAt
    <3> QED BY <3>1, <3>2
  <2>2. CASE Len(chunks) # 1
    <3>1. Head(chunks') = chunks[2]
      <4>1. /\ Tail(chunks) \in Seq(Seq(SentBytes)) /\ Len(Tail(chunks)) = Len(chunks) - 1
            /\ Tail(chunks)[1] = chunks[2]
        <5>1. chunks \in Seq(Seq(SentBytes))
          BY <1>1 DEF Types
        <5>2. chunks # <<>>
          BY <1>4, EmptySeq
        <5>3. /\ Tail(chunks) \in Seq(Seq(SentBytes)) /\ Len(Tail(chunks)) = Len(chunks) - 1
              /\ \A k \in 1..Len(Tail(chunks)) : Tail(chunks)[k] = chunks[k + 1]
          BY <5>1, <5>2, HeadTailProperties
        <5> QED BY <1>5, <1>6, <2>2, <5>3
      <4> QED BY <1>2, <1>4, <2>2, <4>1
    <3>2. Frontier' = ByteAt(m, e + 1) /\ e < Length(sent[m])
      <4>1. Len(chunks) > 1
        BY <1>5, <1>6, <2>2
      <4>2. chunks[2][1] = ByteAt(m, e + 1) /\ e < Length(sent[m])
        BY <1>7, <1>8, <4>1
      <4> QED BY <1>2, <3>1, <2>2, <4>2 DEF Frontier
    <3> QED BY <1>9, <3>2 DEF Succ, ByteAt
  <2> QED BY <2>1, <2>2
<1>13. \A b : Succ(b)' = Succ(b)
  BY <1>2 DEF Succ
<1>14. inbox' # <<>> /\ inbox'[Len(inbox')] = ByteAt(m, e) /\ Head(inbox') = inbox'[1]
  <2>1. PICK i : i = Len(inbox')
    OBVIOUS
  <2>2. i \in 1..Len(inbox') /\ i \notin 1..l /\ i - l = Len(c)
    BY <1>4, <1>9, <1>10, <2>1
  <2>3. inbox'[i] = ByteAt(m, at + Len(c))
    BY <1>11, <2>2
  <2>4. inbox' # <<>>
    BY <1>4, <1>9, <1>10, EmptySeq
  <2> QED BY <1>8, <1>10, <2>1, <2>3, <2>4
<1>15. NextByte' = NextByte
  <2>1. 1 \in 1..Len(inbox')
    BY <1>4, <1>9, <1>10
  <2>2. CASE inbox # <<>>
    <3>1. l # 0 /\ Head(inbox) = inbox[1]
      BY <1>3, <2>2, <1>1, InboxTypes
    <3>2. inbox'[1] = inbox[1]
      BY <1>4, <1>9, <1>10, <3>1
    <3> QED BY <1>14, <2>2, <3>1, <3>2 DEF NextByte
  <2>3. CASE inbox = <<>>
    <3>1. l = 0
      BY <1>3, <2>3, <1>1, InboxTypes
    <3>2. inbox'[1] = ByteAt(m, at + 1)
      BY <1>11, <2>1, <3>1
    <3> QED BY <1>7, <1>14, <2>3, <3>2 DEF NextByte
  <2> QED BY <2>2, <2>3
<1>16. StreamInv'
  <2>1. ASSUME NEW i \in 1..Len(inbox') PROVE inbox'[i].at <= Length(sent[inbox'[i].request])
    <3>1. CASE i \in 1..l /\ inbox'[i] = inbox[i]
      BY <1>1, <1>3, <3>1 DEF StreamInv
    <3>2. ASSUME NEW k \in 1..Len(c), inbox'[i] = ByteAt(m, at + k)
          PROVE  inbox'[i].at <= Length(sent[inbox'[i].request])
      <4>1. at + k <= e
        BY <1>4, <1>8
      <4>2. at + k <= Length(sent[m])
        BY <1>4, <1>9, <4>1
      <4> QED BY <3>2, <4>2 DEF ByteAt
    <3> QED BY <1>11, <3>1, <3>2
  <2>2. ASSUME NEW i \in 1..(Len(inbox') - 1) PROVE inbox'[i + 1] = Succ(inbox'[i])
    <3>1. i \in 1..Len(inbox') /\ i + 1 \in 1..Len(inbox') /\ i \in Nat
      BY <1>4, <1>9, <1>10
    <3>2. CASE i + 1 <= l
      <4>1. i \in 1..(Len(inbox) - 1) /\ i + 1 \in 1..l /\ i \in 1..l
        BY <1>3, <1>9, <3>1, <3>2
      <4>2. inbox'[i] = inbox[i] /\ inbox'[i + 1] = inbox[i + 1]
        BY <1>9, <1>11, <3>1, <4>1
      <4> QED BY <1>1, <4>1, <4>2 DEF StreamInv
    <3>3. CASE i = l
      <4>1. inbox # <<>> /\ inbox'[i] = inbox[Len(inbox)]
        BY <1>1, <1>3, <1>10, <3>1, <3>3, InboxTypes
      <4>2. inbox'[i + 1] = ByteAt(m, at + 1)
        <5>1. i + 1 \notin 1..l /\ (i + 1) - l = 1
          BY <1>9, <3>1, <3>3
        <5> QED BY <1>11, <3>1, <5>1
      <4> QED BY <1>1, <1>2, <1>7, <4>1, <4>2 DEF StreamInv
    <3>4. CASE i > l
      <4>1. PICK k \in 1..Len(c) : k = i - l /\ inbox'[i] = ByteAt(m, at + k)
        <5>1. i \notin 1..l
          BY <1>9, <3>4
        <5> QED BY <1>11, <3>1, <5>1
      <4>2. inbox'[i + 1] = ByteAt(m, at + k + 1)
        <5>1. i + 1 \notin 1..l /\ at + ((i + 1) - l) = at + k + 1
          BY <1>9, <3>1, <3>4, <4>1
        <5> QED BY <1>11, <3>1, <5>1
      <4>3. at + k < e
        BY <1>4, <1>8, <1>9, <1>10, <4>1
      <4>4. at + k < Length(sent[m])
        BY <1>4, <1>9, <4>3
      <4> QED BY <4>1, <4>2, <4>4 DEF Succ, ByteAt
    <3> QED BY <1>9, <3>1, <3>2, <3>3, <3>4
  <2>3. LET last == inbox'[Len(inbox')] IN
        /\ last.at >= MAX_BUFFER \/ last.at = Length(sent[last.request])
        /\ Frontier' = Succ(last)
    BY <1>9, <1>12, <1>14 DEF ByteAt
  <2> QED BY <1>2, <1>13, <2>1, <2>2, <2>3 DEF StreamInv
<1>17. ASSUME NEW n \in 0..m, After(n) PROVE After(n)'
  <2>1. ASSUME NEW i \in 1..Len(inbox'), inbox'[i].at = 1 PROVE n < inbox'[i].request
    <3>1. CASE i \in 1..l /\ inbox'[i] = inbox[i]
      BY <1>3, <1>17, <2>1, <3>1 DEF After
    <3>2. ASSUME NEW k \in 1..Len(c), inbox'[i] = ByteAt(m, at + k)
          PROVE  n < inbox'[i].request
      <4>1. inbox'[i] = Frontier
        BY <1>4, <1>7, <2>1, <3>2 DEF ByteAt
      <4> QED BY <1>2, <1>17, <2>1, <4>1 DEF After
    <3> QED BY <1>11, <2>1, <3>1, <3>2
  <2>2. Frontier'.at = 1 => n < Frontier'.request
    BY <1>4, <1>12 DEF ByteAt
  <2> QED BY <2>1, <2>2 DEF After
<1>18. OrderInv'
  <2>1. ASSUME NEW i \in 1..Len(inbox'), NEW j \in 1..Len(inbox'), i < j, inbox'[j].at = 1
        PROVE  inbox'[i].request < inbox'[j].request
    <3>1. CASE j \in 1..l /\ inbox'[j] = inbox[j]
      <4>1. i \in 1..l /\ inbox'[i] = inbox[i]
        BY <1>4, <1>9, <1>10, <2>1, <3>1
      <4> QED BY <1>1, <1>3, <2>1, <3>1, <4>1 DEF OrderInv
    <3>2. ASSUME NEW k \in 1..Len(c), k = j - l, inbox'[j] = ByteAt(m, at + k)
          PROVE  inbox'[i].request < inbox'[j].request
      <4>1. inbox'[j] = Frontier /\ k = 1
        BY <1>4, <1>7, <2>1, <3>2 DEF ByteAt
      <4>2. i \in 1..l
        BY <1>9, <1>10, <1>4, <2>1, <3>2, <4>1
      <4>3. inbox'[i] = inbox[i]
        BY <1>4, <1>9, <1>10, <4>2
      <4> QED BY <1>1, <1>2, <1>3, <2>1, <4>1, <4>2, <4>3 DEF OrderInv
    <3> QED BY <1>11, <2>1, <3>1, <3>2
  <2>2. Frontier'.at = 1 => \A i \in 1..Len(inbox') : inbox'[i].request < Frontier'.request
    <3> SUFFICES ASSUME Frontier'.at = 1, NEW i \in 1..Len(inbox')
                 PROVE  inbox'[i].request < Frontier'.request
      OBVIOUS
    <3>1. inbox'[i] \in SentBytes
      BY <1>10, ElementOfSeq
    <3>2. inbox'[i].request \in 1..m
      BY <1>3, <3>1 DEF SentBytes
    <3> QED BY <1>4, <1>12, <3>2 DEF ByteAt
  <2>3. ASSUME NEW row \in stored PROVE After(row.request)'
    <3>1. row.request \in 0..m
      BY <1>1, <1>3, <1>4 DEF Types
    <3> QED BY <1>1, <1>17, <3>1 DEF OrderInv
  <2>4. pc = "content" => After(current)' /\ \A row \in stored : row.request < current
    <3>1. PICK n : n = current
      OBVIOUS
    <3>2. n \in 0..m
      BY <1>1, <1>3, <3>1 DEF Types
    <3>3. pc = "content" => After(n)' /\ \A row \in stored : row.request < current
      BY <1>1, <1>17, <3>1, <3>2 DEF OrderInv
    <3> QED BY <1>2, <3>1, <3>3 DEF After
  <2> QED BY <1>2, <2>1, <2>2, <2>3, <2>4 DEF OrderInv, After
<1>19. Types'
  BY <1>1, <1>2, <1>10, SendChunks DEF Types, SentBytes, sendMessage
<1>20. PlaceInv' /\ ChunksInv'
  BY <1>1, <1>2, SendChunks DEF PlaceInv
<1>21. ContentInv' /\ AlignedInv' /\ StoredWholeOrEmpty'
  <2>1. ContentInv'
    BY <1>1, <1>2, <1>13, <1>15 DEF ContentInv, IsPart
  <2>2. AlignedInv'
    BY <1>1, <1>2, <1>15 DEF AlignedInv, NoError
  <2>3. StoredWholeOrEmpty'
    BY <1>1, <1>2 DEF StoredWholeOrEmpty, ContentOf, Bytes
  <2> QED BY <2>1, <2>2, <2>3
<1> QED BY <1>16, <1>18, <1>19, <1>20, <1>21 DEF FramingInv

LEMMA ChooseStep ==
  ASSUME FramingInv, NEW r \in Requests, Choose(r)
  PROVE  FramingInv'
<1>1. Types /\ PlaceInv /\ ChunksInv /\ StreamInv /\ ContentInv /\ AlignedInv /\ OrderInv /\ StoredWholeOrEmpty
  BY DEF FramingInv
<1>2. /\ client = "menu" /\ client' = "writing" /\ sent' = Append(sent, r)
      /\ chunks' = createMessage(Bytes(Len(sent'), r))
      /\ UNCHANGED <<read, conn, inbox, pc, content, current, stored, answers>>
  BY DEF Choose, serverVars
<1>3. PICK l, m : l = Len(sent) /\ m = l + 1
  OBVIOUS
<1>4. /\ l \in Nat /\ m \in Nat \ {0} /\ sent' \in Seq(Requests) /\ Len(sent') = m
      /\ (\A n \in 1..l : sent'[n] = sent[n]) /\ sent'[m] = r
  <2>1. sent \in Seq(Requests) /\ l \in Nat
    BY <1>1, <1>3, InboxTypes DEF Types
  <2> QED BY <1>2, <1>3, <2>1, AppendProperties
<1>5. SentBytes \subseteq SentBytes'
  BY <1>3, <1>4 DEF SentBytes
<1>6. /\ Count(r) \in Nat \ {0} /\ Length(r) \in Nat \ {0}
      /\ DOMAIN chunks' = 1..Count(r)
      /\ \A k \in 1..Count(r) : chunks'[k] \in Seq(SentBytes') /\ Len(chunks'[k]) \in Nat \ {0}
                                /\ IsPart(chunks'[k], m, Before(k))
      /\ Before(1) = 0
  <2>1. PICK d : d = Length(r)
    OBVIOUS
  <2>2. d \in Nat \ {0}
    BY <2>1, Lengths
  <2>3. Count(r) \in Nat
    BY Counts
  <2>4. Count(r) # 0
    <3>1. (d + MAX_BUFFER - 1) \div MAX_BUFFER # 0
      <4>1. PICK b, q : b = MAX_BUFFER /\ q = (d + b - 1) \div b
        OBVIOUS
      <4>2. b \in Nat \ {0}
        BY <4>1, Sizes
      <4>3. q \in Nat /\ d + b - 1 < q * b + b
        BY <2>2, <4>1, <4>2
      <4> QED BY <2>2, <4>1, <4>2, <4>3
    <3> QED BY <2>1, <3>1 DEF Count
  <2>5. DOMAIN chunks' = 1..Count(r)
    <3>1. Len(Bytes(m, r)) = Length(r)
      BY <1>4, BytesOfRequest
    <3> QED BY <1>2, <1>4, <3>1 DEF createMessage, Count
  <2>6. ASSUME NEW k \in 1..Count(r), NEW c, c = chunks'[k]
        PROVE  c \in Seq(SentBytes') /\ Len(c) \in Nat \ {0} /\ IsPart(c, m, Before(k))
    <3>1. c = createMessage(Bytes(m, r))[k]
      BY <1>2, <1>4, <2>6
    <3>2. c \in Seq([request : {m}, at : Nat \ {0}])
      BY <1>4, <3>1, Write
    <3>3. [request : {m}, at : Nat \ {0}] \subseteq SentBytes'
      BY <1>4 DEF SentBytes
    <3>4. Len(c) \in Nat \ {0} /\ IsPart(c, m, Before(k))
      BY <1>4, <3>1, Write
    <3> QED BY <3>2, <3>3, <3>4, SeqMonotonic
  <2>7. Before(1) = 0
    BY Sizes DEF Before
  <2> QED BY <2>1, <2>2, <2>3, <2>4, <2>5, <2>6, <2>7
<1>7. chunks' \in Seq(Seq(SentBytes')) /\ Len(chunks') = Count(r)
  <2>1. \A k \in 1..Count(r) : chunks'[k] \in Seq(SentBytes')
    BY <1>6
  <2>2. chunks' = [k \in 1..Count(r) |-> chunks'[k]]
    <3>1. Len(Bytes(m, r)) = Length(r)
      BY <1>4, BytesOfRequest
    <3> QED BY <1>2, <1>4, <3>1 DEF createMessage, Count
  <2>3. chunks' \in [1..Count(r) -> Seq(SentBytes')]
    BY <2>1, <2>2
  <2> QED BY <1>6, <2>3
<1>8. Frontier' = ByteAt(m, 1) /\ Frontier = ByteAt(m, 1)
  <2>1. 1 \in 1..Count(r) /\ Head(chunks') = chunks'[1]
    BY <1>6, <1>7
  <2>2. chunks'[1][1] = ByteAt(m, 1)
    BY <1>6, <2>1 DEF IsPart
  <2> QED BY <1>2, <1>3, <1>4, <2>1, <2>2 DEF Frontier
<1>9. NextByte' = NextByte
  BY <1>2, <1>8 DEF NextByte
<1>10. \A b \in SentBytes : Succ(b)' = Succ(b) /\ Length(sent'[b.request]) = Length(sent[b.request])
  BY <1>3, <1>4 DEF Succ, SentBytes
<1>11. Types'
  <2>1. inbox \in Seq(SentBytes') /\ content \in Seq(SentBytes')
    BY <1>1, <1>5, SeqMonotonic DEF Types
  <2>2. current \in 0..m
    BY <1>1, <1>3, <1>4 DEF Types
  <2>3. stored \subseteq [request : 1..m, content : Seq(SentBytes')]
    <3>1. ASSUME NEW row \in stored PROVE row \in [request : 1..m, content : Seq(SentBytes')]
      <4>1. row \in [request : 1..l, content : Seq(SentBytes)]
        BY <1>1, <1>3 DEF Types
      <4>2. row.content \in Seq(SentBytes')
        BY <1>5, <4>1, SeqMonotonic
      <4>3. row.request \in 1..m
        BY <1>3, <1>4, <4>1
      <4> QED BY <4>1, <4>2, <4>3
    <3> QED BY <3>1
  <2> QED BY <1>1, <1>2, <1>4, <1>7, <2>1, <2>2, <2>3 DEF Types
<1>12. ChunksInv'
  <2>1. 0 \in 0..(Count(sent'[m]) - 1) /\ Len(chunks') = Count(sent'[m]) - 0
    BY <1>4, <1>6, <1>7
  <2>2. \A k \in 1..Len(chunks') : chunks'[k] = createMessage(Bytes(m, sent'[m]))[0 + k]
    BY <1>2, <1>4, <1>6, <1>7
  <2> QED BY <1>2, <1>4, <2>1, <2>2 DEF ChunksInv
<1>13. StreamInv'
  <2>1. \A i \in 1..Len(inbox) : inbox[i] \in SentBytes
    BY <1>1, InboxTypes
  <2>2. \A i \in 1..Len(inbox) : inbox[i].at <= Length(sent'[inbox[i].request])
    BY <1>1, <1>10, <2>1 DEF StreamInv
  <2>3. ASSUME NEW i \in 1..(Len(inbox) - 1) PROVE inbox[i + 1] = Succ(inbox[i])'
    <3>1. i \in 1..Len(inbox)
      BY <1>1, InboxTypes
    <3> QED BY <1>1, <1>2, <1>10, <2>1, <3>1 DEF StreamInv
  <2>4. ASSUME inbox # <<>>, NEW last, last = inbox[Len(inbox)]
        PROVE  /\ last.at >= MAX_BUFFER \/ last.at = Length(sent'[last.request])
               /\ conn = "open" => Frontier' = Succ(last)'
    <3>1. Len(inbox) \in 1..Len(inbox) /\ last \in SentBytes
      BY <1>1, <2>1, <2>4, InboxTypes
    <3> QED BY <1>1, <1>2, <1>8, <1>10, <2>4, <3>1 DEF StreamInv
  <2> QED BY <1>2, <2>2, <2>3, <2>4 DEF StreamInv
<1>14. ContentInv'
  <2> SUFFICES ASSUME pc = "content" PROVE ContentInv'
    BY <1>2 DEF ContentInv
  <2>1. PICK b : b = ByteAt(current, BeforeContent + Len(content))
    OBVIOUS
  <2>2. current \in 1..l
    BY <1>1, <1>3, <1>4 DEF ContentInv, Types
  <2>3. b \in SentBytes
    <3>1. BeforeContent + Len(content) \in Nat \ {0}
      BY <1>1, Sizes, InboxTypes
    <3> QED BY <1>3, <2>1, <2>2, <3>1 DEF SentBytes, ByteAt
  <2>4. sent'[current] = sent[current]
    BY <1>4, <2>2
  <2>5. inbox # <<>> \/ conn = "open" => NextByte' = Succ(b)'
    BY <1>1, <1>2, <1>9, <1>10, <2>1, <2>3 DEF ContentInv
  <2> QED BY <1>1, <1>2, <2>1, <2>4, <2>5 DEF ContentInv, IsPart
<1>15. AlignedInv' /\ OrderInv' /\ PlaceInv'
  BY <1>1, <1>2, <1>8, <1>9 DEF AlignedInv, NoError, OrderInv, After, PlaceInv
<1>16. StoredWholeOrEmpty'
  <2>1. ASSUME NEW row \in stored PROVE ContentOf(row.request)' = ContentOf(row.request)
    <3>1. row.request \in 1..l
      BY <1>1, <1>3 DEF Types
    <3> QED BY <1>4, <3>1 DEF ContentOf
  <2> QED BY <1>1, <1>2, <2>1 DEF StoredWholeOrEmpty
<1> QED BY <1>11, <1>12, <1>13, <1>14, <1>15, <1>16 DEF FramingInv

\* The other steps of the client.
LEMMA OtherClientSteps ==
  ASSUME FramingInv, receiveMessage \/ Disconnected \/ Leave
  PROVE  FramingInv'
<1>1. Types /\ PlaceInv /\ ChunksInv /\ StreamInv /\ ContentInv /\ AlignedInv /\ OrderInv /\ StoredWholeOrEmpty
  BY DEF FramingInv
<1>2. <<>> \in Seq(Seq(SentBytes))
  BY EmptySeq
<1>3. CASE receiveMessage
  <2>1. /\ client = "waiting" /\ client' = "menu" /\ read' = read + 1 /\ read < Len(answers)
        /\ UNCHANGED <<sent, chunks, conn, inbox, pc, content, current, stored, answers>>
    BY <1>3 DEF receiveMessage, serverVars
  <2>2. Types'
    <3>1. read' \in 0..Len(answers)
      BY <1>1, <2>1, InboxTypes DEF Types
    <3> QED BY <1>1, <2>1, <3>1 DEF Types, SentBytes
  <2>3. /\ Frontier' = Frontier /\ NextByte' = NextByte
        /\ \A b : Succ(b)' = Succ(b)
    BY <2>1 DEF Frontier, NextByte, Succ
  <2>4. PlaceInv' /\ ChunksInv' /\ StoredWholeOrEmpty'
    BY <1>1, <2>1 DEF PlaceInv, ChunksInv, StoredWholeOrEmpty, ContentOf
  <2>5. StreamInv' /\ ContentInv'
    BY <1>1, <2>1, <2>3 DEF StreamInv, ContentInv, IsPart
  <2>6. AlignedInv' /\ OrderInv'
    BY <1>1, <2>1, <2>3 DEF AlignedInv, NoError, OrderInv, After
  <2> QED BY <2>2, <2>4, <2>5, <2>6 DEF FramingInv
<1>4. CASE Disconnected
  <2>1. /\ conn = "closed" /\ client \in {"writing", "waiting"} /\ client' = "menu" /\ chunks' = <<>>
        /\ UNCHANGED <<sent, read, conn, inbox, pc, content, current, stored, answers>>
    BY <1>4 DEF Disconnected, serverVars
  <2>2. inbox = <<>> /\ pc = "select" /\ Len(inbox) = 0
    BY <1>1, <2>1, InboxTypes DEF PlaceInv
  <2>3. Types'
    BY <1>1, <1>2, <2>1 DEF Types, SentBytes
  <2>4. PlaceInv' /\ ChunksInv' /\ StoredWholeOrEmpty'
    BY <1>1, <2>1 DEF PlaceInv, ChunksInv, StoredWholeOrEmpty, ContentOf
  <2>5. StreamInv' /\ ContentInv' /\ AlignedInv' /\ OrderInv'
    BY <2>1, <2>2 DEF StreamInv, ContentInv, AlignedInv, OrderInv, After
  <2> QED BY <2>3, <2>4, <2>5 DEF FramingInv
<1>5. CASE Leave
  <2>1. /\ client # "gone" /\ client' = "gone" /\ chunks' = <<>>
        /\ conn' = IF conn = "open" THEN "eof" ELSE "off"
        /\ UNCHANGED <<sent, read, inbox, pc, content, current, stored, answers>>
    BY <1>5 DEF Leave
  <2>2. conn' # "open" /\ conn' \in {"eof", "off"} /\ (conn' = "off" => inbox = <<>> /\ pc = "select")
    BY <1>1, <2>1 DEF PlaceInv, Types
  <2>3. Types'
    BY <1>1, <1>2, <2>1, <2>2 DEF Types, SentBytes
  <2>4. PlaceInv' /\ ChunksInv' /\ StoredWholeOrEmpty'
    BY <1>1, <2>1, <2>2 DEF PlaceInv, ChunksInv, StoredWholeOrEmpty, ContentOf
  <2>5. \A b : Succ(b)' = Succ(b)
    BY <2>1 DEF Succ
  <2>6. StreamInv'
    BY <1>1, <2>1, <2>2, <2>5 DEF StreamInv
  <2>7. ContentInv'
    <3>1. inbox # <<>> => NextByte' = NextByte
      BY <2>1 DEF NextByte
    <3> QED BY <1>1, <2>1, <2>2, <2>5, <3>1 DEF ContentInv, IsPart
  <2>8. AlignedInv' /\ OrderInv'
    BY <1>1, <2>1, <2>2 DEF AlignedInv, OrderInv, After
  <2> QED BY <2>3, <2>4, <2>6, <2>7, <2>8 DEF FramingInv
<1> QED BY <1>3, <1>4, <1>5

-----------------------------------------------------------------------------
(* The server. *)

\* What remains true of a stream of which k bytes are read, whatever they are
\* read for.
LEMMA ReadKeeps ==
  ASSUME FramingInv, NEW k \in 0..Len(inbox), inbox' = Left(k, inbox),
         UNCHANGED <<client, sent, chunks, read, conn>>,
         conn \in {"closed", "off"} => UNCHANGED pc
  PROVE  /\ PlaceInv' /\ ChunksInv' /\ StreamInv'
         /\ inbox' \in Seq(SentBytes) /\ SentBytes' = SentBytes
         /\ \A i, j \in 1..Len(inbox') : i < j /\ inbox'[j].at = 1 => inbox'[i].request < inbox'[j].request
         /\ conn = "open" /\ Frontier'.at = 1 => \A i \in 1..Len(inbox') : inbox'[i].request < Frontier'.request
<1>1. Types /\ PlaceInv /\ ChunksInv /\ StreamInv /\ OrderInv
  BY DEF FramingInv
<1>2. /\ inbox' \in Seq(SentBytes) /\ Len(inbox') = Len(inbox) - k
      /\ \A i \in 1..(Len(inbox) - k) : inbox'[i] = inbox[k + i]
      /\ StreamInv'
  BY <1>1, ReadOn
<1>3. Len(inbox) \in Nat
  BY <1>1, InboxTypes
<1>4. PlaceInv' /\ ChunksInv'
  <2>1. inbox = <<>> => inbox' = <<>>
    BY <1>1, <1>2, <1>3, InboxTypes, EmptySeq
  <2> QED BY <1>1, <2>1 DEF PlaceInv, ChunksInv
<1>5. \A i \in 1..Len(inbox') : k + i \in 1..Len(inbox) /\ inbox'[i] = inbox[k + i]
  BY <1>2, <1>3
<1>6. ASSUME NEW i \in 1..Len(inbox'), NEW j \in 1..Len(inbox'), i < j, inbox'[j].at = 1
      PROVE  inbox'[i].request < inbox'[j].request
  <2>1. k + i < k + j /\ k + i \in 1..Len(inbox) /\ k + j \in 1..Len(inbox)
    BY <1>2, <1>3, <1>6
  <2> QED BY <1>1, <1>5, <1>6, <2>1 DEF OrderInv
<1>7. conn = "open" /\ Frontier'.at = 1 => \A i \in 1..Len(inbox') : inbox'[i].request < Frontier'.request
  <2>1. Frontier' = Frontier
    BY DEF Frontier
  <2> QED BY <1>1, <1>5, <2>1 DEF OrderInv
<1> QED BY <1>2, <1>4, <1>6, <1>7 DEF SentBytes

\* A request's first byte is read: its message, and all that comes after it, is
\* later than all that was stored.
LEMMA HeaderIs ==
  ASSUME FramingInv, HasHeader
  PROVE  /\ Len(inbox) \in Nat /\ HEADER_SIZE <= Len(inbox) /\ inbox # <<>> /\ Len(inbox) > 0
         /\ Head(inbox) = inbox[1] /\ inbox[1] \in SentBytes
         /\ Head(inbox).at = 1 => Head(inbox) = ByteAt(Head(inbox).request, 1)
<1>1. Types
  BY DEF FramingInv
<1>2. Len(inbox) \in Nat /\ HEADER_SIZE <= Len(inbox) /\ Len(inbox) > 0
  BY <1>1, Sizes, InboxTypes DEF HasHeader
<1>3. inbox # <<>> /\ Head(inbox) = inbox[1] /\ inbox[1] \in SentBytes
  BY <1>1, <1>2, InboxTypes
<1>4. Head(inbox).at = 1 => Head(inbox) = ByteAt(Head(inbox).request, 1)
  BY <1>3 DEF SentBytes, ByteAt
<1> QED BY <1>2, <1>3, <1>4

Answers == {"RESP_USER_LIST", "RESP_MSG_SENT_TO_USER", "RESP_GENERAL_ERROR"}

\* What becomes of the answers when one is sent, or none.
LEMMA Answered ==
  ASSUME Types, NEW op \in Answers, Answer(op)
  PROVE  /\ answers' \in Seq(Answers) /\ read \in 0..Len(answers')
         /\ NoError' => NoError
         /\ conn = "open" /\ op = "RESP_GENERAL_ERROR" => ~ NoError'
<1>1. answers \in Seq(Answers) /\ Len(answers) \in Nat /\ read \in 0..Len(answers)
  BY InboxTypes DEF Types, Answers
<1>2. CASE conn = "open"
  <2>1. answers' = Append(answers, op)
    BY <1>2 DEF Answer
  <2>2. /\ answers' \in Seq(Answers) /\ Len(answers') = Len(answers) + 1
        /\ \A i \in 1..Len(answers) : answers'[i] = answers[i]
        /\ answers'[Len(answers) + 1] = op
    BY <1>1, <2>1, AppendProperties
  <2>3. NoError' => NoError
    <3>1. \A i \in 1..Len(answers) : i \in 1..Len(answers') /\ answers'[i] = answers[i]
      BY <1>1, <2>2
    <3> QED BY <3>1 DEF NoError
  <2>4. op = "RESP_GENERAL_ERROR" => ~ NoError'
    <3>1. Len(answers) + 1 \in 1..Len(answers')
      BY <1>1, <2>2
    <3> QED BY <2>2, <3>1 DEF NoError
  <2> QED BY <1>1, <2>2, <2>3, <2>4
<1>3. CASE conn # "open"
  <2>1. answers' = answers
    BY <1>3 DEF Answer
  <2> QED BY <1>1, <1>3, <2>1 DEF NoError
<1> QED BY <1>2, <1>3

LEMMA ShortStep ==
  ASSUME FramingInv, handle_short, UNCHANGED <<client, sent, chunks, read>>
  PROVE  FramingInv'
<1>1. Types /\ PlaceInv /\ ChunksInv /\ StreamInv /\ ContentInv /\ AlignedInv /\ OrderInv /\ StoredWholeOrEmpty
  BY DEF FramingInv
<1>2. /\ HasHeader /\ Head(inbox).at = 1 /\ sent[Head(inbox).request] = ShortRequest
      /\ inbox' = Left(HEADER_SIZE, inbox)
      /\ UNCHANGED <<conn, pc, content, current, stored>>
      /\ pc = "select" /\ conn \in {"open", "eof"}
      /\ answers' = IF conn = "open" THEN Append(answers, "RESP_USER_LIST") ELSE answers
  BY DEF handle_short, HasHeader, Answer
<1>3. PICK n : n = Head(inbox).request
  OBVIOUS
<1>4. /\ Len(inbox) \in Nat /\ HEADER_SIZE \in 1..Len(inbox) /\ HEADER_SIZE \in 0..Len(inbox)
      /\ inbox[1] = ByteAt(n, 1) /\ n \in 1..Len(sent)
  BY <1>2, <1>3, HeaderIs, Sizes DEF SentBytes
<1>5. Length(sent[n]) = HEADER_SIZE
  BY <1>2, <1>3 DEF Length
<1>6. inbox[HEADER_SIZE] = ByteAt(n, HEADER_SIZE)
  <2>1. \A i \in 1..HEADER_SIZE : inbox[i] = ByteAt(n, 1 + i - 1)
    <3>1. 1 + HEADER_SIZE - 1 <= Length(sent[n]) /\ 1 \in Nat \ {0}
      BY <1>5, Sizes
    <3> QED BY <1>1, <1>4, <3>1, Run
  <2>2. HEADER_SIZE \in 1..HEADER_SIZE /\ 1 + HEADER_SIZE - 1 = HEADER_SIZE
    BY Sizes
  <2> QED BY <2>1, <2>2
<1>7. Succ(inbox[HEADER_SIZE]) = ByteAt(n + 1, 1)
  BY <1>5, <1>6, Sizes DEF Succ, ByteAt
<1>8. /\ inbox' # <<>> \/ conn = "open" => NextByte' = ByteAt(n + 1, 1)
      /\ \A k : After(k) => After(k)'
  <2>1. /\ HEADER_SIZE > 0 /\ (inbox' # <<>> \/ conn = "open") => NextByte' = Succ(inbox[HEADER_SIZE])
        /\ \A k : After(k) => After(k)'
    BY <1>1, <1>2, <1>4, ReadOn
  <2> QED BY <1>7, <2>1, Sizes
<1>9. /\ PlaceInv' /\ ChunksInv' /\ StreamInv'
      /\ inbox' \in Seq(SentBytes) /\ SentBytes' = SentBytes
      /\ \A i, j \in 1..Len(inbox') : i < j /\ inbox'[j].at = 1 => inbox'[i].request < inbox'[j].request
      /\ conn = "open" /\ Frontier'.at = 1 => \A i \in 1..Len(inbox') : inbox'[i].request < Frontier'.request
  BY <1>2, <1>4, ReadKeeps
<1>10. /\ answers' \in Seq(Answers) /\ read \in 0..Len(answers')
       /\ NoError' => NoError
  <2>1. Answer("RESP_USER_LIST") /\ "RESP_USER_LIST" \in Answers
    BY DEF handle_short, Answers
  <2> QED BY <1>1, <2>1, Answered
<1>11. Types'
  BY <1>1, <1>2, <1>9, <1>10 DEF Types, Answers
<1>12. ContentInv' /\ AlignedInv' /\ StoredWholeOrEmpty'
  <2>1. ContentInv' /\ StoredWholeOrEmpty'
    BY <1>1, <1>2 DEF ContentInv, StoredWholeOrEmpty, ContentOf
  <2>2. AlignedInv'
    BY <1>2, <1>8 DEF AlignedInv, ByteAt
  <2> QED BY <2>1, <2>2
<1>13. OrderInv'
  <2>1. \A row \in stored : After(row.request)'
    BY <1>1, <1>8 DEF OrderInv
  <2> QED BY <1>2, <1>9, <2>1 DEF OrderInv, After
<1> QED BY <1>9, <1>11, <1>12, <1>13 DEF FramingInv

\* Bytes that are no header are read for one, and the handler may raise.
LEMMA MisreadSteps ==
  ASSUME FramingInv, handle_unknown \/ handle_raises, UNCHANGED <<client, sent, chunks, read>>
  PROVE  FramingInv'
<1>1. Types /\ PlaceInv /\ ChunksInv /\ StreamInv /\ ContentInv /\ AlignedInv /\ OrderInv /\ StoredWholeOrEmpty
  BY DEF FramingInv
<1>2. /\ HasHeader /\ Head(inbox).at # 1 /\ pc = "select" /\ conn \in {"open", "eof"}
      /\ pc' \in {"select", "failed"}
      /\ UNCHANGED <<conn, content, current, stored, answers>>
  BY DEF handle_unknown, handle_raises, HasHeader
<1>3. /\ Len(inbox) \in Nat /\ HEADER_SIZE <= Len(inbox) /\ inbox # <<>>
      /\ HEADER_SIZE \in Nat
  BY <1>2, HeaderIs, Sizes
<1>4. PICK k \in 0..Len(inbox) : inbox' = Left(k, inbox)
  <2>1. CASE handle_unknown
    BY <1>3, <2>1 DEF handle_unknown
  <2>2. CASE handle_raises
    <3>1. PICK more \in 0..(Len(inbox) - HEADER_SIZE) : inbox' = Left(HEADER_SIZE + more, inbox)
      BY <2>2 DEF handle_raises
    <3>2. HEADER_SIZE + more \in 0..Len(inbox)
      BY <1>3
    <3> QED BY <3>1, <3>2
  <2> QED BY <2>1, <2>2
<1>5. \A n : After(n) => After(n)'
  BY <1>1, <1>2, <1>4, ReadOn
<1>6. /\ PlaceInv' /\ ChunksInv' /\ StreamInv'
      /\ inbox' \in Seq(SentBytes) /\ SentBytes' = SentBytes
      /\ \A i, j \in 1..Len(inbox') : i < j /\ inbox'[j].at = 1 => inbox'[i].request < inbox'[j].request
      /\ conn = "open" /\ Frontier'.at = 1 => \A i \in 1..Len(inbox') : inbox'[i].request < Frontier'.request
  BY <1>2, <1>4, ReadKeeps
<1>7. Types'
  BY <1>1, <1>2, <1>6 DEF Types
<1>8. ContentInv' /\ StoredWholeOrEmpty'
  BY <1>1, <1>2 DEF ContentInv, StoredWholeOrEmpty, ContentOf
<1>9. AlignedInv'
  <2>1. ~ (conn = "open" /\ NoError)
    BY <1>1, <1>2, <1>3 DEF AlignedInv, NextByte
  <2> QED BY <1>2, <2>1 DEF AlignedInv, NoError
<1>10. OrderInv'
  <2>1. \A row \in stored : After(row.request)'
    BY <1>1, <1>5 DEF OrderInv
  <2> QED BY <1>2, <1>6, <2>1 DEF OrderInv, After
<1> QED BY <1>6, <1>7, <1>8, <1>9, <1>10 DEF FramingInv

\* Both headers of a message are in the write they began with.
LEMMA MessageStep ==
  ASSUME FramingInv, messageToUserRequest, UNCHANGED <<client, sent, chunks, read>>
  PROVE  FramingInv'
<1>1. Types /\ PlaceInv /\ ChunksInv /\ StreamInv /\ ContentInv /\ AlignedInv /\ OrderInv /\ StoredWholeOrEmpty
  BY DEF FramingInv
<1>2. /\ HasHeader /\ Head(inbox).at = 1 /\ sent[Head(inbox).request] # ShortRequest
      /\ inbox' = Left(BeforeContent, inbox)
      /\ pc' = "content" /\ content' = <<>> /\ current' = Head(inbox).request
      /\ UNCHANGED <<conn, stored, answers>>
      /\ pc = "select" /\ conn \in {"open", "eof"}
  BY DEF messageToUserRequest, HasHeader
<1>3. PICK n, r, l : n = Head(inbox).request /\ r = sent[n] /\ l = Len(inbox)
  OBVIOUS
<1>4. /\ l \in Nat /\ l > 0
      /\ inbox[1] = ByteAt(n, 1) /\ inbox[1] \in SentBytes /\ n \in 1..Len(sent) /\ inbox # <<>>
  BY <1>2, <1>3, HeaderIs DEF SentBytes
<1>5. /\ r \in Requests /\ r # ShortRequest /\ r.size \in Nat \ {0}
      /\ Length(r) \in Nat \ {0} /\ Length(r) = BeforeContent + r.size
  <2>1. r \in Requests
    BY <1>1, <1>3, <1>4, InboxTypes
  <2> QED BY <1>2, <1>3, <2>1, Lengths
<1>6. BeforeContent <= l
  <2> SUFFICES ASSUME l < BeforeContent PROVE FALSE
    BY <1>4, Sizes
  <2>1. \A i \in 1..l : inbox[i] = ByteAt(n, 1 + i - 1)
    <3>1. 1 + l - 1 <= Length(sent[n]) /\ 1 \in Nat \ {0} /\ l \in 1..Len(inbox)
      BY <1>3, <1>4, <1>5, Sizes
    <3> QED BY <1>1, <1>4, <3>1, Run
  <2>2. inbox[Len(inbox)] = ByteAt(n, l)
    <3>1. l \in 1..l /\ 1 + l - 1 = l
      BY <1>4
    <3> QED BY <1>3, <2>1, <3>1
  <2>3. l >= MAX_BUFFER \/ l = Length(sent[n])
    BY <1>1, <1>4, <2>2 DEF StreamInv, ByteAt
  <2> QED BY <1>3, <1>4, <1>5, <2>3, Sizes
<1>7. BeforeContent \in 1..Len(inbox) /\ BeforeContent \in 0..Len(inbox)
  BY <1>3, <1>4, <1>6, Sizes
<1>8. inbox[BeforeContent] = ByteAt(n, BeforeContent)
  <2>1. \A i \in 1..BeforeContent : inbox[i] = ByteAt(n, 1 + i - 1)
    <3>1. 1 + BeforeContent - 1 <= Length(sent[n]) /\ 1 \in Nat \ {0}
      BY <1>3, <1>5, Sizes
    <3> QED BY <1>1, <1>4, <1>7, <3>1, Run
  <2>2. BeforeContent \in 1..BeforeContent /\ 1 + BeforeContent - 1 = BeforeContent
    BY Sizes
  <2> QED BY <2>1, <2>2
<1>9. /\ Len(inbox') = l - BeforeContent
      /\ \A i \in 1..(l - BeforeContent) : inbox'[i] = inbox[BeforeContent + i]
      /\ inbox' # <<>> \/ conn = "open" => NextByte' = Succ(ByteAt(n, BeforeContent))
      /\ \A k : After(k) => After(k)'
  <2>1. /\ Len(inbox') = Len(inbox) - BeforeContent
        /\ \A i \in 1..(Len(inbox) - BeforeContent) : inbox'[i] = inbox[BeforeContent + i]
        /\ BeforeContent > 0 /\ (inbox' # <<>> \/ conn = "open") => NextByte' = Succ(inbox[BeforeContent])
        /\ \A k : After(k) => After(k)'
    BY <1>1, <1>2, <1>7, ReadOn
  <2> QED BY <1>3, <1>8, <2>1, Sizes
<1>10. /\ PlaceInv' /\ ChunksInv' /\ StreamInv'
       /\ inbox' \in Seq(SentBytes) /\ SentBytes' = SentBytes
       /\ \A i, j \in 1..Len(inbox') : i < j /\ inbox'[j].at = 1 => inbox'[i].request < inbox'[j].request
       /\ conn = "open" /\ Frontier'.at = 1 => \A i \in 1..Len(inbox') : inbox'[i].request < Frontier'.request
  BY <1>2, <1>7, ReadKeeps
<1>11. Types'
  <2>1. <<>> \in Seq(SentBytes)
    BY EmptySeq
  <2>2. n \in 0..Len(sent)
    BY <1>4
  <2> QED BY <1>1, <1>2, <1>3, <1>10, <2>1, <2>2 DEF Types
<1>12. ContentInv'
  <2>1. current' = n /\ sent' = sent /\ Len(content') = 0 /\ n > 0 /\ BeforeContent + 0 = BeforeContent
    BY <1>2, <1>3, <1>4, Sizes
  <2>2. IsPart(content', n, BeforeContent)
    BY <2>1 DEF IsPart
  <2>3. Succ(ByteAt(n, BeforeContent))' = Succ(ByteAt(n, BeforeContent))
    BY DEF Succ
  <2> QED BY <1>2, <1>3, <1>5, <1>9, <2>1, <2>2, <2>3 DEF ContentInv, IsPart
<1>13. AlignedInv' /\ StoredWholeOrEmpty'
  BY <1>1, <1>2 DEF AlignedInv, StoredWholeOrEmpty, ContentOf
<1>14. OrderInv'
  <2>1. \A row \in stored : After(row.request)'
    BY <1>1, <1>9 DEF OrderInv
  <2>2. After(n)'
    <3>1. ASSUME NEW i \in 1..Len(inbox'), inbox'[i].at = 1 PROVE n < inbox'[i].request
      <4>1. PICK j : j = BeforeContent + i
        OBVIOUS
      <4>2. j \in 1..Len(inbox) /\ 1 \in 1..Len(inbox) /\ 1 < j /\ inbox'[i] = inbox[j]
        BY <1>3, <1>4, <1>6, <1>9, <4>1, Sizes
      <4>3. inbox[1].request < inbox[j].request
        BY <1>1, <3>1, <4>2 DEF OrderInv
      <4> QED BY <1>4, <4>2, <4>3 DEF ByteAt
    <3>2. conn = "open" /\ Frontier.at = 1 => n < Frontier.request
      <4>1. 1 \in 1..Len(inbox) /\ inbox[1].request = n
        BY <1>3, <1>4 DEF ByteAt
      <4> QED BY <1>1, <4>1 DEF OrderInv
    <3>3. Frontier' = Frontier
      BY DEF Frontier
    <3> QED BY <1>2, <3>1, <3>2, <3>3 DEF After
  <2>3. ASSUME NEW row \in stored PROVE row.request < n
    <3>1. 1 \in 1..Len(inbox) /\ inbox[1].request = n /\ inbox[1].at = 1
      BY <1>3, <1>4 DEF ByteAt
    <3> QED BY <1>1, <3>1 DEF OrderInv, After
  <2> QED BY <1>2, <1>3, <1>10, <2>1, <2>2, <2>3 DEF OrderInv, After
<1> QED BY <1>10, <1>11, <1>12, <1>13, <1>14 DEF FramingInv

\* More of the content arrived.
LEMMA RecvStep ==
  ASSUME FramingInv, recv, UNCHANGED <<client, sent, chunks, read>>
  PROVE  FramingInv'
<1>1. Types /\ PlaceInv /\ ChunksInv /\ StreamInv /\ ContentInv /\ AlignedInv /\ OrderInv /\ StoredWholeOrEmpty
  BY DEF FramingInv
<1>2. PICK n, size, l, had, missing :
        n = current /\ size = sent[n].size /\ l = Len(inbox) /\ had = Len(content) /\ missing = size - had
  OBVIOUS
<1>3. /\ pc = "content" /\ missing > 0 /\ inbox # <<>>
      /\ content' = content \o Taken(missing, inbox) /\ inbox' = Left(missing, inbox)
      /\ UNCHANGED <<conn, pc, current, stored, answers>>
  BY <1>2 DEF recv, Missing
<1>4. /\ n \in 1..Len(sent) /\ sent[n] # ShortRequest
      /\ IsPart(content, n, BeforeContent)
      /\ NextByte = Succ(ByteAt(n, BeforeContent + had))
  BY <1>1, <1>2, <1>3 DEF ContentInv, Types
<1>5. /\ size \in Nat \ {0} /\ Length(sent[n]) = BeforeContent + size
      /\ l \in Nat /\ l > 0 /\ had \in Nat /\ missing \in Nat /\ Head(inbox) = inbox[1]
  <2>1. sent[n] \in Requests
    BY <1>1, <1>4, InboxTypes
  <2>2. l \in Nat /\ l > 0 /\ had \in Nat /\ Head(inbox) = inbox[1]
    BY <1>1, <1>2, <1>3, InboxTypes
  <2>3. size \in Nat \ {0} /\ Length(sent[n]) = BeforeContent + size
    BY <1>2, <1>4, <2>1, Lengths
  <2> QED BY <1>2, <1>3, <2>2, <2>3
<1>6. PICK k : k = AtMost(missing, inbox)
  OBVIOUS
<1>7. /\ k \in 1..l /\ k \in 0..Len(inbox) /\ k <= missing
      /\ content' = content \o Taken(k, inbox) /\ inbox' = Left(k, inbox)
  <2>1. inbox \in Seq(SentBytes)
    BY <1>1 DEF Types
  <2>2. /\ k \in 0..Len(inbox)
        /\ missing <= Len(inbox) => k = missing
        /\ missing > Len(inbox) => k = Len(inbox)
        /\ Taken(missing, inbox) = Taken(k, inbox)
        /\ Left(missing, inbox) = Left(k, inbox)
    BY <1>5, <1>6, <2>1, AtMostAll
  <2> QED BY <1>2, <1>3, <1>5, <2>2
<1>8. PICK a : a = BeforeContent + had + 1
  OBVIOUS
<1>9. a \in Nat \ {0} /\ a + k - 1 <= Length(sent[n]) /\ inbox[1] = ByteAt(n, a)
  <2>1. a \in Nat \ {0} /\ a + k - 1 <= Length(sent[n]) /\ BeforeContent + had < Length(sent[n])
    <3>1. PICK b, d : b = BeforeContent /\ d = Length(sent[n])
      OBVIOUS
    <3>2. b \in Nat /\ d = b + size /\ a = b + had + 1
      BY <1>5, <1>8, <3>1, Sizes
    <3>3. k \in Nat /\ k >= 1 /\ k <= size - had
      BY <1>2, <1>5, <1>7
    <3>4. a \in Nat \ {0} /\ a + k - 1 <= d /\ b + had < d
      BY <1>5, <3>2, <3>3
    <3> QED BY <3>1, <3>4
  <2>2. inbox[1] = Succ(ByteAt(n, BeforeContent + had))
    BY <1>3, <1>4, <1>5 DEF NextByte
  <2> QED BY <1>8, <2>1, <2>2 DEF Succ, ByteAt
<1>10. \A i \in 1..k : inbox[i] = ByteAt(n, a + i - 1)
  BY <1>1, <1>2, <1>4, <1>7, <1>9, Run
<1>11. /\ content' \in Seq(SentBytes) /\ Len(content') = had + k
       /\ IsPart(content', n, BeforeContent)
  <2>1. PICK t : t = Taken(k, inbox)
    OBVIOUS
  <2>2. /\ t \in Seq(SentBytes) /\ Len(t) = k
        /\ \A i \in 1..k : t[i] = inbox[i]
    <3>1. inbox \in Seq(SentBytes)
      BY <1>1 DEF Types
    <3> QED BY <1>7, <2>1, <3>1, TakenAndLeft
  <2>3. /\ content' \in Seq(SentBytes) /\ Len(content') = had + k
        /\ \A i \in 1..(had + k) : content'[i] = IF i <= had THEN content[i] ELSE t[i - had]
    <3>1. content \in Seq(SentBytes)
      BY <1>1 DEF Types
    <3>2. /\ content \o t \in Seq(SentBytes)
          /\ Len(content \o t) = Len(content) + Len(t)
          /\ \A i \in 1..(Len(content) + Len(t)) :
               (content \o t)[i] = IF i <= Len(content) THEN content[i] ELSE t[i - Len(content)]
      BY <2>2, <3>1, ConcatProperties
    <3>3. content' = content \o t
      BY <1>7, <2>1
    <3> QED BY <1>2, <2>2, <3>2, <3>3
  <2>4. ASSUME NEW i \in 1..(had + k) PROVE content'[i] = ByteAt(n, BeforeContent + i)
    <3>1. CASE i <= had
      <4>1. i \in 1..Len(content)
        BY <1>2, <1>5, <3>1
      <4> QED BY <1>4, <2>3, <3>1, <4>1 DEF IsPart
    <3>2. CASE i > had
      <4>1. PICK j : j = i - had
        OBVIOUS
      <4>2. j \in 1..k /\ a + j - 1 = BeforeContent + i
        BY <1>5, <1>7, <1>8, <3>2, <4>1, Sizes
      <4>3. content'[i] = inbox[j]
        BY <1>5, <1>7, <2>2, <2>3, <3>2, <4>1, <4>2
      <4>4. PICK b : b = a + j - 1
        OBVIOUS
      <4>5. inbox[j] = ByteAt(n, b)
        BY <1>10, <4>2, <4>4
      <4>6. b = BeforeContent + i
        BY <4>2, <4>4
      <4> QED BY <4>3, <4>5, <4>6
    <3>3. i <= had \/ i > had
      BY <1>5, <1>7
    <3> QED BY <3>1, <3>2, <3>3
  <2> QED BY <2>3, <2>4 DEF IsPart
<1>12. /\ inbox' # <<>> \/ conn = "open" => NextByte' = Succ(ByteAt(n, BeforeContent + Len(content')))
       /\ \A i : After(i) => After(i)'
  <2>1. /\ k > 0 /\ (inbox' # <<>> \/ conn = "open") => NextByte' = Succ(inbox[k])
        /\ \A i : After(i) => After(i)'
    BY <1>1, <1>3, <1>7, ReadOn
  <2>2. inbox[k] = ByteAt(n, BeforeContent + Len(content'))
    <3>1. k \in 1..k /\ a + k - 1 = BeforeContent + (had + k) /\ k > 0
      BY <1>5, <1>7, <1>8, Sizes
    <3> QED BY <1>10, <1>11, <3>1
  <2>3. k > 0
    BY <1>7
  <2> QED BY <2>1, <2>2, <2>3
<1>13. /\ PlaceInv' /\ ChunksInv' /\ StreamInv'
       /\ inbox' \in Seq(SentBytes) /\ SentBytes' = SentBytes
       /\ \A i, j \in 1..Len(inbox') : i < j /\ inbox'[j].at = 1 => inbox'[i].request < inbox'[j].request
       /\ conn = "open" /\ Frontier'.at = 1 => \A i \in 1..Len(inbox') : inbox'[i].request < Frontier'.request
  BY <1>3, <1>7, ReadKeeps
<1>14. Types'
  BY <1>1, <1>3, <1>11, <1>13 DEF Types
<1>15. ContentInv'
  <2>1. current' = n /\ sent' = sent /\ conn' = conn /\ n > 0 /\ Len(content') <= size
    BY <1>2, <1>3, <1>4, <1>5, <1>7, <1>11
  <2>2. \A b : Succ(b)' = Succ(b)
    BY DEF Succ
  <2> QED BY <1>2, <1>4, <1>11, <1>12, <2>1, <2>2 DEF ContentInv, IsPart
<1>16. AlignedInv' /\ StoredWholeOrEmpty'
  BY <1>1, <1>3 DEF AlignedInv, StoredWholeOrEmpty, ContentOf
<1>17. OrderInv'
  <2>1. /\ \A row \in stored : After(row.request)' /\ row.request < n
        /\ After(n)'
    BY <1>1, <1>2, <1>3, <1>12 DEF OrderInv
  <2> QED BY <1>2, <1>3, <1>13, <2>1 DEF OrderInv, After
<1> QED BY <1>13, <1>14, <1>15, <1>16, <1>17 DEF FramingInv

\* The content is complete: it is the one that was sent.
LEMMA StoreStep ==
  ASSUME FramingInv, sendMessageToTarget, UNCHANGED <<client, sent, chunks, read>>
  PROVE  FramingInv'
<1>1. Types /\ PlaceInv /\ ChunksInv /\ StreamInv /\ ContentInv /\ AlignedInv /\ OrderInv /\ StoredWholeOrEmpty
  BY DEF FramingInv
<1>2. PICK n, row : n = current /\ row = [request |-> current, content |-> content]
  OBVIOUS
<1>3. /\ pc = "content" /\ sent[n].size - Len(content) = 0
      /\ pc' = "select" /\ stored' = stored \cup {row}
      /\ UNCHANGED <<conn, inbox, content, current>>
      /\ Answer("RESP_MSG_SENT_TO_USER")
  BY <1>2 DEF sendMessageToTarget, Missing, Store
<1>4. /\ n \in 1..Len(sent) /\ sent[n] # ShortRequest
      /\ IsPart(content, n, BeforeContent)
      /\ inbox # <<>> \/ conn = "open" => NextByte = Succ(ByteAt(n, BeforeContent + Len(content)))
      /\ content \in Seq(SentBytes)
  BY <1>1, <1>2, <1>3 DEF ContentInv, Types
<1>5. /\ sent[n].size \in Nat \ {0} /\ Len(content) = sent[n].size
      /\ Length(sent[n]) = BeforeContent + Len(content) /\ n \in Nat \ {0} /\ sent[n] \in Requests
  <2>1. sent[n] \in Requests /\ Len(content) \in Nat /\ Len(sent) \in Nat
    BY <1>1, <1>4, InboxTypes
  <2>2. sent[n].size \in Nat \ {0} /\ Length(sent[n]) = BeforeContent + sent[n].size
    BY <1>4, <2>1, Lengths
  <2> QED BY <1>3, <1>4, <2>1, <2>2
<1>6. content = ContentOf(n)
  <2>1. PICK b, d, s : b = Bytes(n, sent[n]) /\ d = Length(sent[n]) /\ s = SubSeq(b, BeforeContent + 1, d)
    OBVIOUS
  <2>2. /\ b \in Seq([request : {n}, at : Nat \ {0}]) /\ Len(b) = d
        /\ \A i \in 1..d : b[i] = ByteAt(n, i)
    BY <1>5, <2>1, BytesOfRequest
  <2>3. d = BeforeContent + Len(content) /\ d \in Nat /\ BeforeContent \in Nat /\ Len(content) \in Nat \ {0}
    BY <1>5, <2>1, Sizes
  <2>4. b \in Seq(SentBytes)
    <3>1. [request : {n}, at : Nat \ {0}] \subseteq SentBytes
      BY <1>4 DEF SentBytes
    <3> QED BY <2>2, <3>1, SeqMonotonic
  <2>5. /\ s \in Seq(SentBytes) /\ Len(s) = Len(content)
        /\ \A i \in 1..Len(content) : s[i] = b[BeforeContent + i]
    <3>1. PICK f : f = BeforeContent + 1
      OBVIOUS
    <3>2. f \in Nat /\ f \in 1..d /\ d - f + 1 = Len(content) /\ f <= d
      BY <2>3, <3>1
    <3>3. \A i \in f..d : b[i] \in SentBytes
      <4>1. \A i \in 1..d : b[i] \in SentBytes
        BY <2>2, <2>4, ElementOfSeq
      <4> QED BY <2>3, <3>2, <4>1
    <3>4. /\ SubSeq(b, f, d) \in Seq(SentBytes)
          /\ Len(SubSeq(b, f, d)) = IF f <= d THEN d - f + 1 ELSE 0
          /\ \A i \in 1..(d - f + 1) : SubSeq(b, f, d)[i] = b[f + i - 1]
      BY <2>3, <3>2, <3>3, SubSeqProperties
    <3>5. s \in Seq(SentBytes) /\ Len(s) = Len(content)
      BY <2>1, <3>1, <3>2, <3>4
    <3>6. ASSUME NEW i \in 1..Len(content) PROVE s[i] = b[BeforeContent + i]
      <4>1. i \in 1..(d - f + 1) /\ f + i - 1 = BeforeContent + i
        BY <2>3, <3>1, <3>2
      <4> QED BY <2>1, <3>1, <3>4, <4>1
    <3> QED BY <3>5, <3>6
  <2>6. ASSUME NEW i \in 1..Len(content) PROVE content[i] = s[i]
    <3>1. PICK j : j = BeforeContent + i
      OBVIOUS
    <3>2. j \in 1..d
      BY <2>3, <3>1
    <3>3. s[i] = b[j]
      BY <2>5, <3>1
    <3>4. content[i] = ByteAt(n, j)
      BY <1>4, <3>1 DEF IsPart
    <3> QED BY <2>2, <3>2, <3>3, <3>4
  <2>7. content = s
    BY <1>4, <2>5, <2>6, SeqEqual
  <2> QED BY <2>1, <2>7 DEF ContentOf
<1>7. Succ(ByteAt(n, BeforeContent + Len(content))) = ByteAt(n + 1, 1)
  BY <1>5, Sizes DEF Succ, ByteAt
<1>8. /\ answers' \in Seq(Answers) /\ read \in 0..Len(answers')
      /\ NoError' => NoError
  <2>1. "RESP_MSG_SENT_TO_USER" \in Answers
    BY DEF Answers
  <2> QED BY <1>1, <1>3, <2>1, Answered
<1>9. /\ \A b : Succ(b)' = Succ(b)
      /\ Frontier' = Frontier /\ NextByte' = NextByte
      /\ \A k : ContentOf(k)' = ContentOf(k)
  BY <1>3 DEF Succ, Frontier, NextByte, ContentOf
<1>10. Types'
  <2>1. row \in [request : 1..Len(sent), content : Seq(SentBytes)]
    BY <1>2, <1>4
  <2> QED BY <1>1, <1>3, <1>8, <2>1 DEF Types, Answers, SentBytes
<1>11. PlaceInv' /\ ChunksInv' /\ StreamInv' /\ ContentInv'
  <2>1. PlaceInv' /\ ChunksInv' /\ ContentInv'
    BY <1>1, <1>3 DEF PlaceInv, ChunksInv, ContentInv
  <2>2. StreamInv'
    BY <1>1, <1>3, <1>9 DEF StreamInv
  <2> QED BY <2>1, <2>2
<1>12. AlignedInv'
  BY <1>3, <1>4, <1>7, <1>9 DEF AlignedInv, ByteAt
<1>13. OrderInv' /\ StoredWholeOrEmpty'
  <2>1. After(n) /\ \A other \in stored : other.request < n /\ After(other.request)
    BY <1>1, <1>2, <1>3 DEF OrderInv
  <2>2. \A other \in stored' : After(other.request)'
    BY <1>2, <1>3, <1>9, <2>1 DEF After
  <2>3. OrderInv'
    BY <1>1, <1>3, <1>9, <2>2 DEF OrderInv
  <2>4. \A other \in stored : other.request # row.request
    BY <1>2, <1>4, <1>5, <2>1
  <2>5. StoredWholeOrEmpty'
    BY <1>1, <1>2, <1>3, <1>6, <1>9, <2>4 DEF StoredWholeOrEmpty
  <2> QED BY <2>3, <2>5
<1> QED BY <1>10, <1>11, <1>12, <1>13 DEF FramingInv

\* The client left: an empty content is stored.
LEMMA StoreNothingStep ==
  ASSUME FramingInv, sendNothingToTarget, UNCHANGED <<client, sent, chunks, read>>
  PROVE  FramingInv'
<1>1. Types /\ PlaceInv /\ ChunksInv /\ StreamInv /\ ContentInv /\ AlignedInv /\ OrderInv /\ StoredWholeOrEmpty
  BY DEF FramingInv
<1>2. PICK n, row : n = current /\ row = [request |-> current, content |-> <<>>]
  OBVIOUS
<1>3. /\ pc = "content" /\ inbox = <<>> /\ conn = "eof"
      /\ pc' = "select" /\ stored' = stored \cup {row}
      /\ UNCHANGED <<conn, inbox, content, current>>
      /\ Answer("RESP_MSG_SENT_TO_USER")
  BY <1>2 DEF sendNothingToTarget, Store
<1>4. n \in 1..Len(sent) /\ Len(sent) \in Nat /\ client = "gone"
  BY <1>1, <1>2, <1>3, InboxTypes DEF ContentInv, Types, PlaceInv
<1>5. /\ answers' \in Seq(Answers) /\ read \in 0..Len(answers')
  <2>1. "RESP_MSG_SENT_TO_USER" \in Answers
    BY DEF Answers
  <2> QED BY <1>1, <1>3, <2>1, Answered
<1>6. /\ \A b : Succ(b)' = Succ(b)
      /\ \A k : ContentOf(k)' = ContentOf(k)
  BY <1>3 DEF Succ, ContentOf
<1>7. Types'
  <2>1. row \in [request : 1..Len(sent), content : Seq(SentBytes)]
    BY <1>2, <1>4, EmptySeq
  <2> QED BY <1>1, <1>3, <1>5, <2>1 DEF Types, Answers, SentBytes
<1>8. PlaceInv' /\ ChunksInv' /\ StreamInv' /\ ContentInv' /\ AlignedInv'
  <2>1. PlaceInv' /\ ChunksInv' /\ ContentInv' /\ AlignedInv'
    BY <1>1, <1>3 DEF PlaceInv, ChunksInv, ContentInv, AlignedInv
  <2>2. StreamInv'
    BY <1>1, <1>3, <1>6 DEF StreamInv
  <2> QED BY <2>1, <2>2
<1>9. OrderInv' /\ StoredWholeOrEmpty'
  <2>1. After(n) /\ \A other \in stored : other.request < n /\ After(other.request)
    BY <1>1, <1>2, <1>3 DEF OrderInv
  <2>2. \A other \in stored' : After(other.request)'
    BY <1>2, <1>3, <2>1 DEF After
  <2>3. OrderInv'
    BY <1>1, <1>3, <2>2 DEF OrderInv
  <2>4. \A other \in stored : other.request # row.request
    BY <1>2, <1>4, <2>1
  <2>5. StoredWholeOrEmpty'
    BY <1>1, <1>2, <1>3, <1>4, <1>6, <2>4 DEF StoredWholeOrEmpty
  <2> QED BY <2>3, <2>5
<1> QED BY <1>7, <1>8, <1>9 DEF FramingInv

\* After the general error the server reads on wherever it is.
LEMMA FlushStep ==
  ASSUME FramingInv, flush, UNCHANGED <<client, sent, chunks, read>>
  PROVE  FramingInv'
<1>1. Types /\ PlaceInv /\ ChunksInv /\ StreamInv /\ ContentInv /\ AlignedInv /\ OrderInv /\ StoredWholeOrEmpty
  BY DEF FramingInv
<1>2. /\ pc = "failed" /\ pc' = "select" /\ inbox' = Left(MAX_BUFFER, inbox)
      /\ UNCHANGED <<conn, content, current, stored>> /\ Answer("RESP_GENERAL_ERROR")
  BY DEF flush
<1>3. PICK k \in 0..Len(inbox) : inbox' = Left(k, inbox)
  <2>1. inbox \in Seq(SentBytes) /\ MAX_BUFFER \in Nat
    BY <1>1, Sizes DEF Types
  <2>2. /\ AtMost(MAX_BUFFER, inbox) \in 0..Len(inbox)
        /\ Left(MAX_BUFFER, inbox) = Left(AtMost(MAX_BUFFER, inbox), inbox)
    BY <2>1, AtMostAll
  <2> QED BY <1>2, <2>2
<1>4. conn \notin {"closed", "off"}
  BY <1>1, <1>2 DEF PlaceInv
<1>5. \A n : After(n) => After(n)'
  BY <1>1, <1>2, <1>3, ReadOn
<1>6. /\ PlaceInv' /\ ChunksInv' /\ StreamInv'
      /\ inbox' \in Seq(SentBytes) /\ SentBytes' = SentBytes
      /\ \A i, j \in 1..Len(inbox') : i < j /\ inbox'[j].at = 1 => inbox'[i].request < inbox'[j].request
      /\ conn = "open" /\ Frontier'.at = 1 => \A i \in 1..Len(inbox') : inbox'[i].request < Frontier'.request
  BY <1>2, <1>3, <1>4, ReadKeeps
<1>7. /\ answers' \in Seq(Answers) /\ read \in 0..Len(answers')
      /\ conn = "open" => ~ NoError'
  <2>1. "RESP_GENERAL_ERROR" \in Answers
    BY DEF Answers
  <2> QED BY <1>1, <1>2, <2>1, Answered
<1>8. Types'
  BY <1>1, <1>2, <1>6, <1>7 DEF Types, Answers
<1>9. ContentInv' /\ AlignedInv' /\ StoredWholeOrEmpty'
  BY <1>1, <1>2, <1>7 DEF ContentInv, AlignedInv, StoredWholeOrEmpty, ContentOf
<1>10. OrderInv'
  <2>1. \A row \in stored : After(row.request)'
    BY <1>1, <1>5 DEF OrderInv
  <2> QED BY <1>2, <1>6, <2>1 DEF OrderInv, After
<1> QED BY <1>6, <1>8, <1>9, <1>10 DEF FramingInv

\* Steps that raise or close the connection.
LEMMA EndingSteps ==
  ASSUME FramingInv, parse_headerFails \/ recvBlocks \/ flushBlocks,
         UNCHANGED <<client, sent, chunks, read>>
  PROVE  FramingInv'
<1>1. Types /\ PlaceInv /\ ChunksInv /\ StreamInv /\ ContentInv /\ AlignedInv /\ OrderInv /\ StoredWholeOrEmpty
  BY DEF FramingInv
<1>2. CASE recvBlocks
  <2>1. /\ pc = "content" /\ conn = "open" /\ pc' = "failed"
        /\ UNCHANGED <<conn, inbox, content, current, stored, answers>>
    BY <1>2 DEF recvBlocks
  <2>2. Frontier' = Frontier /\ \A b : Succ(b)' = Succ(b)
    BY DEF Frontier, Succ
  <2>3. Types'
    BY <1>1, <2>1 DEF Types, SentBytes
  <2>4. PlaceInv' /\ ChunksInv' /\ ContentInv' /\ AlignedInv' /\ StoredWholeOrEmpty'
    BY <1>1, <2>1 DEF PlaceInv, ChunksInv, ContentInv, AlignedInv, StoredWholeOrEmpty, ContentOf
  <2>5. StreamInv'
    BY <1>1, <2>1, <2>2 DEF StreamInv
  <2>6. OrderInv'
    BY <1>1, <2>1, <2>2 DEF OrderInv, After
  <2> QED BY <2>3, <2>4, <2>5, <2>6 DEF FramingInv
<1>3. CASE parse_headerFails \/ flushBlocks
  <2>1. ((conn = "open" /\ conn' = "closed") \/ (conn = "eof" /\ conn' = "off")) /\ inbox' = <<>>
    BY <1>3 DEF parse_headerFails, flushBlocks
  <2>2. pc' = "select" /\ UNCHANGED <<content, current, stored, answers>>
    BY <1>3 DEF parse_headerFails, flushBlocks
  <2>3. <<>> \in Seq(SentBytes) /\ Len(inbox') = 0
    BY <2>1, EmptySeq
  <2>4. Types'
    BY <1>1, <2>1, <2>2, <2>3 DEF Types, SentBytes
  <2>5. PlaceInv' /\ ChunksInv' /\ StoredWholeOrEmpty'
    BY <1>1, <2>1, <2>2 DEF PlaceInv, ChunksInv, StoredWholeOrEmpty, ContentOf
  <2>6. StreamInv' /\ ContentInv' /\ AlignedInv' /\ OrderInv'
    BY <2>1, <2>2, <2>3 DEF StreamInv, ContentInv, AlignedInv, OrderInv, After
  <2> QED BY <2>4, <2>5, <2>6 DEF FramingInv
<1> QED BY <1>2, <1>3

LEMMA FramingInit == Init => FramingInv
<1> SUFFICES ASSUME Init PROVE FramingInv
  OBVIOUS
<1>1. /\ client = "menu" /\ sent = <<>> /\ chunks = <<>> /\ read = 0 /\ conn = "open" /\ inbox = <<>>
      /\ pc = "select" /\ content = <<>> /\ current = 0 /\ stored = {} /\ answers = <<>>
  BY DEF Init
<1>2. /\ Len(<<>>) = 0 /\ \A S : <<>> \in Seq(S)
  BY EmptySeq
<1>3. Types
  BY <1>1, <1>2 DEF Types
<1>4. Frontier = ByteAt(1, 1) /\ NextByte = ByteAt(1, 1)
  BY <1>1, <1>2 DEF Frontier, NextByte
<1>5. PlaceInv /\ ChunksInv /\ StreamInv /\ ContentInv /\ AlignedInv /\ OrderInv /\ StoredWholeOrEmpty
  BY <1>1, <1>2, <1>4 DEF PlaceInv, ChunksInv, StreamInv, ContentInv, AlignedInv, OrderInv,
                           StoredWholeOrEmpty, ByteAt
<1> QED BY <1>3, <1>5 DEF FramingInv

LEMMA FramingStep == FramingInv /\ [Next]_vars => FramingInv'
<1> SUFFICES ASSUME FramingInv, [Next]_vars PROVE FramingInv'
  OBVIOUS
<1>1. CASE \E r \in Requests : Choose(r)
  BY <1>1, ChooseStep
<1>2. CASE sendMessage
  BY <1>2, SendStep
<1>3. CASE receiveMessage \/ Disconnected \/ Leave
  BY <1>3, OtherClientSteps
<1>4. CASE handle_client
  <2>1. UNCHANGED <<client, sent, chunks, read>>
    BY <1>4 DEF handle_client
  <2>2. CASE parse_headerFails \/ recvBlocks \/ flushBlocks
    BY <2>1, <2>2, EndingSteps
  <2>3. CASE handle_short
    BY <2>1, <2>3, ShortStep
  <2>4. CASE messageToUserRequest
    BY <2>1, <2>4, MessageStep
  <2>5. CASE handle_unknown \/ handle_raises
    BY <2>1, <2>5, MisreadSteps
  <2>6. CASE recv
    BY <2>1, <2>6, RecvStep
  <2>7. CASE sendMessageToTarget
    BY <2>1, <2>7, StoreStep
  <2>8. CASE sendNothingToTarget
    BY <2>1, <2>8, StoreNothingStep
  <2>9. CASE flush
    BY <2>1, <2>9, FlushStep
  <2> QED BY <1>4, <2>2, <2>3, <2>4, <2>5, <2>6, <2>7, <2>8, <2>9 DEF handle_client
<1>5. CASE UNCHANGED vars
  <2>1. /\ client' = client /\ sent' = sent /\ chunks' = chunks /\ read' = read /\ conn' = conn
        /\ inbox' = inbox /\ pc' = pc /\ content' = content /\ current' = current
        /\ stored' = stored /\ answers' = answers
    BY <1>5 DEF vars
  <2>2. Frontier' = Frontier /\ NextByte' = NextByte /\ \A b : Succ(b)' = Succ(b)
    BY <2>1 DEF Frontier, NextByte, Succ
  <2>3. Types' /\ PlaceInv' /\ ChunksInv' /\ AlignedInv' /\ StoredWholeOrEmpty'
    BY <2>1, <2>2 DEF FramingInv, Types, SentBytes, PlaceInv, ChunksInv, AlignedInv, NoError,
                       StoredWholeOrEmpty, ContentOf
  <2>4. StreamInv' /\ ContentInv' /\ OrderInv'
    BY <2>1, <2>2 DEF FramingInv, StreamInv, ContentInv, IsPart, OrderInv, After
  <2> QED BY <2>3, <2>4 DEF FramingInv
<1> QED BY <1>1, <1>2, <1>3, <1>4, <1>5 DEF Next

LEMMA FramingInvariant == Spec => []FramingInv
BY FramingInit, FramingStep, PTL DEF Spec

-----------------------------------------------------------------------------

\* What is sent, read, stored and answered always has its type, however a
\* request is cut into writes, and wherever the server begins to read: the
\* session of sendMessage and handle_client with its buffers.
THEOREM FramingTypeCorrect == Spec => []FramingTypeOK
<1>1. FramingInv => FramingTypeOK
  BY DEF FramingInv, Types, SentBytes, FramingTypeOK
<1> QED BY <1>1, FramingInvariant, PTL

\* messageToUserRequest stores the content that was sent or, from a client that
\* left, an empty one, and stores a message once, whatever handle_client
\* misread before.
THEOREM ContentsAreWholeOrEmpty == Spec => []StoredWholeOrEmpty
<1>1. FramingInv => StoredWholeOrEmpty
  BY DEF FramingInv
<1> QED BY <1>1, FramingInvariant, PTL

\* Until it has sent the general error on a connection, handle_client takes
\* bytes for a header only where a request begins.
THEOREM HeadersAreHeaders == Spec => []AlignedUntilFirstError
<1>1. FramingInv => AlignedUntilFirstError
  BY DEF FramingInv, AlignedInv, NextByte, NoError, AlignedUntilFirstError
<1> QED BY <1>1, FramingInvariant, PTL

-----------------------------------------------------------------------------
(* Requests that fit one write. *)

AnswerTo(r) == IF r = ShortRequest THEN "RESP_USER_LIST" ELSE "RESP_MSG_SENT_TO_USER"

RightAnswers == \A n \in 1..Len(answers) : answers[n] = AnswerTo(sent[n])

Idle == pc = "select" /\ inbox = <<>>

\* All of the last request that is not yet read has arrived.
Unread ==
  LET m == Len(sent) IN
  /\ m > 0
  /\ \/ pc = "select" /\ Len(inbox) = Length(sent[m]) /\ Head(inbox) = ByteAt(m, 1)
     \/ pc = "content" /\ current = m /\ Len(content) + Len(inbox) = sent[m].size

\* The client and the server take turns.
TurnsInv ==
  /\ client = "menu" => Idle /\ read = Len(answers) /\ Len(answers) = Len(sent)
  /\ client = "writing" => Idle /\ read = Len(answers) /\ Len(answers) + 1 = Len(sent)
  /\ client = "waiting" =>
       /\ read + 1 = Len(sent)
       /\ \/ Idle /\ Len(answers) = Len(sent)
          \/ Unread /\ Len(answers) + 1 = Len(sent)
  /\ client = "gone" => (Idle \/ Unread) /\ Len(answers) <= Len(sent)

Safe == pc # "failed" /\ conn # "closed" /\ RightAnswers /\ TurnsInv

\* Inductive together with FramingInv.
ShortInv == AllShort => Safe

LEMMA ShortClientSteps ==
  ASSUME FramingInv, AllShort, Safe,
         sendMessage \/ receiveMessage \/ Disconnected \/ Leave
  PROVE  Safe'
<1>1. Types /\ PlaceInv /\ ChunksInv /\ StreamInv /\ ContentInv /\ AlignedInv /\ OrderInv
      /\ pc # "failed" /\ conn # "closed" /\ RightAnswers /\ TurnsInv
  BY DEF FramingInv, Safe
<1>2. PICK m : m = Len(sent)
  OBVIOUS
<1>3. m \in Nat /\ Len(answers) \in Nat /\ read \in Nat
  BY <1>1, <1>2, InboxTypes DEF Types
<1>4. CASE sendMessage
  <2>1. /\ client = "writing" /\ conn = "open" /\ inbox' = inbox \o Head(chunks)
        /\ client' = IF Len(chunks) = 1 THEN "waiting" ELSE "writing"
        /\ UNCHANGED <<sent, read, conn, pc, content, current, stored, answers>>
    BY <1>4 DEF sendMessage
  <2>2. Idle /\ read = Len(answers) /\ Len(answers) + 1 = m
    BY <1>1, <1>2, <2>1 DEF TurnsInv
  <2>3. PICK c, len : c = Head(chunks) /\ len = Length(sent[m])
    OBVIOUS
  <2>4. /\ m \in Nat \ {0} /\ Len(chunks) \in Nat \ {0}
        /\ c \in Seq(SentBytes) /\ Len(c) \in Nat \ {0}
    BY <1>1, <1>2, <2>1, <2>3, NextWrite
  <2>5. PICK at \in Nat :
          /\ IsPart(c, m, at)
          /\ Frontier = ByteAt(m, at + 1)
          /\ Len(chunks) = 1 => at + Len(c) = len
          /\ Len(chunks) > 1 => at + Len(c) < len /\ at + Len(c) >= MAX_BUFFER
    BY <1>1, <1>2, <2>1, <2>3, NextWrite
  <2>6. len \in Nat \ {0} /\ len <= MAX_BUFFER
    <3>1. sent[m] \in Requests
      BY <1>1, <1>2, <2>4, InboxTypes
    <3> QED BY <1>2, <2>3, <2>4, <3>1, Lengths DEF AllShort
  <2>7. Len(chunks) = 1
    <3>1. PICK e, k : e = at + Len(c) /\ k = Len(chunks)
      OBVIOUS
    <3>2. ~ (k > 1)
      <4>1. k > 1 => e < len /\ e >= MAX_BUFFER
        BY <2>5, <3>1
      <4>2. e \in Nat
        BY <2>4, <3>1
      <4> QED BY <2>6, <4>1, <4>2, Sizes
    <3>3. k \in Nat /\ k # 0
      BY <2>4, <3>1
    <3> QED BY <3>1, <3>2, <3>3
  <2>8. at = 0
    <3>1. NoError
      BY <1>1 DEF RightAnswers, AnswerTo, NoError
    <3>2. NextByte.at = 1 /\ NextByte = Frontier
      BY <1>1, <2>1, <2>2, <3>1 DEF AlignedInv, NextByte, Idle
    <3> QED BY <2>5, <3>2 DEF ByteAt
  <2>9. inbox' = c /\ Len(c) = len /\ c[1] = ByteAt(m, 1)
    <3>1. inbox' = c
      BY <2>1, <2>2, <2>3, <2>4, ConcatEmptySeq DEF Idle
    <3>2. Len(c) = len
      BY <2>4, <2>5, <2>7, <2>8
    <3> QED BY <2>4, <2>5, <2>8, <3>1, <3>2 DEF IsPart
  <2>10. Head(c) = c[1]
    BY <2>4
  <2>11. Unread'
    BY <1>2, <2>1, <2>2, <2>3, <2>4, <2>9, <2>10 DEF Unread, Idle
  <2>12. TurnsInv'
    BY <1>2, <2>1, <2>2, <2>7, <2>11 DEF TurnsInv
  <2> QED BY <1>1, <2>1, <2>12 DEF Safe, RightAnswers
<1>5. CASE receiveMessage
  <2>1. /\ client = "waiting" /\ read < Len(answers) /\ read' = read + 1 /\ client' = "menu"
        /\ UNCHANGED <<sent, chunks, conn, inbox, pc, content, current, stored, answers>>
    BY <1>5 DEF receiveMessage, serverVars
  <2>2. Idle /\ Len(answers) = m /\ read + 1 = m
    BY <1>1, <1>2, <1>3, <2>1 DEF TurnsInv
  <2> QED BY <1>1, <1>2, <2>1, <2>2 DEF Safe, RightAnswers, TurnsInv, Idle
<1>6. CASE Disconnected
  BY <1>1, <1>6 DEF Disconnected
<1>7. CASE Leave
  <2>1. /\ client # "gone" /\ client' = "gone"
        /\ conn' = IF conn = "open" THEN "eof" ELSE "off"
        /\ UNCHANGED <<sent, read, inbox, pc, content, current, stored, answers>>
    BY <1>7 DEF Leave
  <2>2. (Idle \/ Unread) /\ Len(answers) <= m
    BY <1>1, <1>2, <1>3, <2>1 DEF TurnsInv, Types
  <2>3. (Idle \/ Unread)'
    BY <2>1, <2>2 DEF Idle, Unread
  <2> QED BY <1>1, <1>2, <2>1, <2>2, <2>3 DEF Safe, RightAnswers, TurnsInv
<1> QED BY <1>4, <1>5, <1>6, <1>7

LEMMA ShortChoose ==
  ASSUME FramingInv, NEW r \in Requests, Choose(r), Safe
  PROVE  Safe'
<1>1. Types /\ pc # "failed" /\ conn # "closed" /\ RightAnswers /\ TurnsInv
  BY DEF FramingInv, Safe
<1>2. /\ client = "menu" /\ client' = "writing" /\ sent' = Append(sent, r)
      /\ UNCHANGED <<read, conn, inbox, pc, content, current, stored, answers>>
  BY DEF Choose, serverVars
<1>3. /\ Len(sent) \in Nat /\ Len(sent') = Len(sent) + 1
      /\ \A n \in 1..Len(sent) : sent'[n] = sent[n]
  <2>1. sent \in Seq(Requests) /\ Len(sent) \in Nat
    BY <1>1, InboxTypes DEF Types
  <2> QED BY <1>2, <2>1, AppendProperties
<1>4. Idle /\ read = Len(answers) /\ Len(answers) = Len(sent)
  BY <1>1, <1>2 DEF TurnsInv
<1>5. RightAnswers'
  BY <1>1, <1>2, <1>3, <1>4 DEF RightAnswers
<1>6. TurnsInv'
  BY <1>2, <1>3, <1>4 DEF TurnsInv, Idle
<1> QED BY <1>1, <1>2, <1>5, <1>6 DEF Safe

LEMMA UnreadIsNotIdle ==
  ASSUME Types, Unread
  PROVE  ~ Idle
<1>1. PICK m : m = Len(sent)
  OBVIOUS
<1>2. m \in Nat
  BY <1>1, InboxTypes
<1>3. CASE pc = "content"
  BY <1>3 DEF Idle
<1>4. CASE pc # "content"
  <2>1. Len(inbox) = Length(sent[m]) /\ m > 0
    BY <1>1, <1>4 DEF Unread
  <2>2. sent[m] \in Requests
    BY <1>1, <1>2, <2>1, InboxTypes
  <2>3. Length(sent[m]) # 0
    BY <2>2, Lengths
  <2> QED BY <2>1, <2>3, InboxTypes DEF Idle
<1> QED BY <1>3, <1>4

\* A part of the last request is read.
LEMMA ShortRead ==
  ASSUME Types, Safe, Unread, Unread', UNCHANGED <<client, sent, read, conn, answers>>
  PROVE  Safe'
<1>1. ~ Idle
  BY UnreadIsNotIdle
<1>2. pc # "failed" /\ conn # "closed" /\ RightAnswers /\ TurnsInv
  BY DEF Safe
<1>3. RightAnswers' /\ pc' # "failed"
  BY <1>2 DEF RightAnswers, Unread
<1>4. TurnsInv'
  BY <1>1, <1>2 DEF TurnsInv
<1> QED BY <1>2, <1>3, <1>4 DEF Safe

\* The last request is answered, or its client has left.
LEMMA ShortAnswered ==
  ASSUME FramingInv, Safe, Unread, UNCHANGED <<client, sent, read, conn>>,
         Answer(AnswerTo(sent[Len(sent)])), Idle'
  PROVE  Safe'
<1>1. Types /\ PlaceInv /\ pc # "failed" /\ conn # "closed" /\ RightAnswers /\ TurnsInv
  BY DEF FramingInv, Safe
<1>2. PICK m, op : m = Len(sent) /\ op = AnswerTo(sent[m])
  OBVIOUS
<1>3. m \in Nat /\ Len(answers) \in Nat /\ answers \in Seq(Answers) /\ op \in Answers
  BY <1>1, <1>2, InboxTypes DEF Types, Answers, AnswerTo
<1>4. ~ Idle
  BY <1>1, UnreadIsNotIdle
<1>5. client \in {"waiting", "gone"}
  BY <1>1, <1>4 DEF TurnsInv, Types
<1>6. CASE client = "gone"
  <2>1. answers' = answers
    BY <1>1, <1>6 DEF PlaceInv, Answer
  <2> QED BY <1>1, <1>6, <2>1 DEF Safe, RightAnswers, TurnsInv, Idle
<1>7. CASE client = "waiting"
  <2>1. conn = "open" /\ read + 1 = m /\ Len(answers) + 1 = m
    BY <1>1, <1>2, <1>4, <1>7 DEF PlaceInv, Types, TurnsInv
  <2>2. answers' = Append(answers, op)
    BY <1>2, <2>1 DEF Answer
  <2>3. /\ Len(answers') = Len(answers) + 1
        /\ \A n \in 1..Len(answers) : answers'[n] = answers[n]
        /\ answers'[Len(answers) + 1] = op
    BY <1>3, <2>2, AppendProperties
  <2>4. RightAnswers'
    <3>1. ASSUME NEW n \in 1..Len(answers') PROVE answers'[n] = AnswerTo(sent[n])
      <4>1. CASE n = m
        BY <1>2, <2>1, <2>3, <4>1
      <4>2. CASE n # m
        <5>1. n \in 1..Len(answers)
          BY <1>3, <2>1, <2>3, <4>2
        <5> QED BY <1>1, <2>3, <5>1 DEF RightAnswers
      <4> QED BY <4>1, <4>2
    <3> QED BY <3>1 DEF RightAnswers
  <2>5. TurnsInv'
    BY <1>2, <1>7, <2>1, <2>3 DEF TurnsInv, Idle
  <2>6. pc' # "failed"
    BY DEF Idle
  <2> QED BY <1>1, <2>4, <2>5, <2>6 DEF Safe
<1> QED BY <1>5, <1>6, <1>7

LEMMA ShortServerSteps ==
  ASSUME FramingInv, Safe, handle_client
  PROVE  Safe'
<1>1. Types /\ PlaceInv /\ ContentInv /\ StreamInv
      /\ pc # "failed" /\ conn # "closed" /\ RightAnswers /\ TurnsInv
  BY DEF FramingInv, Safe
<1>2. UNCHANGED <<client, sent, chunks, read>>
  BY DEF handle_client
<1>3. PICK m, l : m = Len(sent) /\ l = Len(inbox)
  OBVIOUS
<1>4. m \in Nat /\ l \in Nat
  BY <1>1, <1>3, InboxTypes
<1>5. Idle \/ Unread
  BY <1>1 DEF TurnsInv, Types
<1>6. /\ Unread => m \in Nat \ {0} /\ sent[m] \in Requests
      /\ Unread /\ pc = "select" => l = Length(sent[m]) /\ Head(inbox) = ByteAt(m, 1)
      /\ pc = "content" => Unread /\ current = m /\ Len(content) + l = sent[m].size /\ sent[m] # ShortRequest
  <2>1. Unread => m \in Nat \ {0} /\ sent[m] \in Requests
    BY <1>1, <1>3, <1>4, InboxTypes DEF Unread
  <2>2. Unread /\ pc = "select" => l = Length(sent[m]) /\ Head(inbox) = ByteAt(m, 1)
    BY <1>3 DEF Unread
  <2>3. pc = "content" => Unread /\ current = m /\ Len(content) + l = sent[m].size /\ sent[m] # ShortRequest
    BY <1>1, <1>3, <1>5 DEF Idle, Unread, ContentInv
  <2> QED BY <2>1, <2>2, <2>3
<1>7. HasHeader => Unread /\ Head(inbox) = ByteAt(m, 1) /\ l = Length(sent[m]) /\ pc = "select"
  <2>1. HasHeader => ~ Idle /\ pc = "select"
    BY HeaderIs DEF Idle, HasHeader
  <2> QED BY <1>5, <1>6, <2>1
<1>8. CASE parse_headerFails
  <2>1. /\ pc = "select" /\ Len(inbox) < HEADER_SIZE /\ (inbox # <<>> \/ conn = "eof")
        /\ conn' = IF conn = "eof" THEN "off" ELSE "closed"
        /\ inbox' = <<>> /\ UNCHANGED <<pc, content, current, stored, answers>>
    BY <1>8 DEF parse_headerFails
  <2>2. Idle
    <3> SUFFICES ASSUME Unread PROVE FALSE
      BY <1>5
    <3>1. PICK d : d = Length(sent[m])
      OBVIOUS
    <3>2. d \in Nat /\ d >= HEADER_SIZE
      BY <1>6, <3>1, Lengths, Sizes
    <3> QED BY <1>3, <1>6, <2>1, <3>1, <3>2, Sizes
  <2>3. conn = "eof" /\ client = "gone"
    BY <1>1, <2>1, <2>2 DEF Idle, PlaceInv
  <2>4. Idle'
    BY <2>1 DEF Idle
  <2>5. TurnsInv'
    BY <1>1, <1>2, <2>1, <2>3, <2>4 DEF TurnsInv
  <2> QED BY <1>1, <1>2, <2>1, <2>3, <2>5 DEF Safe, RightAnswers
<1>9. CASE handle_short
  <2>1. /\ HasHeader /\ sent[Head(inbox).request] = ShortRequest
        /\ inbox' = Left(HEADER_SIZE, inbox)
        /\ UNCHANGED <<conn, pc, content, current, stored>> /\ Answer("RESP_USER_LIST")
    BY <1>9 DEF handle_short
  <2>2. sent[m] = ShortRequest /\ l = HEADER_SIZE
    BY <1>7, <2>1 DEF ByteAt, Length
  <2>3. Idle'
    <3>1. /\ Left(HEADER_SIZE, inbox) \in Seq(SentBytes)
          /\ Len(Left(HEADER_SIZE, inbox)) = Len(inbox) - HEADER_SIZE
      <4>1. inbox \in Seq(SentBytes) /\ HEADER_SIZE \in 0..Len(inbox)
        <5>1. inbox \in Seq(SentBytes)
          BY <1>1 DEF Types
        <5>2. HEADER_SIZE \in 0..Len(inbox)
          BY <1>3, <2>2, Sizes
        <5> QED BY <5>1, <5>2
      <4> QED BY <4>1, TakenAndLeft
    <3>2. inbox' = <<>>
      BY <1>3, <1>4, <2>1, <2>2, <3>1, EmptySeq
    <3> QED BY <1>7, <2>1, <3>2 DEF Idle
  <2>4. Answer(AnswerTo(sent[m])) /\ Unread
    BY <1>7, <2>1, <2>2 DEF AnswerTo
  <2> QED BY <1>2, <1>3, <2>1, <2>3, <2>4, ShortAnswered
<1>10. CASE messageToUserRequest
  <2>1. /\ HasHeader /\ sent[Head(inbox).request] # ShortRequest
        /\ inbox' = Left(BeforeContent, inbox)
        /\ pc' = "content" /\ content' = <<>> /\ current' = Head(inbox).request
        /\ UNCHANGED <<conn, stored, answers>>
    BY <1>10 DEF messageToUserRequest
  <2>2. /\ sent[m] # ShortRequest /\ current' = m
        /\ sent[m].size \in Nat \ {0} /\ l = BeforeContent + sent[m].size
    <3>1. sent[m] # ShortRequest /\ current' = m /\ sent[m] \in Requests /\ l = Length(sent[m])
      BY <1>6, <1>7, <2>1 DEF ByteAt
    <3> QED BY <3>1, Lengths
  <2>3. Len(inbox') = sent[m].size
    <3>1. inbox \in Seq(SentBytes) /\ BeforeContent \in 0..Len(inbox)
      <4>1. inbox \in Seq(SentBytes)
        BY <1>1 DEF Types
      <4>2. PICK b, d : b = BeforeContent /\ d = sent[m].size
        OBVIOUS
      <4>3. b \in Nat /\ d \in Nat /\ l = b + d
        BY <2>2, <4>2, Sizes
      <4>4. b \in 0..l
        BY <4>3
      <4> QED BY <1>3, <4>1, <4>2, <4>4
    <3>2. Len(Left(BeforeContent, inbox)) = Len(inbox) - BeforeContent
      BY <3>1, TakenAndLeft
    <3>3. Len(inbox') = l - BeforeContent
      BY <1>3, <2>1, <3>2
    <3>4. PICK b, d : b = BeforeContent /\ d = sent[m].size
      OBVIOUS
    <3>5. b \in Nat /\ d \in Nat /\ l = b + d
      BY <2>2, <3>4, Sizes
    <3>6. l - b = d
      BY <3>5
    <3> QED BY <3>3, <3>4, <3>6
  <2>4. Unread' /\ Unread
    <3>1. Len(content') + Len(inbox') = sent[m].size
      BY <2>1, <2>2, <2>3
    <3> QED BY <1>2, <1>3, <1>6, <1>7, <2>1, <2>2, <3>1 DEF Unread
  <2> QED BY <1>1, <1>2, <2>1, <2>4, ShortRead
<1>11. CASE handle_unknown \/ handle_raises
  <2>1. HasHeader /\ Head(inbox).at # 1
    BY <1>11 DEF handle_unknown, handle_raises
  <2> QED BY <1>7, <2>1 DEF ByteAt
<1>12. CASE recv
  <2>1. PICK had, missing, k : had = Len(content) /\ missing = sent[m].size - had /\ k = AtMost(missing, inbox)
    OBVIOUS
  <2>2. /\ pc = "content" /\ missing > 0
        /\ content' = content \o Taken(missing, inbox) /\ inbox' = Left(missing, inbox)
        /\ UNCHANGED <<conn, pc, current, stored, answers>>
    BY <1>6, <1>12, <2>1 DEF recv, Missing
  <2>3. Unread /\ current = m /\ had \in Nat /\ had + l = sent[m].size /\ missing = l /\ missing \in Nat
    BY <1>1, <1>4, <1>6, <2>1, <2>2, InboxTypes
  <2>4. k = l /\ Len(inbox') = 0 /\ Len(content') = had + l
    <3>1. inbox \in Seq(SentBytes) /\ content \in Seq(SentBytes)
      BY <1>1 DEF Types
    <3>2. k = l
      BY <1>3, <2>1, <2>3, <3>1, AtMostAll
    <3>3. /\ Taken(l, inbox) \in Seq(SentBytes) /\ Len(Taken(l, inbox)) = l
          /\ Len(Left(l, inbox)) = Len(inbox) - l
      <4>1. l \in 0..Len(inbox)
        BY <1>3, <1>4
      <4> QED BY <3>1, <4>1, TakenAndLeft
    <3>4. Len(content \o Taken(l, inbox)) = Len(content) + Len(Taken(l, inbox))
      BY <3>1, <3>3, ConcatProperties
    <3>5. content' = content \o Taken(l, inbox) /\ inbox' = Left(l, inbox)
      BY <2>2, <2>3
    <3>6. Len(content') = had + l
      BY <2>1, <3>3, <3>4, <3>5
    <3>7. Len(inbox') = 0
      BY <1>3, <1>4, <3>3, <3>5
    <3> QED BY <3>2, <3>6, <3>7
  <2>5. Unread'
    <3>1. Len(content') + Len(inbox') = sent[m].size
      BY <1>4, <2>3, <2>4
    <3> QED BY <1>2, <1>3, <1>6, <2>2, <2>3, <3>1 DEF Unread
  <2> QED BY <1>1, <1>2, <2>2, <2>3, <2>5, ShortRead
<1>13. CASE recvBlocks \/ sendNothingToTarget
  <2>1. pc = "content" /\ sent[current].size - Len(content) > 0 /\ inbox = <<>>
    BY <1>13 DEF recvBlocks, sendNothingToTarget, Missing
  <2>2. l = 0 /\ Len(content) = sent[current].size
    BY <1>1, <1>3, <1>6, <2>1, InboxTypes
  <2> QED BY <1>1, <2>1, <2>2, InboxTypes
<1>14. CASE sendMessageToTarget
  <2>1. /\ pc = "content" /\ sent[m].size - Len(content) = 0 /\ pc' = "select"
        /\ UNCHANGED <<conn, inbox>> /\ Answer("RESP_MSG_SENT_TO_USER")
    BY <1>6, <1>14 DEF sendMessageToTarget, Missing, Store
  <2>2. Unread /\ AnswerTo(sent[m]) = "RESP_MSG_SENT_TO_USER"
    BY <1>6, <2>1 DEF AnswerTo
  <2>3. Idle'
    <3>1. Len(content) + l = sent[m].size /\ Len(content) \in Nat
      BY <1>1, <1>6, <2>1, InboxTypes
    <3>2. l = 0
      BY <1>4, <2>1, <3>1
    <3> QED BY <1>1, <1>3, <2>1, <3>2, InboxTypes DEF Idle
  <2> QED BY <1>2, <1>3, <2>1, <2>2, <2>3, ShortAnswered
<1>15. CASE flush \/ flushBlocks
  BY <1>1, <1>15 DEF flush, flushBlocks
<1> QED BY <1>8, <1>9, <1>10, <1>11, <1>12, <1>13, <1>14, <1>15 DEF handle_client

LEMMA ShortInit == Init => ShortInv
<1> SUFFICES ASSUME Init PROVE Safe
  BY DEF ShortInv
<1>1. /\ client = "menu" /\ sent = <<>> /\ read = 0 /\ conn = "open" /\ inbox = <<>>
      /\ pc = "select" /\ answers = <<>>
  BY DEF Init
<1> QED BY <1>1, EmptySeq DEF Safe, RightAnswers, TurnsInv, Idle

LEMMA ShortPreserved == FramingInv /\ ShortInv /\ [Next]_vars => ShortInv'
<1> SUFFICES ASSUME FramingInv, ShortInv, [Next]_vars, AllShort' PROVE Safe'
  BY DEF ShortInv
<1>1. CASE \E r \in Requests : Choose(r)
  <2>1. PICK r \in Requests : Choose(r)
    BY <1>1
  <2>2. sent' = Append(sent, r)
    BY <2>1 DEF Choose
  <2>3. /\ Len(sent) \in Nat /\ Len(sent') = Len(sent) + 1
        /\ \A n \in 1..Len(sent) : sent'[n] = sent[n]
    <3>1. sent \in Seq(Requests) /\ Len(sent) \in Nat
      BY InboxTypes DEF FramingInv, Types
    <3> QED BY <2>2, <3>1, AppendProperties
  <2>4. AllShort
    BY <2>3 DEF AllShort
  <2> QED BY <2>1, <2>4, ShortChoose DEF ShortInv
<1>2. CASE ~ \E r \in Requests : Choose(r)
  <2>1. sent' = sent
    BY <1>2 DEF Next, sendMessage, receiveMessage, Disconnected, Leave, handle_client, vars
  <2>2. AllShort /\ Safe
    BY <2>1 DEF AllShort, ShortInv
  <2>3. CASE sendMessage \/ receiveMessage \/ Disconnected \/ Leave
    BY <2>2, <2>3, ShortClientSteps
  <2>4. CASE handle_client
    BY <2>2, <2>4, ShortServerSteps
  <2>5. CASE UNCHANGED vars
    BY <2>2, <2>5 DEF vars, Safe, RightAnswers, TurnsInv, Idle, Unread
  <2> QED BY <1>2, <2>3, <2>4, <2>5 DEF Next
<1> QED BY <1>1, <1>2

\* While every request fits one write, as handle_client and sendMessage take
\* for granted, none fails, the server closes no connection, and the client
\* reads the answers to its own requests.
THEOREM ShortRequestsAreSafe == Spec => []ShortRequestsSafe
<1>1. FramingInv /\ ShortInv => ShortRequestsSafe
  <2> SUFFICES ASSUME FramingInv, Safe PROVE ShortRequestsSafe
    BY DEF ShortInv, ShortRequestsSafe
  <2>1. Types /\ pc # "failed" /\ conn # "closed" /\ RightAnswers /\ TurnsInv
    BY DEF FramingInv, Safe
  <2>2. Len(answers) <= Len(sent)
    BY <2>1, InboxTypes DEF TurnsInv, Types
  <2> QED BY <2>1, <2>2 DEF ShortRequestsSafe, RightAnswers, AnswerTo
<1>2. Spec => []ShortInv
  BY FramingInvariant, ShortInit, ShortPreserved, PTL DEF Spec
<1> QED BY <1>1, <1>2, FramingInvariant, PTL

=============================================================================
