# A TLA+ model of MessageApp

MessageApp is an end-to-end encrypted messenger: a Python server that keeps
accounts and messages in SQLite, and C++ console clients that register, fetch
each other's public keys, exchange symmetric keys through the server and send
texts and files under them. This directory specifies both programs in TLA+,
model-checks them with TLC on small instances, and proves with TLAPS, for every
value of the constants, the safety properties that the passing runs check: of the server, of the
sessions of the real clients with it, of requests and answers as bytes on a
connection, and of padded names; further that the server implements an abstract
mailbox, and that the composition with the real clients implements the server.

Paths below are relative to the repository; the code is under `src/`.

## The system

| Component | State | Operations | Interacts with |
|---|---|---|---|
| selector loop, `src/server/server.py` | the registered sockets | accept, call back, unregister, close | one thread; calls the handlers |
| request handlers, `src/server/request.py` | one `Request` per callback | 600 register, 601 user list, 602 public key, 603 message, 604 awaiting messages, the `except` clause of `handle_request` | database, the client's socket |
| responses, `src/server/response.py` | - | one layout per response | - |
| database, `src/server/database.py` | tables `clients`, `messages`, the AUTOINCREMENT counter | insert, update, select, each in a connection and transaction of its own | survives restarts |
| client session, `client.cpp`, `protocolhandler.cpp`, `main.cpp` | `user`, `members` with their keys, the request being awaited | one choice of the menu at a time: build, send, block for the answer | server; `me.info` |
| `me.info`, `helpers.cpp`, `user.cpp` | name, UUID and private key in a file | written at registration, read at start | survives the process |
| crypto wrappers, `encryption/*.cpp` | keys | generate, encrypt, decrypt | Crypto++ |
| framing, `createMessage` and `receive_all` | bytes in transit | send in chunks, receive all | sockets |
| answers, `sendall`, `responseHandler`, `disconnect_client` | bytes in transit, sizes in 32 bits | send what fits, raise when it does not; read as much as a header announces | sockets, SQLite |
| names, `resize` and `erase` in `protocolhandler.cpp`, `userCheck` | the padded field | pad, decode, compare, strip, choose | server, member list |
| parser of awaiting messages, menu, saving of files, logger | - | see *Not modelled* | - |

What is hard in it:

* **Failures inside handlers.** A handler that raises reaches
  `self.socket.recv(4096)`, "flushing" a socket that does not block. If the
  request had been read to its end, that `recv` raises too, the general error is
  never sent, and the connection is closed (request.py:101-106, server.py:70).
* **Commit before answer.** Database functions commit on their own, in the
  middle of a handler. The server can stop after any of them, a client can leave
  before its answer.
* **State in three places.** What a client believes about an account (name,
  public key, symmetric key, whether it was asked for a key) is fetched once and
  used much later; its own account lives in `me.info` and in the server's table.
* **Exceptions on the client** end a choice wherever they are thrown, and what
  was assigned before stays: a user that is set before its registration is sent,
  a key replaced before the message that carries it.
* **Requests longer than a write.** The server reads them from a socket that does
  not block and takes "not yet" for a failure; what it then leaves unread is the
  next "header".
* **The connection may be gone without the client knowing**: `is_open` looks at
  the local socket only.
* **Answers longer than the socket holds.** `sendall` raises in their middle;
  the error path that follows tries to read, perhaps to send, and calls
  `getpeername`, each of which may raise in turn on a connection that was reset.
* **Names that many spellings lead to.** Padding and stripping both map several
  names to one, and keys and messages are addressed by what is typed.

## What makes each part correct

* *Server and database*: accounts are unique; message ids are dense; messages
  come from registered senders; none is lost before it is delivered; every answer is
  true, still when it is read; a refused request leaves no trace; every request
  is eventually dealt with and every dead socket forgotten. In sum: to its
  clients the server is one atomic mailbox.
* *Answers*: no content is cut by a 32-bit size; bytes of one answer are never
  taken for another's; what fits arrives; a client that waits comes back. (That
  the server goes on waiting for requests is refuted below.)
* *Names*: a member that is shown can be chosen, alone; a typed name leads to
  its owner or to nobody.
* *Framing*: nothing is stored in part or mixed from two requests; the stream
  stays aligned until an error was answered; requests of one write are safe.
* *Client and server together*: member lists, cached keys and `me.info` agree
  with the accounts; keys are sealed for the one they are sent to and sent only
  when asked for; nothing is encrypted under a key the two never exchanged;
  every wait ends.

## Modules

| Module | Models | State |
|---|---|---|
| `Protocol` | the request and response records, message types, contents | - |
| `Connections` | the TCP connections as both ends see them | `conn`, `rx`, `tx` |
| `Database` (extends `Protocol`) | `database.py` | `clients`, `messages`, `autoinc` |
| `Server` (extends `Database`, `Connections`) | selector loop and handlers, restarts, and an arbitrary client as environment | - |
| `Client` (extends `Connections`) | the client program and `me.info` | `pc`, `sock`, `user`, `members`, `me_info`, `issued`, `shown` |
| `MessageApp` (extends `Client`, `Server`) | the composition | - |
| `Mailbox` (extends `Protocol`) | the abstract specification: what the server promises its callers | `accounts`, `log`, `calls`, `answers` |
| `ServerMailbox` (extends `Server`) | the mapping of tables and connections to the mailbox | - |
| `Framing` | one connection at the level of bytes, for requests of several writes | `client`, `sent`, `chunks`, `read`, `conn`, `inbox`, `pc`, `content`, `current`, `stored`, `answers` |
| `Transfer` | sizes of contents and one connection's answers at the level of bytes, resets included | `up`, `conn`, `client`, `request`, `inbox`, `text`, `content`, `pc`, `payload`, `unsent`, `outbox`, `got` |
| `UserNames` | names as bytes: padded, stored, compared, stripped, typed | `clients`, `me_info`, `members` |
| `ServerProofs` (extends `Server`) | theorems about `Server` | - |
| `MailboxProofs` (extends `ServerMailbox`, `ServerProofs`) | the theorem that the server implements the mailbox | - |
| `AppProofs` (extends `MessageApp`, `MailboxProofs`) | theorems about the composition | - |
| `SessionProofs` (extends `AppProofs`) | theorems about members, keys and files in the composition | - |
| `FramingProofs` (extends `Framing`, `Maxima`) | theorems about `Framing` | - |
| `TransferProofs` (extends `Transfer`) | theorems about `Transfer` | - |
| `UserNamesProofs` (extends `UserNames`) | theorems about `UserNames` | - |
| `Maxima` | a non-empty, bounded set of naturals has a largest element, a non-empty one a smallest | - |
| `MCServer`, `MCMessageApp` | instances for TLC: the symmetry sets | - |

### Correspondence with the code

*Operators carry the source's names.* `Server!registerRequest`,
`userlistRequest`, `publicKeyRequest`, `messageToUserRequest` and
`collectMsgsRequest` are the methods of `Request`; each is one step, because the
server has one thread and a callback runs to its end. The disjuncts of a handler
are its ways to end: each `raise` and the answer. `sendGeneralError` and
`flushRaises` are the two outcomes of the `except` clause: a handler that raises
with bytes of its request still unread (a taken name: the public key follows; an
unknown sender of a message with a content) has something to flush and answers;
the others have not, and the connection is closed. On a connection whose client
is gone `recv` returns no bytes instead of raising, so the error is sent to
nobody.

`Restart` stands for the end of the server at any point, followed by a new
start. A handler's database functions commit one by one, and the model's handler
is one step, so the stop between two commits is in `Restart`: `updateLastSeen`
alone, or everything the handler writes and no answer (the handler's step, then
`Restart` losing `tx`). SQLite's atomic commit is assumed.

`Connections` has one slot per direction, because the client sends a request
only after the last one was resolved, and a request of at most `MAX_BUFFER`
bytes is one write that the loopback interface delivers whole. `rx[c]` keeps the
request until its answer is read, so that `AnswersTruthful` can relate the two;
`Readable` tells whether the server has still to read it.

`Client!messageHandler` and `responseHandler` are the two functions of
`ProtocolManager`, an action per choice and per response. An exception before
anything is assigned or sent is the action's guard; one after it is a disjunct
(`Send` on a closed connection, `OnRegisteredNoFile`) that keeps what was assigned.
`me_info` holds how many lines of the file exist, since `std::endl` flushes each
of them; with two lines `main` reads `user_info[2]` past the end of the vector,
which `FailedStart` models by the outcomes a program can have there: none
reaches the menu. `StopProcess` is choice 0 as well as a crash.

`Framing` has the same two programs reduced to one connection whose bytes
count. `createMessage` cuts a request into writes; each write arrives whole and
at its own time. The server's callback is several steps here, one for each
`recv`, because bytes may arrive between them: `recv`, `recvBlocks`
(`BlockingIOError`, which `receive_all` does not catch) and
`sendNothingToTarget` (the end of the stream, for which it returns `None`) are
the ways `receive_all` goes on; `flush` and `flushBlocks` those of the `except`
clause. Bytes of a content that are read as a header either carry no known
operation code (`handle_unknown`: no answer at all) or one whose handler raises
(`handle_raises`). `AllShort` is the case the other modules stand on, and
`ShortRequestsSafe` and `ShortRequestsAnswered` are what justifies them.

`Mailbox` is written from the callers' side. A caller calls, at most once the
call takes effect (`Register`, `List`, `GetKey`, `Post`, `Pull`), and the answer
comes from the state of that moment; `Finish` loses calls and answers of any set
of callers, which covers closed connections, clients that leave and restarts.
`ServerMailbox` maps the table `clients` to the function `accounts`, dropping
`LastSeen`, the table `messages` to the sequence `log`, a row's id to its place,
and the connections' `rx` and `tx` to `calls` and `answers`. The mailbox keeps
the code's peculiarities where callers can see them: a pulled message stays, only
the newest is pulled, recipients need not exist, a free name may be refused when
a UUID collides.

`Transfer` has what `Framing` leaves out, in the other direction. Its server
steps through a callback: `collectMsgsRequest` builds the answer, `send` is one
`send` of `sendall`, `sendBlocks` its `BlockingIOError` when the buffer is full,
`sendToNobody` and `sendFails` what happens when the client is gone. `flushBlocks`,
`flushAtEnd` and `flushAfterReset` are the outcomes of the `except` clause's
`recv`, and `disconnect_client` closes, or ends the program when `getpeername`
raises on a connection that was reset. Whether `recv` on a reset connection raises again after
`send` already reported the reset depends on the platform; both are modelled.
`missing` is the number of bytes `responseHandler` has still to read: the header
first, then as many as it announces. `tooBig`, `encrypted` and `narrowed` are the bound
on the size, the cipher's padding and the `static_cast<uint32_t>`; the size of
the answer must again fit `struct.pack`.

`UserNames` has a round trip of a registration or of a member list in one step,
as all interleaving is in `MessageApp`. `resize` pads to the 255 bytes of the
field, `erase` cuts after the last byte that is no `'0'`. A name whose bytes do
not decode raises in the server and registers nobody. `me.info` may not get
written, as when the process ends before: then the account stays without an owner.

`issued` and `shown` are not in the code. `issued` makes generated keys fresh
(two random keys are never equal); `shown` is the row id displayed last in the
session, which the properties on delivery refer to.

*Abstractions.* UUIDs, names and keys are opaque values; the public half of a
key pair is identified with the pair. `uuid4` may return any UUID, also one that
is taken; then the code calls a `userCheck` that its module does not define
(request.py:123), and the free name is refused. A `User` that has no UUID yet holds uninitialised bytes; they are
`UnsetUUID`, a value no account has. A ciphertext is the key that made it.
Names have no ending '0's, as the prompt asks for. `LastSeen` keeps only
whether a request has updated it. Logging and output are left out.

## Runs

Every run checks for deadlock too, except those of `Framing`, whose session ends
when the client has left, and of `Transfer`, whose server may have stopped.

| Run | Instance | Shows |
|---|---|---|
| `ServerSafety` | 2 connections, 2 UUIDs, 2 names, 2 key pairs, row ids up to 2; 688,700 states | `ServerTypeOK`, `UniqueAccounts`, `DenseMessageIds`, `SendersRegistered`, `AnswersTruthful`, `KeptUntilDelivered`, `RefusalsLeaveNoTrace` hold against clients that send anything, and the server refines the mailbox (`MailboxSpec`) |
| `AppSafety` | 2 processes, keys `s1`, `s2`, row ids up to 3, three message types; 223,684 states | `TypeOK`, `MembersMatchAccounts`, `FileMatchesAccount`, `KeysSealedForRecipient`, `KeysWereRequested`, `TextsHaveTheirKey`; and the composition satisfies `ServerSpec`, so that what holds of the server among arbitrary clients, `MailboxSpec` included, holds among the real ones |
| `AppLiveness` | 2 processes on one connection in turn, three message types, row ids up to 3; 52,844 states | `RequestsReturn`, `RequestsServed`, `DeadSocketsReleased` |
| `FramingSession` | writes of 4 bytes, headers of 2 and 1, contents of 1, 5 and 8, 3 requests; 17,222 states | `FramingTypeOK`, `StoredWholeOrEmpty`, `AlignedUntilFirstError`, `ShortRequestsSafe`, `ShortRequestsAnswered` |
| `TransferSession` | a word of 32, blocks of 2, headers of 3, 2 and 2, a buffer of 6, nine sizes, 3 requests; 1,211 states | `TransferTypeOK`, `ContentsUncut`, `AnswersUnmixed`, `ShortAnswersArrive`, `AnswersEnd` |
| `UserNamesBytes` | 3 processes, 3 UUIDs, names of at most 2 bytes, each `'0'`, a letter or a byte that does not decode; 44,020 states | `UserNamesTypeOK`, `MembersCanBeChosen`, `NamesLeadToTheirOwner` |

*Bounds.* `MaxRowId` plays the part of 2^32 - 1: reaching it is one of the cases
(packing the id raises and the insertion is rolled back), and it keeps the state
space finite. Three rows are what the longest story of `AppSafety` needs: a
request for a key, the key, a text under it. Two of everything is where
collisions, crossing exchanges and stale entries can happen. Finite sets of key
pairs and symmetric keys bound the number of registrations and exchanges, as
generated keys are fresh. `AppLiveness` cannot use symmetry, so its two processes
share one connection in turn. A request waits for the callback of its own connection
only, whose fairness does not depend on the others: that connections do not
starve each other is assumed of the selector loop, not shown. The sizes of `Framing`
keep the relations of the code's: both headers
fit one write; a request takes one, two or three writes; and what a flush leaves
behind may or may not be a whole number of headers. Three requests are the least
that `AcknowledgedIsStored` needs: one to be refused, one to be stored and one to
be confused with it. In `Transfer`, `Word` plays the part of 2^32: the sizes 0 to 4 give contents of
one, two and three blocks, whose answers fit the buffer exactly or do not, the sizes from 27 on are
those around the bound and around the word, and `MAX_BLOB` is SQLite's
limit, far below the word in the code too. Three requests let one answer fail
and two others follow. Names of two bytes have every form that matters: empty,
all `'0'`s, a `'0'` before, after and between other bytes of the padded field.
Symmetry is used in safety runs only, on sets whose members are only compared.

*Fairness.* `MessageApp!FairSpec` is weak fairness of `handle_client(c)` for each
connection: `sel.select()` returns every readable socket and the loop calls each
of them back before it selects again. It is also weak fairness of
`responseHandler(p)`: a process that waits does nothing but read. Users owe no
choice, the server need not restart and nobody need crash. Each step of the
server is finite, as sockets do not block. `Framing!FairSpec` is fairness of the
server's callback and of the client's writing and reading, `Transfer!FairSpec` of the
callback and of a waiting client's reading; nobody owes it that a client leaves
or that a stopped server is started.

### What the documents say and the code does not do

These runs end in a counterexample, each checking one sentence of the
repository.

| Run | Property | Sentence | What happens |
|---|---|---|---|
| `ServerRecipients` | `RecipientsRegistered` | request.py:209 | the check of the target compares a pair with `None`; foreign keys are not enforced |
| `AppErrors` | `ErrorsAnswered` | request.py:86 | the flush raises, no general error is sent; asking for messages when there are none ends the connection |
| `AppWaiting` | `NoneLeftBehind` | README.md:136, 184 | only the last row is sent, and it is not deleted: later pulls send it again, and the older rows never |
| `TransferStops` | `WaitsIndefinitely` | README.md:131 | a client resets the connection while its request is handled; `getpeername` raises out of the selector loop and the server ends |
| `FramingAnswers` | `AcknowledgedIsStored` | README.md:183 | bytes of a refused message are read as requests, and answers come one too many |
| `AppKeyAgreement` | `SharedKeyAgreed` | README.md:164 | both sides hold a key, and not the same one |

## Proofs

`ServerProofs` proves, for every value of the constants that satisfies
`ProtocolAssumption`, that `ServerSpec` implies `[]ServerTypeOK`
(`TypeCorrect`), `[]UniqueAccounts`, `[]DenseMessageIds`, `[]SendersRegistered`
and `[]AnswersTruthful`, and the action properties `KeptUntilDelivered` and
`RefusalsLeaveNoTrace`.

* *Types* are inductive by themselves, apart from the two `CHOOSE`s.
  `clientRow(id)` is a row because the handlers ask only after `idExists(id)`.
  `lastRow` is a row because a non-empty set of naturals bounded by `MaxRowId`
  has a maximum (`HasMaximum`, by well-foundedness of <).
* *The tables* change in few ways. `TablesStep` reduces the steps of the server
  to these: nothing, one account more with a free UUID and name,
  a new `LastSeen`, one message more with id `autoinc + 1` after
  the sender was found. `UniqueAccounts`, `DenseMessageIds` and `SendersRegistered` are each
  inductive over these cases, given the types.
* *Messages are kept* because tables only grow (`TablesGrow`): more than
  `KeptUntilDelivered` promises, and what the next point needs.
* *Truth of answers* is inductive because tables only grow, what
  is true of an answer stays true while they grow (`TruthfulStays`), a request
  stays in `rx` as long as its answer waits, and each handler answers truthfully
  (`HandlerAnswers`).
* *Refusals*: the branches that answer with the general error or close the
  connection have not written, or their insertion was rolled back; the branches
  that write answer with a success.

`MailboxProofs` proves `ServerSpec => MailboxSpec` (`ServerImplementsMailbox`). The
invariant under the mapping is `ServerTypeOK`, `UniqueAccounts` and
`DenseMessageIds`: the first two make a SELECT by UUID a function, so that
`accounts` follows the table (`LastSeenUnmapped`, `RegistrationMapped`), and dense ids make the table
a sequence, so that an INSERT is an `Append` (`InsertMapped`). One lemma per handler shows
that each way it ends is one action of the mailbox. `UserListMapped` is where
unique names are needed: the SELECT leaves out the caller's UUID *and* name.

`UserNamesProofs` proves `UserNamesTypeOK`, `MembersCanBeChosen` and
`NamesLeadToTheirOwner` for every alphabet and every size of the field. Neither
of the last two is inductive. The invariant `NamesInv` adds that stored names end in
the padding (`UniqueRows`, with uniqueness), that every listed member is a row's
UUID with its stripped name (`MembersAreRows`), and that every `me.info` is a
row with its padded name (`FilesAreRows`). The properties then follow from two
facts about the conversions: padding undoes stripping on every field
(`PaddingUndoesStripping`), so stripping is injective there; and stripping undoes padding on
names without ending `'0'`s (`StrippingUndoesPadding`).

`AppProofs` proves `Spec => ServerSpec` for the composition (`AppImplementsServer`),
from which `MailboxSpec` and every theorem about `ServerSpec` follow for it, and
`[]TypeOK` (`AppTypeCorrect`). A step of a client is one that `Server!ClientEnd` allows
only while the client holds a connection of its own (`SocketInv`) and builds requests
of the right types, which depends on what earlier answers put into its lists.
`AppInv` therefore joins the types with four facts: what a connection
without a client may carry (`LinkInv`), whose it is (`SocketInv`), that the request on it is
the one its process waits for (`RequestInv`), and that who registers has set a
user (`RegisterInv`). `AnswersTruthful` is needed too: that an answer with a UUID meets
a process that registers is a consequence of it and `RequestInv`.

`SessionProofs` proves of the composition `MembersMatchAccounts`,
`FileMatchesAccount`, `KeysSealedForRecipient`, `KeysWereRequested` and
`TextsHaveTheirKey`. They depend on each other through the two ends: a message is
stored as its sender had it, and the sender had it from its list, its keys and
earlier messages. `SessionInv` says what each place holds, and is inductive
relative to `AppInv`, `UniqueAccounts` and `DenseMessageIds`.

* *Messages* stored (`MessagesSound`) or on a connection (`RequestSound`) are
  sound: a key is sealed for its receiver and was asked for, a text has its key in
  a message between the two. Stored ones are compared with the messages
  before them; `DenseMessageIds` puts all that is stored at the time of an
  INSERT before it.
* *Processes* (`ProcessSound`): entries say what the accounts say, `requested` only
  after a request was stored, and who has a list has an account.
  `UniqueAccounts` makes "the" account of a UUID the one the list was read from.
* *Keys*: a client sets the key of a member when it sends it, before the server has
  it, so "a key in the list was in a message" is not invariant. `KeyOnItsWay`
  is the case between: the message is the request on the client's connection, and
  no text follows before it is answered, or the connection is lost and nothing
  follows at all.

`TransferProofs` proves the invariants and action properties of the run
`TransferSession`.
`ContentsUncut` rests on `NotNarrowed`: padding adds at most a block, the check
leaves room for a header, and a block is no longer than a header
(`TransferAssumption`; 16 and 21 bytes in the code). For `AnswersUnmixed`, `WaitInv` says
that the bytes read, on the connection and still to be sent are consecutive parts
of one answer, and that an answer given up in the middle never becomes complete, so
that its client is not at the menu when the next begins. `GivenUpInv`
gives `ShortAnswersArrive`: a handler on an open connection fails only for want of an answer
or of room for it.

`FramingProofs` proves the four invariants of `Framing`. `StoredWholeOrEmpty` needs
to know where the server is in the stream although it may be lost in it:

* the writes still to be made are the last ones of the last request (`ChunksInv`),
  and the unread bytes are consecutive, end where a write ended, and the
  client goes on from there (`StreamInv`);
* a content is read from its first byte on, and the next byte of the connection
  is the one that follows (`ContentInv`). The server begins to read a content only
  after a true header: one it misread has no case, or its handler raises before it
  stores anything (`handle_unknown`, `handle_raises`);
* a content is shorter than the size its header gave only if the client left, as a
  read of nothing is possible only then;
* what is still to begin comes after all that is stored or being read
  (`OrderInv`), so nothing is stored twice.

`AlignedInv` extends `AlignedUntilFirstError` to the times when nothing has arrived.
`ShortRequestsSafe` is not inductive with this: `TurnsInv` adds that client and
server take turns, so that answers and requests are counted alike.

Only model-checked: liveness (`RequestsServed`, `DeadSocketsReleased`, `RequestsReturn`,
`ShortRequestsAnswered`, `AnswersEnd`), which is out of the prover's reach, and the
counterexamples.

## Not modelled

* `Connections` assumes requests and answers that arrive whole or not at all;
  `Framing` and `Transfer` are about those that do not, one connection each, and
  are not composed with the rest: `ShortRequestsSafe`, `ShortRequestsAnswered`
  and `ShortAnswersArrive` say when the assumption holds.
* A deletion of messages: the code has none. README.md:136 promises one after retrieval,
  which the run `AppWaiting` refutes; `KeptUntilDelivered` leaves room for it, while the
  mailbox of `MailboxSpec` is the code's, which keeps what was pulled.
* The `payload_size` of a message. It is narrowed to 32 bits after the header was
  added to the padded content (protocolhandler.cpp:242, 275), and wraps for the
  texts of 2^32 - 32 to 2^32 - 23 bytes that the bound lets through. The
  server reads messages by `content_size` and only prints the other field.
* The parser's loop over several messages: the server only ever sends one
  (request.py:257), so no run of the program gets to its second round.
* Files of "up to 4gb", as the README has them: SQLite refuses values of more than
  10^9 bytes, so the bound `MAX_BLOB` comes first; the model has the 32-bit
  arithmetic and the limit, not the memory such a file would take.
* A failing `accept` (server.py:51) and an input that ends (helpers.cpp:86): both
  are listed as hazards, and neither involves any state but the operating system's.
* Output, the Windows file functions, logging, build files, the algorithms of
  the crypto library: they keep no state of the protocol.

## Plan

1. *Done*: `Protocol`, `Connections`, `Database`, `Server`, `Client`,
   `MessageApp`, their runs, the proofs about `Server`.
2. *Done*: `Framing`, `Transfer`, `UserNames`, `Mailbox`; the refinement of the
   mailbox by the server and of the server by the composition, proved.
3. *Done*: the members, keys and files of the clients, in `SessionProofs`.
4. *Done*: `FramingProofs` and `TransferProofs`.
5. The step between the levels: an abstract connection, on which one request and one
   answer at a time arrive whole or not at all, as `Connections` has it, with
   the mapping from `Framing`; a run while requests are short, and its proof
   in `FramingProofs`.
