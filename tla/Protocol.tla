------------------------------ MODULE Protocol ------------------------------
(***************************************************************************)
(* The vocabulary client and server share: the operation codes, the        *)
(* message types and the requests and responses that cross a connection.   *)
(*                                                                         *)
(* A UUID, a user name, an RSA key pair and an AES key are opaque values.  *)
(* The public half of a pair is identified with the pair, and a ciphertext *)
(* records the key that made it: what decrypts it is all that matters.     *)
(***************************************************************************)
EXTENDS Naturals

CONSTANTS
  UUIDs,         \* the values uuid.uuid4() can return
  UnsetUUID,     \* what User::UUID holds before a UUID is assigned to it
  Names,         \* user names as typed at the prompt (no ending '0's)
  KeyPairs,      \* RSA key pairs
  SymKeys,       \* AES keys
  NoKey,         \* an empty std::optional key wrapper
  MessageTypes,  \* the message types in use
  MaxRowId       \* largest row id that fits struct.pack("I", ...)

AllMessageTypes ==
  {"REQ_SYMMETRIC_KEY", "SEND_SYMMETRIC_KEY", "SEND_TEXT_MSG", "SEND_FILE"}

ASSUME ProtocolAssumption ==
  /\ UnsetUUID \notin UUIDs
  /\ NoKey \notin KeyPairs \cup SymKeys
  /\ MessageTypes \subseteq AllMessageTypes
  /\ MaxRowId \in Nat

\* The clientID a request header can carry: a UUID the server issued, or the
\* uninitialised bytes of a User that never received one.
ClientIDs == UUIDs \cup {UnsetUUID}

-----------------------------------------------------------------------------
(* Message contents. *)

\* A request for a symmetric key has content size 0.
NoContent == [kind |-> "NONE"]

\* key encrypted with the public key pub (RSAPublicWrapper::encrypt).
Rsa(pub, key) == [kind |-> "RSA", pub |-> pub, key |-> key]

\* A text or a file encrypted with key (AESWrapper::encrypt).
Aes(key) == [kind |-> "AES", key |-> key]

ContentsOf(type) ==
  CASE type = "REQ_SYMMETRIC_KEY"  -> {NoContent}
    [] type = "SEND_SYMMETRIC_KEY" -> {Rsa(pub, key) : pub \in KeyPairs, key \in SymKeys}
    [] OTHER                       -> {Aes(key) : key \in SymKeys}

Contents == UNION {ContentsOf(type) : type \in MessageTypes}

-----------------------------------------------------------------------------
(* Requests. *)

RegisterReq(username, publicKey) ==
  [op |-> "REQ_REGISTER", username |-> username, publicKey |-> publicKey]

UserListReq(UUID) == [op |-> "REQ_USER_LIST", UUID |-> UUID]

PublicKeyReq(UUID, target) ==
  [op |-> "REQ_PUBLIC_KEY", UUID |-> UUID, target |-> target]

MessageReq(UUID, target, type, content) ==
  [op |-> "REQ_MESSAGE_TO_USER", UUID |-> UUID, target |-> target,
   type |-> type, content |-> content]

AwaitingReq(UUID) == [op |-> "REQ_AWAITING_MESSAGES", UUID |-> UUID]

MessageReqs ==
  UNION {{MessageReq(id, target, type, content) :
             id \in ClientIDs, target \in UUIDs, content \in ContentsOf(type)} :
          type \in MessageTypes}

Requests ==
  {RegisterReq(name, key) : name \in Names, key \in KeyPairs}
    \cup {UserListReq(id) : id \in ClientIDs}
    \cup {PublicKeyReq(id, target) : id \in ClientIDs, target \in UUIDs}
    \cup MessageReqs
    \cup {AwaitingReq(id) : id \in ClientIDs}

\* No request is being handled.
NoRequest == [op |-> "NONE"]

-----------------------------------------------------------------------------
(* Responses. *)

RegisterResp(UUID) == [op |-> "RESP_REGISTER_SUCCESSFULL", UUID |-> UUID]

UserListResp(users) == [op |-> "RESP_USER_LIST", users |-> users]

PublicKeyResp(UUID, publicKey) ==
  [op |-> "RESP_PUBLIC_KEY", UUID |-> UUID, publicKey |-> publicKey]

MessageSentResp(UUID, messageID) ==
  [op |-> "RESP_MSG_SENT_TO_USER", UUID |-> UUID, messageID |-> messageID]

AwaitingResp(message) == [op |-> "RESP_AWAITING_MESSAGES", message |-> message]

GeneralError == [op |-> "RESP_GENERAL_ERROR"]

\* One entry of the member list, and one waiting message, as they are sent.
Members == [ID : UUIDs, UserName : Names]

WaitingMessages ==
  {message \in [ID : 1..MaxRowId, FromClient : UUIDs, Type : MessageTypes, Content : Contents] :
     message.Content \in ContentsOf(message.Type)}

Responses ==
  {RegisterResp(id) : id \in UUIDs}
    \cup {UserListResp(users) : users \in SUBSET Members}
    \cup {PublicKeyResp(id, key) : id \in UUIDs, key \in KeyPairs}
    \cup {MessageSentResp(id, row) : id \in UUIDs, row \in 1..MaxRowId}
    \cup {AwaitingResp(message) : message \in WaitingMessages}
    \cup {GeneralError}

\* No answer has arrived.
NoResponse == [op |-> "NONE"]

=============================================================================
