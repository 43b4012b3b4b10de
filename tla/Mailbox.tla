------------------------------ MODULE Mailbox ------------------------------
(***************************************************************************)
(* What the server promises its callers, without tables, handlers or       *)
(* sockets: an atomic object of accounts and a log of posts.  A call takes *)
(* effect at most once, at one moment between the call and its answer; its *)
(* answer, or the call itself, may be lost.  Nothing that was accepted is  *)
(* ever changed or taken back.                                             *)
(***************************************************************************)
EXTENDS Protocol, Sequences

CONSTANT Callers  \* those who call, one call at a time

VARIABLES
  accounts,  \* name and public key of every registered UUID
  log,       \* the accepted messages; a message's id is its place
  calls,     \* the call each caller is waiting for
  answers    \* the answer each caller has not read yet

mailboxVars == <<calls, answers, accounts, log>>

Init ==
  /\ accounts = [id \in {} |-> NoKey]
  /\ log = <<>>
  /\ calls = [c \in Callers |-> NoRequest]
  /\ answers = [c \in Callers |-> NoResponse]

Pending(c, op) == calls[c].op = op /\ answers[c] = NoResponse

Known(id) == id \in DOMAIN accounts

NameTaken(name) == \E id \in DOMAIN accounts : accounts[id].name = name

Full == Len(log) >= MaxRowId

\* The caller gets the answer, or is gone and nobody does.
Reply(c, answer) ==
  \/ /\ answers' = [answers EXCEPT ![c] = answer]
     /\ UNCHANGED calls
  \/ /\ calls' = [calls EXCEPT ![c] = NoRequest]
     /\ UNCHANGED answers

Call(c, request) ==
  /\ calls[c] = NoRequest
  /\ calls' = [calls EXCEPT ![c] = request]
  /\ UNCHANGED <<accounts, log, answers>>

\* A new account, under a UUID and a name no other account has.
Register(c, id) ==
  /\ Pending(c, "REQ_REGISTER")
  /\ ~Known(id)
  /\ ~NameTaken(calls[c].username)
  /\ accounts' = [other \in DOMAIN accounts \cup {id} |->
                    IF other = id
                    THEN [name |-> calls[c].username, key |-> calls[c].publicKey]
                    ELSE accounts[other]]
  /\ Reply(c, RegisterResp(id))
  /\ UNCHANGED log

\* Everybody else.
List(c) ==
  /\ Pending(c, "REQ_USER_LIST")
  /\ Known(calls[c].UUID)
  /\ Reply(c, UserListResp({[ID |-> id, UserName |-> accounts[id].name] :
                              id \in DOMAIN accounts \ {calls[c].UUID}}))
  /\ UNCHANGED <<accounts, log>>

GetKey(c) ==
  /\ Pending(c, "REQ_PUBLIC_KEY")
  /\ Known(calls[c].UUID)
  /\ Known(calls[c].target)
  /\ Reply(c, PublicKeyResp(calls[c].target, accounts[calls[c].target].key))
  /\ UNCHANGED <<accounts, log>>

\* A message of a known sender, to anyone.
Post(c) ==
  /\ Pending(c, "REQ_MESSAGE_TO_USER")
  /\ Known(calls[c].UUID)
  /\ ~Full
  /\ log' = Append(log, [to |-> calls[c].target, from |-> calls[c].UUID,
                         type |-> calls[c].type, content |-> calls[c].content])
  /\ Reply(c, MessageSentResp(calls[c].target, Len(log) + 1))
  /\ UNCHANGED accounts

For(id) == {n \in DOMAIN log : log[n].to = id}

\* The newest message for the caller, which stays in the log.
Pull(c) ==
  /\ Pending(c, "REQ_AWAITING_MESSAGES")
  /\ Known(calls[c].UUID)
  /\ \E n \in For(calls[c].UUID) :
       /\ \A other \in For(calls[c].UUID) : other <= n
       /\ Reply(c, AwaitingResp([ID |-> n, FromClient |-> log[n].from,
                                 Type |-> log[n].type, Content |-> log[n].content]))
  /\ UNCHANGED <<accounts, log>>

\* What may be answered with the general error: a registration whose name is
\* taken or whose UUID collides, a message of a sender nobody knows.
Refusable(request) ==
  \/ /\ request.op = "REQ_REGISTER"
     /\ NameTaken(request.username) \/ DOMAIN accounts # {}
  \/ /\ request.op = "REQ_MESSAGE_TO_USER"
     /\ ~Known(request.UUID)

Refuse(c) ==
  /\ calls[c] # NoRequest
  /\ answers[c] = NoResponse
  /\ Refusable(calls[c])
  /\ answers' = [answers EXCEPT ![c] = GeneralError]
  /\ UNCHANGED <<accounts, log, calls>>

\* Callers read their answers; calls and answers of some are lost.
Finish(some) ==
  /\ calls' = [c \in Callers |-> IF c \in some THEN NoRequest ELSE calls[c]]
  /\ answers' = [c \in Callers |-> IF c \in some THEN NoResponse ELSE answers[c]]
  /\ UNCHANGED <<accounts, log>>

Next ==
  \/ \E some \in SUBSET Callers : Finish(some)
  \/ \E c \in Callers :
       \/ \E request \in Requests : Call(c, request)
       \/ \E id \in UUIDs : Register(c, id)
       \/ List(c)
       \/ GetKey(c)
       \/ Post(c)
       \/ Pull(c)
       \/ Refuse(c)

Spec == Init /\ [][Next]_mailboxVars

=============================================================================
