---------------------------- MODULE Connections ----------------------------
(***************************************************************************)
(* The TCP connections between client processes and the server, as both    *)
(* ends see them.  A client has at most one request outstanding and every  *)
(* request here fits one write of at most MAX_BUFFER bytes, which the      *)
(* loopback interface delivers whole, so a connection carries one request  *)
(* and one answer at a time.                                               *)
(*                                                                         *)
(*   "free"    no socket                                                   *)
(*   "open"    connected; the server's selector watches it                 *)
(*   "closed"  the server closed it, the client has not dropped its end    *)
(*   "eof"     the client is gone, the server still watches it             *)
(***************************************************************************)
EXTENDS Protocol

CONSTANT Conns

VARIABLES
  conn,  \* conn[c]: the state of connection c
  rx,    \* rx[c]: the Request object of c, until its answer is read
  tx     \* tx[c]: the answer on its way to the client

linkVars == <<conn, rx, tx>>

LinkTypeOK ==
  /\ conn \in [Conns -> {"free", "open", "closed", "eof"}]
  /\ rx \in [Conns -> Requests \cup {NoRequest}]
  /\ tx \in [Conns -> Responses \cup {NoResponse}]

LinkInit ==
  /\ conn = [c \in Conns |-> "free"]
  /\ rx = [c \in Conns |-> NoRequest]
  /\ tx = [c \in Conns |-> NoResponse]

\* The server has bytes of a request to read on c.
Readable(c) ==
  /\ conn[c] \in {"open", "eof"}
  /\ rx[c] # NoRequest
  /\ tx[c] = NoResponse

-----------------------------------------------------------------------------
(* The client's end. *)

\* connectToServer, and accept_client registering the accepted socket.
Connect(c) ==
  /\ conn[c] = "free"
  /\ conn' = [conn EXCEPT ![c] = "open"]
  /\ UNCHANGED <<rx, tx>>

\* A client that connects and ends before it sends anything.
ConnectAndLeave(c) ==
  /\ conn[c] = "free"
  /\ conn' = [conn EXCEPT ![c] = "eof"]
  /\ UNCHANGED <<rx, tx>>

\* sendMessage on a live connection.
SendRequest(c, r) ==
  /\ conn[c] = "open"
  /\ rx[c] = NoRequest
  /\ rx' = [rx EXCEPT ![c] = r]
  /\ UNCHANGED <<conn, tx>>

\* receiveMessage has the whole answer.
ReadAnswer(c) ==
  /\ tx[c] # NoResponse
  /\ rx' = [rx EXCEPT ![c] = NoRequest]
  /\ tx' = [tx EXCEPT ![c] = NoResponse]
  /\ UNCHANGED conn

\* The client's socket is closed, by closeConnection or with its process.
\* The server may still read a request that reached it, or lose it to a reset.
Drop(c) ==
  /\ conn[c] \in {"open", "closed"}
  /\ conn' = [conn EXCEPT ![c] = IF conn[c] = "open" THEN "eof" ELSE "free"]
  /\ \/ /\ Readable(c)
        /\ UNCHANGED rx
     \/ rx' = [rx EXCEPT ![c] = NoRequest]
  /\ tx' = [tx EXCEPT ![c] = NoResponse]

-----------------------------------------------------------------------------
(* The server's end. *)

\* sendall: the answer reaches the client, or nobody when the client is gone.
SendAll(c, response) ==
  /\ tx' = IF conn[c] = "open" THEN [tx EXCEPT ![c] = response] ELSE tx
  /\ rx' = IF conn[c] = "open" THEN rx ELSE [rx EXCEPT ![c] = NoRequest]
  /\ UNCHANGED conn

\* disconnect_client: unregister and close.
DisconnectClient(c) ==
  /\ conn' = [conn EXCEPT ![c] = "closed"]
  /\ rx' = [rx EXCEPT ![c] = NoRequest]
  /\ UNCHANGED tx

\* Mutant: the exception is printed and the socket stays registered.
NeverUnregister(c) ==
  /\ conn[c] = "eof"
  /\ rx[c] = NoRequest
  /\ UNCHANGED linkVars

\* handle_client on a connection whose client is gone: recv returns no bytes,
\* parse_header raises ConnectionResetError and the socket is unregistered.
Unregister(c) ==
  /\ conn[c] = "eof"
  /\ rx[c] = NoRequest
  /\ conn' = [conn EXCEPT ![c] = "free"]
  /\ UNCHANGED <<rx, tx>>

=============================================================================
