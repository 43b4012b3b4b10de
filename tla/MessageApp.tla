----------------------------- MODULE MessageApp -----------------------------
(***************************************************************************)
(* The whole application: client processes, the connections between them   *)
(* and the server, and the server with its database.                       *)
(***************************************************************************)
EXTENDS Client, Server

vars == <<serverVars, clientVars>>

TypeOK == ServerTypeOK /\ ClientTypeOK

Init == ServerInit /\ ClientInit

ServerSteps ==
  /\ \/ \E c \in Conns : handle_client(c)
     \/ Restart
  /\ UNCHANGED clientVars

ClientSteps == ClientNext /\ UNCHANGED dbVars

Next == ServerSteps \/ ClientSteps

Spec == Init /\ [][Next]_vars

\* sel.select() returns every readable connection, and the loop calls back each
\* of them before it selects again.  A process that waits for an answer does
\* nothing but read it.  Users owe no choices.
FairSpec ==
  /\ Spec
  /\ \A c \in Conns : WF_vars(handle_client(c) /\ UNCHANGED clientVars)
  /\ \A p \in Procs : WF_vars(responseHandler(p) /\ UNCHANGED dbVars)

-----------------------------------------------------------------------------
(* Safety. *)

\* A member list entry names an account of the server and, once a public key
\* is there, carries the key that account registered: for the whole session,
\* though the list is fetched once and never refreshed.
MembersMatchAccounts ==
  \A p \in Procs : \A u \in DOMAIN members[p] :
    \E row \in clients : /\ row.ID = u
                         /\ row.UserName = members[p][u].username
                         /\ members[p][u].public_key \in {NoKey, row.PublicKey}

\* A complete me.info signs its user in to an existing account whose published
\* key is the pair in the file, whatever crashed since.
FileMatchesAccount ==
  \A p \in Procs : me_info[p].lines = 3 =>
    \E row \in clients : /\ row.ID = me_info[p].user.uuid
                         /\ row.UserName = me_info[p].user.name
                         /\ row.PublicKey = me_info[p].user.key

\* A symmetric key travels only under the public key of the one it is for.
KeysSealedForRecipient ==
  \A row \in messages : row.Type = "SEND_SYMMETRIC_KEY" =>
    \E account \in clients : account.ID = row.ToClient /\ account.PublicKey = row.Content.pub

\* Nobody is sent a symmetric key without having asked the sender for one.
KeysWereRequested ==
  \A row \in messages : row.Type = "SEND_SYMMETRIC_KEY" =>
    \E request \in messages : /\ request.Type = "REQ_SYMMETRIC_KEY"
                              /\ request.FromClient = row.ToClient
                              /\ request.ToClient = row.FromClient
                              /\ request.ID < row.ID

\* A text or file is encrypted with a key that one of the two sent the other
\* in an earlier message.  setNewSymmetric replaces the key before its message
\* is stored; when storing fails the session's connection is lost with it.
TextsHaveTheirKey ==
  \A row \in messages : row.Type \in {"SEND_TEXT_MSG", "SEND_FILE"} =>
    \E sent \in messages : /\ sent.Type = "SEND_SYMMETRIC_KEY"
                           /\ {sent.FromClient, sent.ToClient} = {row.FromClient, row.ToClient}
                           /\ sent.Content.key = row.Content.key
                           /\ sent.ID < row.ID

-----------------------------------------------------------------------------
(* Liveness. *)

\* Nobody waits for ever: every request brings its process back to the menu,
\* with an answer or an exception, or the process ends.
RequestsReturn == \A p \in Procs : pc[p] \in RequestOps ~> pc[p] \notin RequestOps

-----------------------------------------------------------------------------
(* What the repository's documents say, and the code does not do. *)

\* README, step 11: after an exchange both clients share the symmetric key.
\* They do not when two exchanges cross, each keeping the key the other one
\* made, or when a later message hides the one that brought the newer key.
SharedKeyAgreed ==
  \A p, q \in Procs :
    LET a == user[p].uuid  b == user[q].uuid IN
    /\ a \in DOMAIN members[q]
    /\ b \in DOMAIN members[p]
    /\ NoKey \notin {members[p][b].symmetric_key, members[q][a].symmetric_key}
    /\ \A row \in messages : /\ row.ToClient = a => row.ID <= shown[p]
                             /\ row.ToClient = b => row.ID <= shown[q]
    /\ \A r \in {p, q} : pc[r] = "ready" /\ conn[sock[r]] = "open"
    => members[p][b].symmetric_key = members[q][a].symmetric_key

=============================================================================
