----------------------------- MODULE UserNames -----------------------------
(***************************************************************************)
(* User names as bytes.  The client pads a name with '0's to the size of   *)
(* its field, the server stores and compares the padded name, and a client *)
(* that is sent the list of members strips the ending '0's again: a member *)
(* is then chosen by typing the stripped name.  A name of more than        *)
(* MAX_USERNAME_SIZE bytes is refused, at registration and at the choice.  *)
(*                                                                         *)
(* A round trip is one step here, from the name at the prompt to the       *)
(* answer; what can happen in between is in MessageApp.                    *)
(***************************************************************************)
EXTENDS Naturals, Sequences

CONSTANTS
  Procs,              \* the client processes
  UUIDs,              \* the UUIDs accounts can get
  NoUser,             \* there is no me.info
  Zero,               \* the byte '0'
  Letters,            \* other bytes of names
  NotUTF8,            \* bytes that make bytes.decode('utf-8') raise
  MAX_USERNAME_SIZE   \* longest name in bytes

Bytes == {Zero} \cup Letters \cup NotUTF8

ASSUME UserNamesAssumption ==
  /\ MAX_USERNAME_SIZE \in Nat
  /\ Zero \notin Letters \cup NotUTF8
  /\ NotUTF8 \cap Letters = {}

VARIABLES
  clients,  \* ID and UserName of the rows of the table clients
  me_info,  \* the ID and the name in the me.info of each process
  members   \* Client::members of each process

vars == <<clients, me_info, members>>

Init ==
  /\ clients = {}
  /\ me_info = [p \in Procs |-> NoUser]
  /\ members = [p \in Procs |-> {}]

-----------------------------------------------------------------------------
(* Names. *)

\* The field of a name in requests and responses.
NAME_FIELD == MAX_USERNAME_SIZE + 1

\* What receiveUsername returns for some line at the prompt.
Names == UNION {[1..size -> Bytes] : size \in 0..MAX_USERNAME_SIZE}

\* username.resize(255, '0').
resize(name) == [at \in 1..NAME_FIELD |-> IF at <= Len(name) THEN name[at] ELSE Zero]

\* Mutant: the padding stays.
eraseNothing(name) == name

\* Mutant: cuts at the first '0'.
eraseFromFirstZero(name) ==
  SubSeq(name, 1, CHOOSE size \in 0..Len(name) :
                    /\ \A at \in 1..size : name[at] # Zero
                    /\ size < Len(name) => name[size + 1] = Zero)

\* username.erase(username.find_last_not_of('0') + 1).
erase(name) ==
  SubSeq(name, 1, CHOOSE size \in 0..Len(name) :
                    /\ size > 0 => name[size] # Zero
                    /\ \A at \in (size + 1)..Len(name) : name[at] = Zero)

decodes(name) == \A at \in 1..Len(name) : name[at] \notin NotUTF8

-----------------------------------------------------------------------------
(* The actions. *)

\* Mutant: looks the stripped name up among the padded ones.
readableNameExists(name) == \E row \in clients : row.UserName = erase(name)

usernameExists(name) == \E row \in clients : row.UserName = name

\* 600 under a name that decodes and is free; me.info is written, or is not.
Register(p, name, id) ==
  /\ me_info[p] = NoUser
  /\ decodes(resize(name))
  /\ ~usernameExists(resize(name))
  /\ \A row \in clients : row.ID # id
  /\ clients' = clients \cup {[ID |-> id, UserName |-> resize(name)]}
  /\ \/ me_info' = [me_info EXCEPT ![p] = [ID |-> id, name |-> name]]
     \/ UNCHANGED me_info
  /\ UNCHANGED members

\* The SELECT leaves out the caller, by UUID and by name.
getAllUsers(p) ==
  {row \in clients : row.ID # me_info[p].ID /\ row.UserName # resize(me_info[p].name)}

\* 601: everybody else, each under the stripped name.
RequestUserList(p) ==
  /\ me_info[p] # NoUser
  /\ members[p] = {}
  /\ members' = [members EXCEPT ![p] =
                   {[ID |-> row.ID, username |-> erase(row.UserName)] : row \in getAllUsers(p)}]
  /\ UNCHANGED <<clients, me_info>>

\* The list goes with the process; me.info stays.
Exit(p) ==
  /\ members' = [members EXCEPT ![p] = {}]
  /\ UNCHANGED <<clients, me_info>>

\* The members a typed name can mean; std::find_if takes the first of them.
getMember(p, typed) == {member \in members[p] : member.username = typed}

Next ==
  \E p \in Procs :
    \/ \E name \in Names, id \in UUIDs : Register(p, name, id)
    \/ RequestUserList(p)
    \/ Exit(p)

Spec == Init /\ [][Next]_vars

-----------------------------------------------------------------------------
(* Safety. *)

UserNamesTypeOK ==
  /\ clients \subseteq [ID : UUIDs, UserName : [1..NAME_FIELD -> Bytes]]
  /\ me_info \in [Procs -> {NoUser} \cup [ID : UUIDs, name : Names]]
  /\ members \in [Procs -> SUBSET [ID : UUIDs, username : Names]]

\* Every member of a list can be chosen, and nobody else in its place: the name
\* that is shown is one the prompt accepts, and it is no other member's.  So the
\* keys and messages meant for a name go to one account, although padding and
\* stripping both map several names to one.
MembersCanBeChosen ==
  \A p \in Procs : \A member \in members[p] :
    member.username \in Names /\ getMember(p, member.username) = {member}

EndsInZero(name) == name # <<>> /\ name[Len(name)] = Zero

\* A name leads to the account that was registered under it and never to another
\* one; to none at all only when it ends in '0's, against what the prompt asks.
NamesLeadToTheirOwner ==
  \A p, q \in Procs :
    me_info[q] # NoUser =>
      LET chosen == getMember(p, me_info[q].name) IN
      /\ \A member \in chosen : member.ID = me_info[q].ID
      /\ (\E member \in members[p] : member.ID = me_info[q].ID) /\ ~EndsInZero(me_info[q].name)
           => chosen # {}

=============================================================================
