-------------------------- MODULE UserNamesProofs --------------------------
(***************************************************************************)
(* Theorems about UserNames, for every alphabet and every size of the name *)
(* field.                                                                  *)
(***************************************************************************)
EXTENDS UserNames, Maxima, SequenceTheorems, TLAPS

\* The names that fill their field.
Fields == [1..NAME_FIELD -> Bytes]

LEMMA FieldSize == NAME_FIELD \in Nat /\ NAME_FIELD = MAX_USERNAME_SIZE + 1 /\ NAME_FIELD > 0
BY UserNamesAssumption DEF NAME_FIELD

LEMMA LenOfFunction ==
  ASSUME NEW S, NEW n \in Nat, NEW f \in [1..n -> S]
  PROVE  f \in Seq(S) /\ Len(f) = n
OBVIOUS

\* Cutting a name off after its last byte that is no '0'.
LEMMA EraseCuts ==
  ASSUME NEW n \in Nat, NEW name \in [1..n -> Bytes]
  PROVE  \E size \in 0..n :
           /\ erase(name) = SubSeq(name, 1, size)
           /\ size > 0 => name[size] # Zero
           /\ \A at \in (size + 1)..n : name[at] = Zero
<1> DEFINE others == {at \in 0..n : at = 0 \/ name[at] # Zero}
           cut(size) == /\ size > 0 => name[size] # Zero
                        /\ \A at \in (size + 1)..n : name[at] = Zero
<1>1. PICK last \in others : \A at \in others : at <= last
  <2>1. others \in SUBSET (0..n) /\ others # {}
    OBVIOUS
  <2> HIDE DEF others
  <2> QED BY <2>1, HasMaximum
<1>2. last \in 0..n /\ cut(last)
  BY <1>1
<1>3. Len(name) = n
  BY LenOfFunction
<1>4. erase(name) = SubSeq(name, 1, CHOOSE size \in 0..n : cut(size))
  BY <1>3 DEF erase
<1>5. (CHOOSE size \in 0..n : cut(size)) \in 0..n /\ cut(CHOOSE size \in 0..n : cut(size))
  <2> HIDE DEF cut
  <2> QED BY <1>2
<1> QED BY <1>4, <1>5

\* What is left of a name are its bytes up to the last that is no '0'.
LEMMA EraseBytes ==
  ASSUME NEW n \in Nat, NEW name \in [1..n -> Bytes]
  PROVE  \E size \in 0..n :
           /\ erase(name) \in [1..size -> Bytes]
           /\ Len(erase(name)) = size
           /\ \A at \in 1..size : erase(name)[at] = name[at]
           /\ size > 0 => name[size] # Zero
           /\ \A at \in (size + 1)..n : name[at] = Zero
<1>1. PICK size \in 0..n : /\ erase(name) = SubSeq(name, 1, size)
                           /\ size > 0 => name[size] # Zero
                           /\ \A at \in (size + 1)..n : name[at] = Zero
  BY EraseCuts
<1>2. \A at \in 1..size : name[at] \in Bytes
  OBVIOUS
<1>3. /\ SubSeq(name, 1, size) \in Seq(Bytes)
      /\ Len(SubSeq(name, 1, size)) = size
      /\ \A at \in 1..size : SubSeq(name, 1, size)[at] = name[at]
  BY <1>2, SubSeqProperties
<1>4. SubSeq(name, 1, size) \in [1..size -> Bytes]
  BY <1>3, LenProperties
<1> QED BY <1>1, <1>3, <1>4

\* Padding undoes stripping.
LEMMA PaddingUndoesStripping ==
  ASSUME NEW field \in Fields
  PROVE  resize(erase(field)) = field
<1>1. PICK size \in 0..NAME_FIELD :
        /\ Len(erase(field)) = size
        /\ \A at \in 1..size : erase(field)[at] = field[at]
        /\ \A at \in (size + 1)..NAME_FIELD : field[at] = Zero
  BY FieldSize, EraseBytes DEF Fields
<1>2. \A at \in 1..NAME_FIELD : (IF at <= size THEN erase(field)[at] ELSE Zero) = field[at]
  BY <1>1, FieldSize
<1>3. field = [at \in 1..NAME_FIELD |-> field[at]]
  BY DEF Fields
<1> QED BY <1>1, <1>2, <1>3 DEF resize

\* A padded name ends in a '0', and is one that the prompt accepts when stripped.
LEMMA PaddedNames ==
  ASSUME NEW name \in Names
  PROVE  resize(name) \in Fields /\ resize(name)[NAME_FIELD] = Zero
<1>1. PICK n \in 0..MAX_USERNAME_SIZE : name \in [1..n -> Bytes]
  BY DEF Names
<1>2. Len(name) = n
  BY <1>1, LenOfFunction, UserNamesAssumption
<1> QED BY <1>1, <1>2, FieldSize, UserNamesAssumption DEF resize, Fields, Bytes

LEMMA StrippedNames ==
  ASSUME NEW field \in Fields, field[NAME_FIELD] = Zero
  PROVE  erase(field) \in Names
<1>1. PICK size \in 0..NAME_FIELD : /\ erase(field) \in [1..size -> Bytes]
                                    /\ size > 0 => field[size] # Zero
  BY FieldSize, EraseBytes DEF Fields
<1>2. size \in 0..MAX_USERNAME_SIZE
  BY <1>1, FieldSize, UserNamesAssumption
<1> QED BY <1>1, <1>2 DEF Names

\* A name without ending '0's survives the round trip.
LEMMA StrippingUndoesPadding ==
  ASSUME NEW name \in Names, ~EndsInZero(name)
  PROVE  erase(resize(name)) = name
<1>1. PICK n \in 0..MAX_USERNAME_SIZE : name \in [1..n -> Bytes]
  BY DEF Names
<1>2. Len(name) = n
  BY <1>1, LenOfFunction, UserNamesAssumption
<1> DEFINE field == resize(name)
<1>3. field \in [1..NAME_FIELD -> Bytes]
  BY PaddedNames DEF Fields
<1>4. /\ \A at \in 1..n : field[at] = name[at]
      /\ \A at \in (n + 1)..NAME_FIELD : field[at] = Zero
  BY <1>2, UserNamesAssumption DEF resize, NAME_FIELD
<1>5. n > 0 => name[n] # Zero
  <2>1. n > 0 => name # <<>>
    BY <1>2
  <2> QED BY <1>2, <2>1 DEF EndsInZero
<1> HIDE DEF field
<1>6. PICK size \in 0..NAME_FIELD :
        /\ erase(field) \in [1..size -> Bytes]
        /\ \A at \in 1..size : erase(field)[at] = field[at]
        /\ size > 0 => field[size] # Zero
        /\ \A at \in (size + 1)..NAME_FIELD : field[at] = Zero
  BY <1>3, FieldSize, EraseBytes
<1>7. size = n
  BY <1>4, <1>5, <1>6, UserNamesAssumption, FieldSize
<1>8. \A at \in 1..n : erase(field)[at] = name[at]
  BY <1>4, <1>6, <1>7
<1> QED BY <1>1, <1>6, <1>7, <1>8 DEF field

-----------------------------------------------------------------------------
(* The inductive invariant. *)

UniqueRows ==
  /\ \A row \in clients : row.UserName[NAME_FIELD] = Zero
  /\ \A row, other \in clients : row.ID = other.ID \/ row.UserName = other.UserName => row = other

MembersAreRows ==
  \A p \in Procs : \A member \in members[p] :
    \E row \in clients : member = [ID |-> row.ID, username |-> erase(row.UserName)]

FilesAreRows ==
  \A p \in Procs : me_info[p] # NoUser =>
    [ID |-> me_info[p].ID, UserName |-> resize(me_info[p].name)] \in clients

NamesInv == UserNamesTypeOK /\ UniqueRows /\ MembersAreRows /\ FilesAreRows

LEMMA InitNames == Init => NamesInv
BY DEF Init, NamesInv, UserNamesTypeOK, UniqueRows, MembersAreRows, FilesAreRows

LEMMA RegisterKeepsNames ==
  ASSUME NamesInv, NEW p \in Procs, NEW name \in Names, NEW id \in UUIDs, Register(p, name, id)
  PROVE  NamesInv'
<1> DEFINE new == [ID |-> id, UserName |-> resize(name)]
<1>1. clients' = clients \cup {new} /\ new \in clients' /\ UNCHANGED members
  BY DEF Register
<1>2. resize(name) \in [1..NAME_FIELD -> Bytes] /\ resize(name)[NAME_FIELD] = Zero
  BY PaddedNames DEF Fields
<1>3. UserNamesTypeOK'
  BY <1>1, <1>2 DEF NamesInv, UserNamesTypeOK, Register
<1>4. UniqueRows'
  <2>1. \A row \in clients : row.ID # id /\ row.UserName # resize(name)
    BY DEF Register, usernameExists
  <2>2. new.ID = id /\ new.UserName = resize(name)
    OBVIOUS
  <2> HIDE DEF new
  <2> QED BY <1>1, <1>2, <2>1, <2>2 DEF NamesInv, UniqueRows
<1>5. MembersAreRows'
  BY <1>1 DEF NamesInv, MembersAreRows
<1>6. ASSUME NEW q \in Procs, me_info'[q] # NoUser
      PROVE  [ID |-> me_info'[q].ID, UserName |-> resize(me_info'[q].name)] \in clients'
  <2>1. CASE me_info'[q] = me_info[q]
    BY <1>1, <1>6, <2>1 DEF NamesInv, FilesAreRows
  <2>2. CASE me_info'[q] = [ID |-> id, name |-> name]
    BY <1>1, <2>2
  <2> QED BY <2>1, <2>2 DEF Register, NamesInv, UserNamesTypeOK
<1>7. FilesAreRows'
  BY <1>6 DEF FilesAreRows
<1> QED BY <1>3, <1>4, <1>5, <1>7 DEF NamesInv

LEMMA ListKeepsNames ==
  ASSUME NamesInv, NEW p \in Procs, RequestUserList(p)
  PROVE  NamesInv'
<1>1. \A row \in clients : erase(row.UserName) \in Names
  BY StrippedNames DEF NamesInv, UserNamesTypeOK, UniqueRows, Fields
<1>2. UserNamesTypeOK'
  BY <1>1 DEF NamesInv, UserNamesTypeOK, RequestUserList, getAllUsers
<1>3. MembersAreRows'
  BY DEF NamesInv, UserNamesTypeOK, MembersAreRows, RequestUserList, getAllUsers
<1> QED BY <1>2, <1>3 DEF NamesInv, UniqueRows, FilesAreRows, RequestUserList

LEMMA NextKeepsNames ==
  ASSUME NamesInv, [Next]_vars
  PROVE  NamesInv'
<1>1. ASSUME NEW p \in Procs, Exit(p) PROVE NamesInv'
  BY <1>1 DEF NamesInv, UserNamesTypeOK, UniqueRows, MembersAreRows, FilesAreRows, Exit
<1>2. CASE UNCHANGED vars
  BY <1>2 DEF NamesInv, UserNamesTypeOK, UniqueRows, MembersAreRows, FilesAreRows, vars
<1> QED BY <1>1, <1>2, RegisterKeepsNames, ListKeepsNames DEF Next

LEMMA NamesInvariant == Spec => []NamesInv
BY InitNames, NextKeepsNames, PTL DEF Spec

-----------------------------------------------------------------------------
(* The theorems. *)

\* Names, me.info and member lists keep their types; in particular every name
\* in a list is short enough to be typed.
THEOREM NamesTypeCorrect == Spec => []UserNamesTypeOK
<1>1. NamesInv => UserNamesTypeOK
  BY DEF NamesInv
<1> QED BY <1>1, NamesInvariant, PTL

\* Whatever names are registered, every member of a list can be chosen by the
\* name that is shown for it, and that name means nobody else.
THEOREM EveryMemberCanBeChosen == Spec => []MembersCanBeChosen
<1>1. ASSUME NamesInv, NEW p \in Procs, NEW member \in members[p]
      PROVE  member.username \in Names /\ getMember(p, member.username) = {member}
  <2>1. member.username \in Names
    BY <1>1 DEF NamesInv, UserNamesTypeOK
  <2>2. PICK row \in clients : member = [ID |-> row.ID, username |-> erase(row.UserName)]
    BY <1>1 DEF NamesInv, MembersAreRows
  <2>3. ASSUME NEW other \in members[p], other.username = member.username
        PROVE  other = member
    <3>1. PICK another \in clients :
            other = [ID |-> another.ID, username |-> erase(another.UserName)]
      BY <1>1 DEF NamesInv, MembersAreRows
    <3>2. erase(another.UserName) = erase(row.UserName)
      BY <2>2, <2>3, <3>1
    <3>3. another.UserName = row.UserName
      BY <1>1, <3>2, PaddingUndoesStripping DEF NamesInv, UserNamesTypeOK, Fields
    <3> QED BY <1>1, <2>2, <3>1, <3>3 DEF NamesInv, UniqueRows
  <2> QED BY <2>1, <2>3 DEF getMember
<1>2. NamesInv => MembersCanBeChosen
  BY <1>1 DEF MembersCanBeChosen
<1> QED BY <1>2, NamesInvariant, PTL

\* The name someone registered under leads to that account or to none, and to
\* none only when it ends in '0's.
THEOREM NamesLeadHome == Spec => []NamesLeadToTheirOwner
<1>1. ASSUME NamesInv, NEW p \in Procs, NEW q \in Procs, me_info[q] # NoUser,
             NEW member \in members[p]
      PROVE  /\ member.username = me_info[q].name => member.ID = me_info[q].ID
             /\ member.ID = me_info[q].ID /\ ~EndsInZero(me_info[q].name)
                  => member.username = me_info[q].name
  <2>1. PICK row \in clients : member = [ID |-> row.ID, username |-> erase(row.UserName)]
    BY <1>1 DEF NamesInv, MembersAreRows
  <2> DEFINE own == [ID |-> me_info[q].ID, UserName |-> resize(me_info[q].name)]
  <2>2. own \in clients /\ me_info[q].name \in Names
    BY <1>1 DEF NamesInv, FilesAreRows, UserNamesTypeOK
  <2>3. ASSUME member.username = me_info[q].name PROVE member.ID = me_info[q].ID
    <3>1. row.UserName = own.UserName
      BY <1>1, <2>1, <2>3, PaddingUndoesStripping DEF NamesInv, UserNamesTypeOK, Fields
    <3>2. row = own
      BY <1>1, <2>2, <3>1 DEF NamesInv, UniqueRows
    <3> QED BY <2>1, <3>2
  <2>4. ASSUME member.ID = me_info[q].ID, ~EndsInZero(me_info[q].name)
        PROVE  member.username = me_info[q].name
    <3>1. row = own
      BY <1>1, <2>1, <2>2, <2>4 DEF NamesInv, UniqueRows
    <3> QED BY <2>1, <2>2, <2>4, <3>1, StrippingUndoesPadding
  <2> QED BY <2>3, <2>4
<1>2. NamesInv => NamesLeadToTheirOwner
  BY <1>1 DEF NamesLeadToTheirOwner, getMember
<1> QED BY <1>2, NamesInvariant, PTL

=============================================================================
