SPECIFICATION Spec

CONSTANTS
  Procs = {p1, p2, p3}
  UUIDs = {u1, u2, u3}
  NoUser = noUser
  Zero = "0"
  Letters = {"a"}
  NotUTF8 = {"x"}
  MAX_USERNAME_SIZE = 2

INVARIANT UserNamesTypeOK
INVARIANT MembersCanBeChosen
INVARIANT NamesLeadToTheirOwner
