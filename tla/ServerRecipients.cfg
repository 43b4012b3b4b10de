SPECIFICATION ServerSpec

CONSTANTS
  UUIDs = {u1, u2}
  UnsetUUID = unset
  Names = {n1, n2}
  KeyPairs = {k1}
  SymKeys = {s1}
  NoKey = noKey
  MessageTypes = {"REQ_SYMMETRIC_KEY"}
  MaxRowId = 1
  Conns = {c1}

INVARIANT RecipientsRegistered
