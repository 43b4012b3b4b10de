SPECIFICATION Spec

CONSTANTS
  Procs = {p1, p2}
  Conns = {c1, c2}
  NoConn = noConn
  UUIDs = {u1, u2}
  UnsetUUID = unset
  Names = {n1, n2}
  KeyPairs = {k1, k2}
  SymKeys = {s1}
  NoKey = noKey
  MessageTypes = {"REQ_SYMMETRIC_KEY", "SEND_SYMMETRIC_KEY"}
  MaxRowId = 2
PROPERTY NoneLeftBehind
SYMMETRY Symmetry
