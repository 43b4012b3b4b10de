SPECIFICATION ServerSpec

CONSTANTS
  UUIDs = {u1, u2}
  UnsetUUID = unset
  Names = {n1, n2}
  KeyPairs = {k1, k2}
  SymKeys = {s1}
  NoKey = noKey
  MessageTypes = {"REQ_SYMMETRIC_KEY", "SEND_TEXT_MSG"}
  MaxRowId = 2
  Conns = {c1, c2}

INVARIANT ServerTypeOK
INVARIANT UniqueAccounts
INVARIANT DenseMessageIds
INVARIANT SendersRegistered
INVARIANT AnswersTruthful
PROPERTY MailboxSpec
PROPERTY KeptUntilDelivered
PROPERTY RefusalsLeaveNoTrace
SYMMETRY ServerSymmetry
