SPECIFICATION FairSpec

CONSTANTS
  Word = 32
  BLOCK = 2
  MESSAGE_HEADER = 3
  RECORD_HEADER = 2
  RESPONSE_HEADER = 2
  LIST = 1
  MAX_BLOB = 6
  BufferSize = 6
  TextSizes = {0, 1, 2, 4, 27, 28, 30, 31, 32}
  MaxRequests = 3

INVARIANT TransferTypeOK
INVARIANT ContentsUncut
INVARIANT AnswersUnmixed
PROPERTY ShortAnswersArrive
PROPERTY AnswersEnd

CHECK_DEADLOCK FALSE
