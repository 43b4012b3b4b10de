SPECIFICATION Spec

CONSTANTS
  MAX_BUFFER = 4
  HEADER_SIZE = 2
  PAYLOAD_HEADER_SIZE = 1
  ContentSizes = {1, 5, 8}
  MaxRequests = 3
PROPERTY AcknowledgedIsStored

CHECK_DEADLOCK FALSE
