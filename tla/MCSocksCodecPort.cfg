SPECIFICATION Spec
CONSTANTS
  ByteAt <- MCByteAt
  BoundNames <- MCBoundNames
  LittleEndian = TRUE
INVARIANT ReplyPortInNetworkOrder
CHECK_DEADLOCK FALSE
