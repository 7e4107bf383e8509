SPECIFICATION Spec
CONSTANTS
  ByteAt <- MCByteAt
  BoundNames <- MCBoundNames
  LittleEndian = TRUE
INVARIANTS OneKindOnly NoPrefixDecodes DecodeThenEncode ConnectsWhereAsked
CHECK_DEADLOCK FALSE
