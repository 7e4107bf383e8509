SPECIFICATION Spec
CONSTANTS
  a = a
  b = b
  c = c
  Objects <- MCObjects
  Signals <- MCSignals
  Slots <- MCSlots
  Hash <- MCHash
  MaxEmits = 2
INVARIANTS PipesAreOwned StaysConnected WaitingIsQueued DeliveryReaches
CHECK_DEADLOCK FALSE
