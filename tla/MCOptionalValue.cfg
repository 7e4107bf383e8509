SPECIFICATION Spec
CONSTANTS
  Opts = {x, y}
  Values = {1, 2, 3}
  Convert <- MCConvert
  NoObject = NoObject
  MayThrow = TRUE
INVARIANTS EngagedIsObject OrderIsTotal
