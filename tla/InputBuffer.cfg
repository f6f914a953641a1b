CONSTANTS
  Size = 6
  Letters = {a, b}
  NL = nl
  NUL = nul
  UnsignedModulus = 1073741824
  MaxFill = 4
SPECIFICATION Spec
INVARIANTS
  LinesAreTyped
  HoldsTheRest
CHECK_DEADLOCK FALSE
