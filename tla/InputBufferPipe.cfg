CONSTANTS
  Size = 6
  Letters = {a, b}
  NL = nl
  NUL = nul
  UnsignedModulus = 1073741824
  MaxFill = 5
SPECIFICATION Spec
INVARIANTS
  LinesAreTyped
CHECK_DEADLOCK FALSE
