CONSTANTS
  MaxDepth = 2
  Arrays <- MCArrays
SPECIFICATION ArraySpec
INVARIANTS LenIsExact ItemsTile
CHECK_DEADLOCK FALSE
