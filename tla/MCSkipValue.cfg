CONSTANTS
  MaxDepth = 8
  Inputs <- MCInputs
  Starts = {1, 2}
SPECIFICATION FairSpec
INVARIANTS TypeOK LinearWork AcceptsExactlyValues ReadersAgree
PROPERTIES Terminates
CHECK_DEADLOCK FALSE
