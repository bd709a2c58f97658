CONSTANTS
  MaxDepth = 8
  MaxFields = 2
  Messages <- MCMessages
  Ids <- MCIds
SPECIFICATION Spec
INVARIANTS TypeOK KeysDistinct ScratchIsIrrelevant KeysReadAsMeant
