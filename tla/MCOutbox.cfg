CONSTANTS
  MaxDepth = 8
  MaxFields = 64
  HashLength = 16
  SignatureLength = 64
  PlaintextOffset = 48
  FixedOverhead = 80
  Block = 16
  MaxPlaintext = 383
  PnStampLength = 32
  Messages <- MCMessages
  Capacities <- MCCapacities
  Stamps <- MCStamps
  MaxSeals = 2
SPECIFICATION Spec
INVARIANTS TypeOK MessageSurvives StampSurvives RetriesKeepEntry PathsAgree SizedBufferSuffices
PROPERTIES FailureIsHarmless
CHECK_DEADLOCK FALSE
