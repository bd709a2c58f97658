CONSTANTS
  MaxDepth = 8
  MaxFields = 64
  HashLength = 16
  SignatureLength = 64
  PlaintextOffset = 48
  FixedOverhead = 80
  Block = 16
  MaxPlaintext = 383
  PnStampLength = 32
  Messages <- DeepMessages
  Capacities = {500}
  Stamps <- MCStamps
  MaxSeals = 1
SPECIFICATION Spec
INVARIANTS BuiltMessageCanBeStamped
CHECK_DEADLOCK FALSE
