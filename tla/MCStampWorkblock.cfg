CONSTANTS
  NonceSpace = 2
  RoundCounts = {25, 300}
  Costs = {1}
  Limits = {1}
  Digests <- LongDigests
  RoundBudgets = {0, 1, 60, 65535}
  AttemptBudgets = {1}
SPECIFICATION FairSpec
INVARIANTS SaltsCanonical
