CONSTANTS
  NonceSpace <- MCNonceSpace
  RoundCounts = {1, 3}
  Costs = {0, 1, 2, 3}
  Limits = {0, 1, 2, 3}
  Digests <- MCDigests
  RoundBudgets = {0, 1, 2}
  AttemptBudgets = {0, 1, 2, 7}
SPECIFICATION FairSpec
INVARIANTS TypeOK WorkblockExact ScheduleIndependent
PROPERTIES KeepsFairPromise
