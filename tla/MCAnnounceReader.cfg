CONSTANTS
  MaxDepth = 2
  MaxFields = 64
  Announces <- MCAnnounces
SPECIFICATION Spec
INVARIANTS NodeAnnounceExact StampCostExact
