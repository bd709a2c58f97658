CONSTANTS
  MaxDepth = 2
  MaxFields = 3
  TicketLength = 2
  Maps <- MCMaps
  Times <- MCTimes
  Text <- MCText
SPECIFICATION Spec
INVARIANTS TypeOK AudioReadAsMeant TicketsUnexpired MemberReadAsMeant
PROPERTIES ExpiryIsFinal
