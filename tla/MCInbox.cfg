CONSTANTS
  Me = "me"
  Base = "base"
  Packets <- MCPackets
  Identities <- MCIdentities
  Ratchets <- MCRatchets
  MaxPeeked = 2
SPECIFICATION Spec
INVARIANTS TypeOK AcceptedAsSigned PeekedSourceIsOwn HintedVerdict GenuineAccepted
