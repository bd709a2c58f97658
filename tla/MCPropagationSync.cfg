CONSTANTS
  Me = "me"
  Base = "base"
  Mails <- MCMails
  Ring <- MCRing
  Limit = 1
  MaxFaults = 2
  MaxInFlight = 2
SPECIFICATION Spec
INVARIANTS TypeOK NothingLost
PROPERTIES AnswersTheQuestion DeliversMail
