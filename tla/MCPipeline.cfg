\* Two runs of the daemon; requests lost and overtaken.
SPECIFICATION Spec
CONSTANTS
  MaxRuns = 2
  MaxEvents = 3
INVARIANTS TypeOK NoHonestEventRefused
PROPERTIES EveryEventCredited CreditsInOrder
CHECK_DEADLOCK FALSE
