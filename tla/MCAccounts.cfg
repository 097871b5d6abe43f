CONSTANTS
  Emails = {ann, bob}
  None = None
  MaxActions = 4
SPECIFICATION Spec
INVARIANTS SettledTabIsConsistent ShownSessionIsLive
PROPERTIES LoadingEnds
CHECK_DEADLOCK FALSE
