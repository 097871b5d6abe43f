SPECIFICATION WireSpec
CONSTANTS
  BASE = 6
  Strings <- MCStrings
  MaxStray = 4
  Nothing = Nothing
INVARIANT SkimIsLookup
INVARIANT ReadAsSent
INVARIANT SameSession
