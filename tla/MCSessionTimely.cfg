\* Timely delivery, a clock that may be stepped back.
SPECIFICATION SteppedBackSpec
CONSTANTS
  SECOND = 2
  GATE_WINDOW = 4
  IMPRESSION_SECONDS = 2
  MAX_IMPRESSIONS_PER_INTERVAL = 1
  MaxTime = 7
  MaxMoves = 4
  MaxBeats = 3
  MaxCmds = 0
  MaxBacks = 2
  Buffer = 1
INVARIANTS TypeOK EarnedByWaiting LateStopEarnsNothing
CHECK_DEADLOCK FALSE
