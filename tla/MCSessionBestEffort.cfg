\* Hooks dropped, datagrams late, the clock stepped back: what the heartbeats and
\* the prompts still guarantee.
SPECIFICATION BestEffortSpec
CONSTANTS
  SECOND = 1
  GATE_WINDOW = 2
  IMPRESSION_SECONDS = 1
  MAX_IMPRESSIONS_PER_INTERVAL = 4
  MaxTime = 5
  MaxMoves = 4
  MaxBeats = 2
  MaxCmds = 1
  MaxBacks = 1
  Buffer = 1
INVARIANTS HeartbeatsAttest CappedPerPrompt
CHECK_DEADLOCK FALSE
