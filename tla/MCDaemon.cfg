\* Two sessions, two runs of the daemon.
SPECIFICATION Spec
CONSTANTS
  SECOND = 1
  GATE_WINDOW = 1
  IMPRESSION_SECONDS = 1
  MAX_IMPRESSIONS_PER_INTERVAL = 3
  Sessions = {s1, s2}
  MaxTime = 2
  MaxBacks = 1
  MaxRuns = 2
  MaxEvents = 2
  MaxBeats = 2
INVARIANTS TypeOK PauseReachesEverySession OneChainPerKey OwnHeartbeatsAttest
SYMMETRY SessionSymmetry
CHECK_DEADLOCK FALSE
