CONSTANTS
  Ids = {1, 2, 3, 4}
  House <- HouseAds
  MaxTime = 1
  MaxRestarts = 2
  MaxClicks = 2
  MaxWrites = 4
SPECIFICATION Spec
INVARIANTS PoolMatchesTable TakenDownStaysDown ClickCountHeals ShownEvenly
PROPERTIES RestartKeepsRotation
CHECK_DEADLOCK FALSE
