\* A device and one registered as the house, a fork, batches of two, redemptions;
\* restarts between requests.
SPECIFICATION Spec
CONSTANTS
  k1 = k1
  k2 = k2
  a0 = a0
  a1 = a1
  fork = fork
  b0 = b0
  Devices = {d1, House}
  Keys = {k1, k2}
  NoKey = NoKey
  Events <- AllEvents
  House = House
  Payout = Payout
  PRICE_PER_IMP_MICROS = 3
  DEV_SHARE_NUM = 1
  DEV_SHARE_DEN = 2
  Amounts = {0, 1, 2}
  MaxBatch = 2
  MaxRequests = 5
INVARIANTS TypeOK BalanceMatchesLedger ViewMatchesDisk TalliesMatch RedemptionIdsUnique
PROPERTIES ImplementsBook
CHECK_DEADLOCK FALSE
