\* Short writes, failed syncs, crashes and power loss.
SPECIFICATION QueueSpec
CONSTANTS
  HEADER = 2
  BASE = 2
  Payloads <- SmallPayloads
  MaxAppends = 4
INVARIANTS QueueTypeOK EarlierRecordsSurvive OnlyWholeRecords
CHECK_DEADLOCK FALSE
