CONSTANTS
  Slots = {0, 1, 2}
  Roster = {0, 1, 2}
  PatientZero = 0
  MaxSeq = 1
  Bodies = {}
  CloseReceipts = {}
  Frontiers = {}
  StartTime = 0
  Duration = 1
  MaxUncertainty = 1
  Capacity = 8
  BatchLimit = 1
  MaxNow = 1
  NoBody = NoBody
  NotClosed = NotClosed
  Uncertainty = 0
  Skew = 0
  MaxAttempts = 2
  MaxReboots = 0
SPECIFICATION OutbreakSpec
CHECK_DEADLOCK FALSE
INVARIANTS
  HonestEventsHold
  NothingLost
  FinalShown
