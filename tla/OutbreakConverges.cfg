CONSTANTS
  Slots = {0, 1}
  Roster = {0, 1}
  PatientZero = 0
  MaxSeq = 1
  Bodies = {}
  CloseReceipts = {}
  Frontiers = {}
  StartTime = 0
  Duration = 2
  MaxUncertainty = 1
  Capacity = 8
  BatchLimit = 1
  MaxNow = 2
  NoBody = NoBody
  NotClosed = NotClosed
  Uncertainty = 0
  Skew = 1
  MaxAttempts = 1
  MaxReboots = 0
SPECIFICATION FairOutbreakSpec
CHECK_DEADLOCK FALSE
PROPERTIES
  Converges
