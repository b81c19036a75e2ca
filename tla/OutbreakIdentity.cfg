CONSTANTS
  Slots = {0, 1}
  Roster = {0, 1}
  PatientZero = 0
  MaxSeq = 1
  Bodies = {}
  CloseReceipts = {}
  StartTime = 0
  Duration = 1
  MaxUncertainty = 1
  Capacity = 8
  Frontiers = {}
  BatchLimit = 1
  MaxNow = 1
  NoBody = NoBody
  NotClosed = NotClosed
  Uncertainty = 0
  Skew = 0
  MaxAttempts = 2
  MaxReboots = 1
SPECIFICATION OutbreakSpec
CHECK_DEADLOCK FALSE
INVARIANTS
  OneBodyPerIdentity
