CONSTANTS
  Slots = {0, 1}
  Roster = {0, 1}
  PatientZero = 0
  MaxSeq = 2
  Bodies = {}
  CloseReceipts = {}
  Frontiers = {}
  StartTime = 0
  Duration = 2
  MaxUncertainty = 1
  Capacity = 8
  BatchLimit = 1
  MaxNow = 1
  NoBody = NoBody
  NotClosed = NotClosed
  Uncertainty = 0
  Skew = 1
  MaxAttempts = 2
  MaxReboots = 1
SPECIFICATION OutbreakSpec
CHECK_DEADLOCK FALSE
INVARIANTS
  CardAgrees
PROPERTIES
  InfectionKept
