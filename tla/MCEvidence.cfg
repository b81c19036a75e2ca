CONSTANTS
  Slots = {0, 1, 2, 3}
  Roster = {0, 1, 2}
  PatientZero = 0
  MaxSeq = 3
  Bodies <- AllBodies
  CloseReceipts <- AllReceipts
  Frontiers <- LateFrontiers
  StartTime = 1
  Duration = 3
  MaxUncertainty = 2
  Capacity = 5
  BatchLimit = 2
  MaxNow = 4
  NoBody = NoBody
  NotClosed = NotClosed
SPECIFICATION MCSpec
CHECK_DEADLOCK FALSE
INVARIANTS
  Ancestry
  OneInfectionEach
  Frontier
  NoNeedlessWait
  SnapshotCurrent
  ResultAgrees
  AckedDecided
PROPERTIES
  DecisionsStick
  Infections
  EventuallyEnds
