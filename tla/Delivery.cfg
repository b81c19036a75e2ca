CONSTANTS
  Slots = {0, 1, 2, 3, 4}
  HostSlot = 0
  MaxSeq = 1
  Actions = {a1}
  CommandBatch = 3
  EventBatch = 1
  None = None
  All = All
  Refused = Refused
  MaxLog = 5
  MaxDrops = 1
SPECIFICATION MCSpec
CHECK_DEADLOCK FALSE
INVARIANTS
  HostLast
PROPERTIES
  NobodyStarves
  CleanupEnds
  StatusMovesOn
