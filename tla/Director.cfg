CONSTANTS
  History <- TwoRounds
  DailyLimit = 3
  RoundLimit = 2
  RequestsPerRun = 2
  Cooldown = 2
  MaxRun = 3
  DayLength = 3
  FollowUpDelay = 1
  MaxFollowUps = 1
  MaxNow = 4
  MaxCrashes = 1
  MaxUpsets = 2
  MaxCalls = 3
  None = None
SPECIFICATION Spec
CHECK_DEADLOCK FALSE
INVARIANTS
  BudgetHolds
  FollowUpsCurrent
  NoLostWake
PROPERTIES
  Spaced
