CONSTANTS
  Badges = {host, b1}
  Host = host
  Handlers = {h1}
  MaxPlayers = 3
  HistoryLimit = 0
  MaxKeys = 3
  MaxControls = 1
  MaxRounds = 2
SPECIFICATION MCSpec
CHECK_DEADLOCK FALSE
INVARIANTS
  SlotsStand
  StartsTogether
  ActsOnce
PROPERTIES
  ResetSparesNewcomers
  LiveStarts
