CONSTANTS
  Badges = {host, b1}
  Host = host
  Handlers = {h1}
  MaxPlayers = 3
  HistoryLimit = 4
  MaxKeys = 3
  MaxControls = 1
  MaxRounds = 2
SPECIFICATION Spec
CHECK_DEADLOCK FALSE
INVARIANTS
  NoGhost
