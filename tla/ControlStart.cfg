CONSTANTS
  Badges = {host, b1, b2}
  Host = host
  Handlers = {h1, h2}
  MaxPlayers = 3
  HistoryLimit = 4
  MaxKeys = 3
  MaxControls = 1
  MaxRounds = 1
SPECIFICATION Spec
CHECK_DEADLOCK FALSE
SYMMETRY Symmetry
INVARIANTS
  DigestIsRoster
  Told
