CONSTANTS
  Players = {host, b1}
  Host = host
  Viewers = {v1}
  Shut = Shut
  None = None
  MinRoster = 2
  Countdown = 0
  Duration = 1
  MaxCount = 2
  MaxNow = 2
  MaxState = 3
  MaxFailures = 2
  Idle = Idle
  Asked = Asked
  MaxStatus = 5
  MaxOutages = 2
SPECIFICATION MCSpec
INVARIANTS
  OneCount
  OverHeard
  Armed
PROPERTIES
  Feeds
  OneWay
  Forward
  PageTruthful
  NeverOlder
  PanelShows
CHECK_DEADLOCK FALSE
